-------------------------- MODULE CollectorProofs --------------------------
(***************************************************************************)
(* Safety of the collector for any number of threads, foreign threads and  *)
(* blocks: IInv is inductive, and the properties follow from it.           *)
(***************************************************************************)
EXTENDS Collector, TLAPS, FiniteSetTheorems

USE DEF flags, conds, heapFlags, gcVars, collector, memory

\* Threads, and only they, are listed while they run.
Listed == \A t \in Threads : t \in threads <=> pc[t] # "out"

\* Where a thread is whose condition the collector may trigger
WaitingPlaces == \A t \in waiting : pc[t] \in {"signal", "wait", "woken"}

\* Where a thread is that counts as yielded, and where it goes from there
YieldPlaces ==
  \A t \in yielded :
    IF t \in sticky
    THEN \/ pc[t] \in {"blocked", "target", "await", "reset"}
         \/ pc[t] \in {"test", "enter", "signal"} /\ ret[t] \in {"blocked", "target"}
         \/ pc[t] \in {"request", "insist", "alert"} /\ ret[t] \in {"await", "reset"}
    ELSE pc[t] \in {"signal", "wait", "woken"}

\* A thread remembers where to return only in a yield or a request.
ReturnPlaces ==
  \A t \in Threads :
    pc[t] \notin {"test", "enter", "signal", "wait", "woken", "request", "insist", "alert"} =>
      ret[t] = "run"

\* What a thread refers to it has saved before it yields.
SavedBeforeYield == \A t \in Threads : local[t] = {} \/ UsesHeap(t)

\* The collector marks between its poll and the unlock, and asks to yield until then.
CollectorPhase ==
  /\ marking <=> spc \in {"lock", "flip", "mark", "unlock"}
  /\ spc \in {"poll", "nap", "lock", "flip", "mark", "unlock"} => mustYield
  /\ probe # None => spc = "sweep"

\* A thread that leaves its sticky yield while the collector marks yields again.
OnTheWayBack == marking => \A t \in threads \ yielded : pc[t] \in {"test", "enter"}

\* The global lock is held by who marks, or by who releases a block.
LockPlaces ==
  /\ spc \in {"flip", "mark", "unlock"} => global = Sweeper
  /\ \A a \in Actors : pc[a] \in {"stamp", "letgo"} => global = a

\* A block that something refers to, or that is held, once it is allocated
RefersTo(b) ==
  \/ b \in rooted
  \/ \E t \in Threads : b \in local[t]
  \/ holder[b] # None /\ pc[holder[b]] \notin {"taken", "stale"}

\* From the end of the marking on, blocks in use are marked or eternal; the sweep takes
\* its probe for one that is not eternal, so it must be marked; and an eternal block is
\* marked again before it is released.
HeapSafe ==
  \A b \in Blocks :
    /\ b \in eternal <=> holder[b] # None
    /\ RefersTo(b) => b \in live
    /\ RefersTo(b) /\ spc \in {"unlock", "resume", "sweep"} => b \in marked \cup eternal
    /\ RefersTo(b) /\ b = probe => b \in marked
    /\ holder[b] # None /\ pc[holder[b]] = "stale" => b # probe
    /\ holder[b] # None /\ pc[holder[b]] = "letgo" => b \in marked

IInv ==
  /\ TypeOK /\ Listed /\ WaitingPlaces /\ YieldPlaces /\ ReturnPlaces /\ SavedBeforeYield
  /\ CollectorPhase /\ OnTheWayBack /\ LockPlaces /\ NoLostRequest /\ HeapSafe

LEMMA YieldStep ==
  ASSUME IInv, NEW t \in Threads, Yield(t)
  PROVE  IInv'
<1>1. TypeOK'
  BY CollectorAssumption DEF IInv, TypeOK, Labels, Returns, CollectorLabels,
     Actors, Listed, WaitingPlaces, YieldPlaces, Yield, Running, BeginYield,
     Goto
<1>2. (Listed /\ WaitingPlaces /\ YieldPlaces)'
  BY CollectorAssumption DEF IInv, TypeOK, Labels, Returns, Actors, Listed,
     WaitingPlaces, YieldPlaces, Yield, Running, BeginYield, Goto
<1>3. (ReturnPlaces /\ SavedBeforeYield)'
  BY CollectorAssumption DEF IInv, TypeOK, Labels, Returns, Actors,
     YieldPlaces, ReturnPlaces, SavedBeforeYield, UsesHeap, Listed, Yield,
     Running, BeginYield, Goto
<1>4. (CollectorPhase /\ OnTheWayBack)'
  BY CollectorAssumption DEF IInv, TypeOK, Labels, Actors, Listed,
     YieldPlaces, CollectorPhase, OnTheWayBack, Yield, Running, BeginYield,
     Goto
<1>5. (LockPlaces /\ NoLostRequest)'
  BY CollectorAssumption DEF IInv, TypeOK, Actors, Labels, Returns,
     LockPlaces, NoLostRequest, Listed, Yield, Running, BeginYield, Goto
<1>6. HeapSafe'
  BY CollectorAssumption DEF IInv, TypeOK, Labels, Returns, Actors,
     YieldPlaces, SavedBeforeYield, UsesHeap, CollectorPhase, OnTheWayBack,
     ReturnPlaces, LockPlaces, HeapSafe, RefersTo, Listed, Yield, Running,
     BeginYield, Goto
<1> QED
  BY <1>1, <1>2, <1>3, <1>4, <1>5, <1>6 DEF IInv

LEMMA TestYieldStep ==
  ASSUME IInv, NEW t \in Threads, TestYield(t)
  PROVE  IInv'
<1>1. TypeOK'
  BY CollectorAssumption DEF IInv, TypeOK, Labels, Returns, CollectorLabels,
     Actors, Listed, WaitingPlaces, YieldPlaces, TestYield, Goto, Back,
     MemoryUnchanged
<1>2. (Listed /\ WaitingPlaces /\ YieldPlaces)'
  BY CollectorAssumption DEF IInv, TypeOK, Labels, Returns, Actors, Listed,
     WaitingPlaces, YieldPlaces, TestYield, Goto, Back, MemoryUnchanged
<1>3. (ReturnPlaces /\ SavedBeforeYield)'
  BY CollectorAssumption DEF IInv, TypeOK, Labels, Returns, Actors,
     YieldPlaces, ReturnPlaces, SavedBeforeYield, UsesHeap, Listed, TestYield,
     Goto, Back, MemoryUnchanged
<1>4. (CollectorPhase /\ OnTheWayBack)'
  BY CollectorAssumption DEF IInv, TypeOK, Labels, Actors, Listed,
     YieldPlaces, CollectorPhase, OnTheWayBack, TestYield, Goto, Back,
     MemoryUnchanged
<1>5. (LockPlaces /\ NoLostRequest)'
  BY CollectorAssumption DEF IInv, TypeOK, Actors, Labels, Returns,
     LockPlaces, NoLostRequest, Listed, TestYield, Goto, Back, MemoryUnchanged
<1>6. HeapSafe'
  BY CollectorAssumption DEF IInv, TypeOK, Labels, Returns, Actors,
     YieldPlaces, SavedBeforeYield, UsesHeap, CollectorPhase, OnTheWayBack,
     ReturnPlaces, LockPlaces, HeapSafe, RefersTo, Listed, TestYield, Goto,
     Back, MemoryUnchanged
<1> QED
  BY <1>1, <1>2, <1>3, <1>4, <1>5, <1>6 DEF IInv

LEMMA EnterYieldStep ==
  ASSUME IInv, NEW t \in Threads, EnterYield(t)
  PROVE  IInv'
<1>1. TypeOK'
  BY CollectorAssumption DEF IInv, TypeOK, Labels, Returns, CollectorLabels,
     Actors, Listed, WaitingPlaces, YieldPlaces, EnterYield, Round,
     MemoryUnchanged, Goto, Back
<1>2. (Listed /\ WaitingPlaces /\ YieldPlaces)'
  BY CollectorAssumption DEF IInv, TypeOK, Labels, Returns, Actors, Listed,
     WaitingPlaces, YieldPlaces, EnterYield, Round, MemoryUnchanged, Goto,
     Back
<1>3. (ReturnPlaces /\ SavedBeforeYield)'
  BY CollectorAssumption DEF IInv, TypeOK, Labels, Returns, Actors,
     YieldPlaces, ReturnPlaces, SavedBeforeYield, UsesHeap, Listed,
     EnterYield, Round, MemoryUnchanged, Goto, Back
<1>4. (CollectorPhase /\ OnTheWayBack)'
  BY CollectorAssumption DEF IInv, TypeOK, Labels, Actors, Listed,
     YieldPlaces, CollectorPhase, OnTheWayBack, EnterYield, Round,
     MemoryUnchanged, Goto, Back
<1>5. (LockPlaces /\ NoLostRequest)'
  BY CollectorAssumption DEF IInv, TypeOK, Actors, Labels, Returns,
     LockPlaces, NoLostRequest, Listed, EnterYield, Round, MemoryUnchanged,
     Goto, Back
<1>6. HeapSafe'
  BY CollectorAssumption DEF IInv, TypeOK, Labels, Returns, Actors,
     YieldPlaces, SavedBeforeYield, UsesHeap, CollectorPhase, OnTheWayBack,
     ReturnPlaces, LockPlaces, HeapSafe, RefersTo, Listed, EnterYield, Round,
     MemoryUnchanged, Goto, Back
<1> QED
  BY <1>1, <1>2, <1>3, <1>4, <1>5, <1>6 DEF IInv

LEMMA SignalYieldStep ==
  ASSUME IInv, NEW t \in Threads, SignalYield(t)
  PROVE  IInv'
<1>1. TypeOK'
  BY CollectorAssumption DEF IInv, TypeOK, Labels, Returns, CollectorLabels,
     Actors, Listed, WaitingPlaces, YieldPlaces, SignalYield, Back, Goto,
     YieldUnchanged, MemoryUnchanged
<1>2. (Listed /\ WaitingPlaces /\ YieldPlaces)'
  BY CollectorAssumption DEF IInv, TypeOK, Labels, Returns, Actors, Listed,
     WaitingPlaces, YieldPlaces, SignalYield, Back, Goto, YieldUnchanged,
     MemoryUnchanged
<1>3. (ReturnPlaces /\ SavedBeforeYield)'
  BY CollectorAssumption DEF IInv, TypeOK, Labels, Returns, Actors,
     YieldPlaces, ReturnPlaces, SavedBeforeYield, UsesHeap, Listed,
     SignalYield, Back, Goto, YieldUnchanged, MemoryUnchanged
<1>4. (CollectorPhase /\ OnTheWayBack)'
  BY CollectorAssumption DEF IInv, TypeOK, Labels, Actors, Listed,
     YieldPlaces, CollectorPhase, OnTheWayBack, SignalYield, Back, Goto,
     YieldUnchanged, MemoryUnchanged
<1>5. (LockPlaces /\ NoLostRequest)'
  BY CollectorAssumption DEF IInv, TypeOK, Actors, Labels, Returns,
     LockPlaces, NoLostRequest, Listed, SignalYield, Back, Goto,
     YieldUnchanged, MemoryUnchanged
<1>6. HeapSafe'
  BY CollectorAssumption DEF IInv, TypeOK, Labels, Returns, Actors,
     YieldPlaces, SavedBeforeYield, UsesHeap, CollectorPhase, OnTheWayBack,
     ReturnPlaces, LockPlaces, HeapSafe, RefersTo, Listed, SignalYield, Back,
     Goto, YieldUnchanged, MemoryUnchanged
<1> QED
  BY <1>1, <1>2, <1>3, <1>4, <1>5, <1>6 DEF IInv

LEMMA WaitStep ==
  ASSUME IInv, NEW t \in Threads, Wait(t)
  PROVE  IInv'
<1>1. TypeOK'
  BY CollectorAssumption DEF IInv, TypeOK, Labels, Returns, CollectorLabels,
     Actors, Listed, WaitingPlaces, YieldPlaces, Wait, Goto, YieldUnchanged,
     MemoryUnchanged
<1>2. (Listed /\ WaitingPlaces /\ YieldPlaces)'
  BY CollectorAssumption DEF IInv, TypeOK, Labels, Returns, Actors, Listed,
     WaitingPlaces, YieldPlaces, Wait, Goto, YieldUnchanged, MemoryUnchanged
<1>3. (ReturnPlaces /\ SavedBeforeYield)'
  BY CollectorAssumption DEF IInv, TypeOK, Labels, Returns, Actors,
     YieldPlaces, ReturnPlaces, SavedBeforeYield, UsesHeap, Listed, Wait,
     Goto, YieldUnchanged, MemoryUnchanged
<1>4. (CollectorPhase /\ OnTheWayBack)'
  BY CollectorAssumption DEF IInv, TypeOK, Labels, Actors, Listed,
     YieldPlaces, CollectorPhase, OnTheWayBack, Wait, Goto, YieldUnchanged,
     MemoryUnchanged
<1>5. (LockPlaces /\ NoLostRequest)'
  BY CollectorAssumption DEF IInv, TypeOK, Actors, Labels, Returns,
     LockPlaces, NoLostRequest, Listed, Wait, Goto, YieldUnchanged,
     MemoryUnchanged
<1>6. HeapSafe'
  BY CollectorAssumption DEF IInv, TypeOK, Labels, Returns, Actors,
     YieldPlaces, SavedBeforeYield, UsesHeap, CollectorPhase, OnTheWayBack,
     ReturnPlaces, LockPlaces, HeapSafe, RefersTo, Listed, Wait, Goto,
     YieldUnchanged, MemoryUnchanged
<1> QED
  BY <1>1, <1>2, <1>3, <1>4, <1>5, <1>6 DEF IInv

LEMMA WokenStep ==
  ASSUME IInv, NEW t \in Threads, Woken(t)
  PROVE  IInv'
<1>1. TypeOK'
  BY CollectorAssumption DEF IInv, TypeOK, Labels, Returns, CollectorLabels,
     Actors, Listed, WaitingPlaces, YieldPlaces, Woken, Back, Goto,
     YieldUnchanged, MemoryUnchanged
<1>2. (Listed /\ WaitingPlaces /\ YieldPlaces)'
  BY CollectorAssumption DEF IInv, TypeOK, Labels, Returns, Actors, Listed,
     WaitingPlaces, YieldPlaces, Woken, Back, Goto, YieldUnchanged,
     MemoryUnchanged
<1>3. (ReturnPlaces /\ SavedBeforeYield)'
  BY CollectorAssumption DEF IInv, TypeOK, Labels, Returns, Actors,
     YieldPlaces, ReturnPlaces, SavedBeforeYield, UsesHeap, Listed, Woken,
     Back, Goto, YieldUnchanged, MemoryUnchanged
<1>4. (CollectorPhase /\ OnTheWayBack)'
  BY CollectorAssumption DEF IInv, TypeOK, Labels, Actors, Listed,
     YieldPlaces, CollectorPhase, OnTheWayBack, Woken, Back, Goto,
     YieldUnchanged, MemoryUnchanged
<1>5. (LockPlaces /\ NoLostRequest)'
  BY CollectorAssumption DEF IInv, TypeOK, Actors, Labels, Returns,
     LockPlaces, NoLostRequest, Listed, Woken, Back, Goto, YieldUnchanged,
     MemoryUnchanged
<1>6. HeapSafe'
  BY CollectorAssumption DEF IInv, TypeOK, Labels, Returns, Actors,
     YieldPlaces, SavedBeforeYield, UsesHeap, CollectorPhase, OnTheWayBack,
     ReturnPlaces, LockPlaces, HeapSafe, RefersTo, Listed, Woken, Back, Goto,
     YieldUnchanged, MemoryUnchanged
<1> QED
  BY <1>1, <1>2, <1>3, <1>4, <1>5, <1>6 DEF IInv

LEMMA UnblockStep ==
  ASSUME IInv, NEW t \in Threads, Unblock(t)
  PROVE  IInv'
<1>1. TypeOK'
  BY CollectorAssumption DEF IInv, TypeOK, Labels, Returns, CollectorLabels,
     Actors, Listed, WaitingPlaces, YieldPlaces, Unblock, ResetYield,
     YieldUnchanged, MemoryUnchanged, Goto
<1>2. (Listed /\ WaitingPlaces /\ YieldPlaces)'
  BY CollectorAssumption DEF IInv, TypeOK, Labels, Returns, Actors, Listed,
     WaitingPlaces, YieldPlaces, Unblock, ResetYield, YieldUnchanged,
     MemoryUnchanged, Goto
<1>3. (ReturnPlaces /\ SavedBeforeYield)'
  BY CollectorAssumption DEF IInv, TypeOK, Labels, Returns, Actors,
     YieldPlaces, ReturnPlaces, SavedBeforeYield, UsesHeap, Listed, Unblock,
     ResetYield, YieldUnchanged, MemoryUnchanged, Goto
<1>4. (CollectorPhase /\ OnTheWayBack)'
  BY CollectorAssumption DEF IInv, TypeOK, Labels, Actors, Listed,
     YieldPlaces, CollectorPhase, OnTheWayBack, Unblock, ResetYield,
     YieldUnchanged, MemoryUnchanged, Goto
<1>5. (LockPlaces /\ NoLostRequest)'
  BY CollectorAssumption DEF IInv, TypeOK, Actors, Labels, Returns,
     LockPlaces, NoLostRequest, Listed, Unblock, ResetYield, YieldUnchanged,
     MemoryUnchanged, Goto
<1>6. HeapSafe'
  BY CollectorAssumption DEF IInv, TypeOK, Labels, Returns, Actors,
     YieldPlaces, SavedBeforeYield, UsesHeap, CollectorPhase, OnTheWayBack,
     ReturnPlaces, LockPlaces, HeapSafe, RefersTo, Listed, Unblock,
     ResetYield, YieldUnchanged, MemoryUnchanged, Goto
<1> QED
  BY <1>1, <1>2, <1>3, <1>4, <1>5, <1>6 DEF IInv

LEMMA SetThreadYieldStep ==
  ASSUME IInv, NEW t \in Threads, SetThreadYield(t)
  PROVE  IInv'
<1>1. TypeOK'
  BY CollectorAssumption DEF IInv, TypeOK, Labels, Returns, CollectorLabels,
     Actors, Listed, WaitingPlaces, YieldPlaces, SetThreadYield, Running,
     YieldUnchanged, MemoryUnchanged
<1>2. (Listed /\ WaitingPlaces /\ YieldPlaces)'
  BY CollectorAssumption DEF IInv, TypeOK, Labels, Returns, Actors, Listed,
     WaitingPlaces, YieldPlaces, SetThreadYield, Running, YieldUnchanged,
     MemoryUnchanged
<1>3. (ReturnPlaces /\ SavedBeforeYield)'
  BY CollectorAssumption DEF IInv, TypeOK, Labels, Returns, Actors,
     YieldPlaces, ReturnPlaces, SavedBeforeYield, UsesHeap, Listed,
     SetThreadYield, Running, YieldUnchanged, MemoryUnchanged
<1>4. (CollectorPhase /\ OnTheWayBack)'
  BY CollectorAssumption DEF IInv, TypeOK, Labels, Actors, Listed,
     YieldPlaces, CollectorPhase, OnTheWayBack, SetThreadYield, Running,
     YieldUnchanged, MemoryUnchanged
<1>5. (LockPlaces /\ NoLostRequest)'
  BY CollectorAssumption DEF IInv, TypeOK, Actors, Labels, Returns,
     LockPlaces, NoLostRequest, Listed, SetThreadYield, Running,
     YieldUnchanged, MemoryUnchanged
<1>6. HeapSafe'
  BY CollectorAssumption DEF IInv, TypeOK, Labels, Returns, Actors,
     YieldPlaces, SavedBeforeYield, UsesHeap, CollectorPhase, OnTheWayBack,
     ReturnPlaces, LockPlaces, HeapSafe, RefersTo, Listed, SetThreadYield,
     Running, YieldUnchanged, MemoryUnchanged
<1> QED
  BY <1>1, <1>2, <1>3, <1>4, <1>5, <1>6 DEF IInv

LEMMA CollectBlockingStep ==
  ASSUME IInv, NEW t \in Threads, CollectBlocking(t)
  PROVE  IInv'
<1>1. TypeOK'
  BY CollectorAssumption DEF IInv, TypeOK, Labels, Returns, CollectorLabels,
     Actors, Listed, WaitingPlaces, YieldPlaces, CollectBlocking, Running,
     BeginYield, Goto
<1>2. (Listed /\ WaitingPlaces /\ YieldPlaces)'
  BY CollectorAssumption DEF IInv, TypeOK, Labels, Returns, Actors, Listed,
     WaitingPlaces, YieldPlaces, CollectBlocking, Running, BeginYield, Goto
<1>3. (ReturnPlaces /\ SavedBeforeYield)'
  BY CollectorAssumption DEF IInv, TypeOK, Labels, Returns, Actors,
     YieldPlaces, ReturnPlaces, SavedBeforeYield, UsesHeap, Listed,
     CollectBlocking, Running, BeginYield, Goto
<1>4. (CollectorPhase /\ OnTheWayBack)'
  BY CollectorAssumption DEF IInv, TypeOK, Labels, Actors, Listed,
     YieldPlaces, CollectorPhase, OnTheWayBack, CollectBlocking, Running,
     BeginYield, Goto
<1>5. (LockPlaces /\ NoLostRequest)'
  BY CollectorAssumption DEF IInv, TypeOK, Actors, Labels, Returns,
     LockPlaces, NoLostRequest, Listed, CollectBlocking, Running, BeginYield,
     Goto
<1>6. HeapSafe'
  BY CollectorAssumption DEF IInv, TypeOK, Labels, Returns, Actors,
     YieldPlaces, SavedBeforeYield, UsesHeap, CollectorPhase, OnTheWayBack,
     ReturnPlaces, LockPlaces, HeapSafe, RefersTo, Listed, CollectBlocking,
     Running, BeginYield, Goto
<1> QED
  BY <1>1, <1>2, <1>3, <1>4, <1>5, <1>6 DEF IInv

LEMMA ReadTargetStep ==
  ASSUME IInv, NEW t \in Threads, ReadTarget(t)
  PROVE  IInv'
<1>1. TypeOK'
  BY CollectorAssumption DEF IInv, TypeOK, Labels, Returns, CollectorLabels,
     Actors, Listed, WaitingPlaces, YieldPlaces, ReadTarget, Garbage, Goto,
     MemoryUnchanged, RequestUnchanged
<1>2. (Listed /\ WaitingPlaces /\ YieldPlaces)'
  BY CollectorAssumption DEF IInv, TypeOK, Labels, Returns, Actors, Listed,
     WaitingPlaces, YieldPlaces, ReadTarget, Garbage, Goto, MemoryUnchanged,
     RequestUnchanged
<1>3. (ReturnPlaces /\ SavedBeforeYield)'
  BY CollectorAssumption DEF IInv, TypeOK, Labels, Returns, Actors,
     YieldPlaces, ReturnPlaces, SavedBeforeYield, UsesHeap, Listed,
     ReadTarget, Garbage, Goto, MemoryUnchanged, RequestUnchanged
<1>4. (CollectorPhase /\ OnTheWayBack)'
  BY CollectorAssumption DEF IInv, TypeOK, Labels, Actors, Listed,
     YieldPlaces, CollectorPhase, OnTheWayBack, ReadTarget, Garbage, Goto,
     MemoryUnchanged, RequestUnchanged
<1>5. (LockPlaces /\ NoLostRequest)'
  BY CollectorAssumption DEF IInv, TypeOK, Actors, Labels, Returns,
     LockPlaces, NoLostRequest, Listed, ReadTarget, Garbage, Goto,
     MemoryUnchanged, RequestUnchanged
<1>6. HeapSafe'
  BY CollectorAssumption DEF IInv, TypeOK, Labels, Returns, Actors,
     YieldPlaces, SavedBeforeYield, UsesHeap, CollectorPhase, OnTheWayBack,
     ReturnPlaces, LockPlaces, HeapSafe, RefersTo, Listed, ReadTarget,
     Garbage, Goto, MemoryUnchanged, RequestUnchanged
<1> QED
  BY <1>1, <1>2, <1>3, <1>4, <1>5, <1>6 DEF IInv

LEMMA RequestStep ==
  ASSUME IInv, NEW t \in Threads, Request(t)
  PROVE  IInv'
<1>1. TypeOK'
  BY CollectorAssumption DEF IInv, TypeOK, Labels, Returns, CollectorLabels,
     Actors, Listed, WaitingPlaces, YieldPlaces, Request, Running, Goto,
     MemoryUnchanged, RequestUnchanged
<1>2. (Listed /\ WaitingPlaces /\ YieldPlaces)'
  BY CollectorAssumption DEF IInv, TypeOK, Labels, Returns, Actors, Listed,
     WaitingPlaces, YieldPlaces, Request, Running, Goto, MemoryUnchanged,
     RequestUnchanged
<1>3. (ReturnPlaces /\ SavedBeforeYield)'
  BY CollectorAssumption DEF IInv, TypeOK, Labels, Returns, Actors,
     YieldPlaces, ReturnPlaces, SavedBeforeYield, UsesHeap, Listed, Request,
     Running, Goto, MemoryUnchanged, RequestUnchanged
<1>4. (CollectorPhase /\ OnTheWayBack)'
  BY CollectorAssumption DEF IInv, TypeOK, Labels, Actors, Listed,
     YieldPlaces, CollectorPhase, OnTheWayBack, Request, Running, Goto,
     MemoryUnchanged, RequestUnchanged
<1>5. (LockPlaces /\ NoLostRequest)'
  BY CollectorAssumption DEF IInv, TypeOK, Actors, Labels, Returns,
     LockPlaces, NoLostRequest, Listed, Request, Running, Goto,
     MemoryUnchanged, RequestUnchanged
<1>6. HeapSafe'
  BY CollectorAssumption DEF IInv, TypeOK, Labels, Returns, Actors,
     YieldPlaces, SavedBeforeYield, UsesHeap, CollectorPhase, OnTheWayBack,
     ReturnPlaces, LockPlaces, HeapSafe, RefersTo, Listed, Request, Running,
     Goto, MemoryUnchanged, RequestUnchanged
<1> QED
  BY <1>1, <1>2, <1>3, <1>4, <1>5, <1>6 DEF IInv

LEMMA TriggerStep ==
  ASSUME IInv, NEW t \in Threads, Trigger(t)
  PROVE  IInv'
<1>1. TypeOK'
  <2>1. /\ pc' \in [Actors -> Labels] /\ ret' \in [Threads -> Returns]
        /\ {gcCond, mustYield, marking, requested, enabled, late, few}' \subseteq BOOLEAN
    <3>1. CASE enabled /\ (mode[t] # "normal" \/ ~requested)
      BY <3>1 DEF IInv, TypeOK, Labels, Returns, Actors, Trigger, Goto, RequestUnchanged
    <3>2. CASE ~(enabled /\ (mode[t] # "normal" \/ ~requested))
      BY <3>2 DEF IInv, TypeOK, Labels, Returns, Actors, Trigger, Goto, Back,
         RequestUnchanged
    <3> QED
      BY <3>1, <3>2
  <2>2. mode' \in [Threads -> {"none", "normal", "forced", "complete", "sweep"}]
    BY DEF IInv, TypeOK, Trigger
  <2>3. UNCHANGED <<threads, yielded, sticky, waiting, noyield, forSweeper, tcond, global,
                    goal, gaveUp, spc, live, marked, eternal, rooted, local, holder,
                    unswept, probe, doomed>>
    BY DEF Trigger, MemoryUnchanged, RequestUnchanged
  <2> QED
    BY <2>1, <2>2, <2>3 DEF IInv, TypeOK
<1>2. (Listed /\ WaitingPlaces /\ YieldPlaces)'
  BY CollectorAssumption DEF IInv, TypeOK, Labels, Returns, Actors, Listed,
     WaitingPlaces, YieldPlaces, Trigger, Goto, Back, MemoryUnchanged,
     RequestUnchanged
<1>3. (ReturnPlaces /\ SavedBeforeYield)'
  BY CollectorAssumption DEF IInv, TypeOK, Labels, Returns, Actors,
     YieldPlaces, ReturnPlaces, SavedBeforeYield, UsesHeap, Listed, Trigger,
     Goto, Back, MemoryUnchanged, RequestUnchanged
<1>4. (CollectorPhase /\ OnTheWayBack)'
  BY CollectorAssumption DEF IInv, TypeOK, Labels, Actors, Listed,
     YieldPlaces, CollectorPhase, OnTheWayBack, Trigger, Goto, Back,
     MemoryUnchanged, RequestUnchanged
<1>5. (LockPlaces /\ NoLostRequest)'
  BY CollectorAssumption DEF IInv, TypeOK, Actors, Labels, Returns,
     LockPlaces, NoLostRequest, Listed, Trigger, Goto, Back, MemoryUnchanged,
     RequestUnchanged
<1>6. HeapSafe'
  BY CollectorAssumption DEF IInv, TypeOK, Labels, Returns, Actors,
     YieldPlaces, SavedBeforeYield, UsesHeap, CollectorPhase, OnTheWayBack,
     ReturnPlaces, LockPlaces, HeapSafe, RefersTo, Listed, Trigger, Goto,
     Back, MemoryUnchanged, RequestUnchanged
<1> QED
  BY <1>1, <1>2, <1>3, <1>4, <1>5, <1>6 DEF IInv

LEMMA InsistStep ==
  ASSUME IInv, NEW t \in Threads, Insist(t)
  PROVE  IInv'
<1>1. TypeOK'
  BY CollectorAssumption DEF IInv, TypeOK, Labels, Returns, CollectorLabels,
     Actors, Listed, WaitingPlaces, YieldPlaces, Insist, Goto,
     MemoryUnchanged, RequestUnchanged
<1>2. (Listed /\ WaitingPlaces /\ YieldPlaces)'
  BY CollectorAssumption DEF IInv, TypeOK, Labels, Returns, Actors, Listed,
     WaitingPlaces, YieldPlaces, Insist, Goto, MemoryUnchanged,
     RequestUnchanged
<1>3. (ReturnPlaces /\ SavedBeforeYield)'
  BY CollectorAssumption DEF IInv, TypeOK, Labels, Returns, Actors,
     YieldPlaces, ReturnPlaces, SavedBeforeYield, UsesHeap, Listed, Insist,
     Goto, MemoryUnchanged, RequestUnchanged
<1>4. (CollectorPhase /\ OnTheWayBack)'
  BY CollectorAssumption DEF IInv, TypeOK, Labels, Actors, Listed,
     YieldPlaces, CollectorPhase, OnTheWayBack, Insist, Goto, MemoryUnchanged,
     RequestUnchanged
<1>5. (LockPlaces /\ NoLostRequest)'
  BY CollectorAssumption DEF IInv, TypeOK, Actors, Labels, Returns,
     LockPlaces, NoLostRequest, Listed, Insist, Goto, MemoryUnchanged,
     RequestUnchanged
<1>6. HeapSafe'
  BY CollectorAssumption DEF IInv, TypeOK, Labels, Returns, Actors,
     YieldPlaces, SavedBeforeYield, UsesHeap, CollectorPhase, OnTheWayBack,
     ReturnPlaces, LockPlaces, HeapSafe, RefersTo, Listed, Insist, Goto,
     MemoryUnchanged, RequestUnchanged
<1> QED
  BY <1>1, <1>2, <1>3, <1>4, <1>5, <1>6 DEF IInv

LEMMA AlertStep ==
  ASSUME IInv, NEW t \in Threads, Alert(t)
  PROVE  IInv'
<1>1. TypeOK'
  BY CollectorAssumption DEF IInv, TypeOK, Labels, Returns, CollectorLabels,
     Actors, Listed, WaitingPlaces, YieldPlaces, Alert, Back, MemoryUnchanged,
     RequestUnchanged, Goto
<1>2. (Listed /\ WaitingPlaces /\ YieldPlaces)'
  BY CollectorAssumption DEF IInv, TypeOK, Labels, Returns, Actors, Listed,
     WaitingPlaces, YieldPlaces, Alert, Back, MemoryUnchanged,
     RequestUnchanged, Goto
<1>3. (ReturnPlaces /\ SavedBeforeYield)'
  BY CollectorAssumption DEF IInv, TypeOK, Labels, Returns, Actors,
     YieldPlaces, ReturnPlaces, SavedBeforeYield, UsesHeap, Listed, Alert,
     Back, MemoryUnchanged, RequestUnchanged, Goto
<1>4. (CollectorPhase /\ OnTheWayBack)'
  BY CollectorAssumption DEF IInv, TypeOK, Labels, Actors, Listed,
     YieldPlaces, CollectorPhase, OnTheWayBack, Alert, Back, MemoryUnchanged,
     RequestUnchanged, Goto
<1>5. (LockPlaces /\ NoLostRequest)'
  BY CollectorAssumption DEF IInv, TypeOK, Actors, Labels, Returns,
     LockPlaces, NoLostRequest, Listed, Alert, Back, MemoryUnchanged,
     RequestUnchanged, Goto
<1>6. HeapSafe'
  BY CollectorAssumption DEF IInv, TypeOK, Labels, Returns, Actors,
     YieldPlaces, SavedBeforeYield, UsesHeap, CollectorPhase, OnTheWayBack,
     ReturnPlaces, LockPlaces, HeapSafe, RefersTo, Listed, Alert, Back,
     MemoryUnchanged, RequestUnchanged, Goto
<1> QED
  BY <1>1, <1>2, <1>3, <1>4, <1>5, <1>6 DEF IInv

LEMMA AwaitStep ==
  ASSUME IInv, NEW t \in Threads, Await(t)
  PROVE  IInv'
<1>1. TypeOK'
  BY CollectorAssumption DEF IInv, TypeOK, Labels, Returns, CollectorLabels,
     Actors, Listed, WaitingPlaces, YieldPlaces, Await, Goto, MemoryUnchanged,
     RequestUnchanged
<1>2. (Listed /\ WaitingPlaces /\ YieldPlaces)'
  BY CollectorAssumption DEF IInv, TypeOK, Labels, Returns, Actors, Listed,
     WaitingPlaces, YieldPlaces, Await, Goto, MemoryUnchanged,
     RequestUnchanged
<1>3. (ReturnPlaces /\ SavedBeforeYield)'
  BY CollectorAssumption DEF IInv, TypeOK, Labels, Returns, Actors,
     YieldPlaces, ReturnPlaces, SavedBeforeYield, UsesHeap, Listed, Await,
     Goto, MemoryUnchanged, RequestUnchanged
<1>4. (CollectorPhase /\ OnTheWayBack)'
  BY CollectorAssumption DEF IInv, TypeOK, Labels, Actors, Listed,
     YieldPlaces, CollectorPhase, OnTheWayBack, Await, Goto, MemoryUnchanged,
     RequestUnchanged
<1>5. (LockPlaces /\ NoLostRequest)'
  BY CollectorAssumption DEF IInv, TypeOK, Actors, Labels, Returns,
     LockPlaces, NoLostRequest, Listed, Await, Goto, MemoryUnchanged,
     RequestUnchanged
<1>6. HeapSafe'
  BY CollectorAssumption DEF IInv, TypeOK, Labels, Returns, Actors,
     YieldPlaces, SavedBeforeYield, UsesHeap, CollectorPhase, OnTheWayBack,
     ReturnPlaces, LockPlaces, HeapSafe, RefersTo, Listed, Await, Goto,
     MemoryUnchanged, RequestUnchanged
<1> QED
  BY <1>1, <1>2, <1>3, <1>4, <1>5, <1>6 DEF IInv

LEMMA ResetStep ==
  ASSUME IInv, NEW t \in Threads, Reset(t)
  PROVE  IInv'
<1>1. TypeOK'
  BY CollectorAssumption DEF IInv, TypeOK, Labels, Returns, CollectorLabels,
     Actors, Listed, WaitingPlaces, YieldPlaces, Reset, ResetYield,
     MemoryUnchanged, Goto
<1>2. (Listed /\ WaitingPlaces /\ YieldPlaces)'
  BY CollectorAssumption DEF IInv, TypeOK, Labels, Returns, Actors, Listed,
     WaitingPlaces, YieldPlaces, Reset, ResetYield, MemoryUnchanged, Goto
<1>3. (ReturnPlaces /\ SavedBeforeYield)'
  BY CollectorAssumption DEF IInv, TypeOK, Labels, Returns, Actors,
     YieldPlaces, ReturnPlaces, SavedBeforeYield, UsesHeap, Listed, Reset,
     ResetYield, MemoryUnchanged, Goto
<1>4. (CollectorPhase /\ OnTheWayBack)'
  BY CollectorAssumption DEF IInv, TypeOK, Labels, Actors, Listed,
     YieldPlaces, CollectorPhase, OnTheWayBack, Reset, ResetYield,
     MemoryUnchanged, Goto
<1>5. (LockPlaces /\ NoLostRequest)'
  BY CollectorAssumption DEF IInv, TypeOK, Actors, Labels, Returns,
     LockPlaces, NoLostRequest, Listed, Reset, ResetYield, MemoryUnchanged,
     Goto
<1>6. HeapSafe'
  BY CollectorAssumption DEF IInv, TypeOK, Labels, Returns, Actors,
     YieldPlaces, SavedBeforeYield, UsesHeap, CollectorPhase, OnTheWayBack,
     ReturnPlaces, LockPlaces, HeapSafe, RefersTo, Listed, Reset, ResetYield,
     MemoryUnchanged, Goto
<1> QED
  BY <1>1, <1>2, <1>3, <1>4, <1>5, <1>6 DEF IInv

LEMMA AgainStep ==
  ASSUME IInv, NEW t \in Threads, Again(t)
  PROVE  IInv'
<1>1. TypeOK'
  BY CollectorAssumption DEF IInv, TypeOK, Labels, Returns, CollectorLabels,
     Actors, Listed, WaitingPlaces, YieldPlaces, Again, BeginYield,
     YieldUnchanged, Goto
<1>2. (Listed /\ WaitingPlaces /\ YieldPlaces)'
  BY CollectorAssumption DEF IInv, TypeOK, Labels, Returns, Actors, Listed,
     WaitingPlaces, YieldPlaces, Again, BeginYield, YieldUnchanged, Goto
<1>3. (ReturnPlaces /\ SavedBeforeYield)'
  BY CollectorAssumption DEF IInv, TypeOK, Labels, Returns, Actors,
     YieldPlaces, ReturnPlaces, SavedBeforeYield, UsesHeap, Listed, Again,
     BeginYield, YieldUnchanged, Goto
<1>4. (CollectorPhase /\ OnTheWayBack)'
  BY CollectorAssumption DEF IInv, TypeOK, Labels, Actors, Listed,
     YieldPlaces, CollectorPhase, OnTheWayBack, Again, BeginYield,
     YieldUnchanged, Goto
<1>5. (LockPlaces /\ NoLostRequest)'
  BY CollectorAssumption DEF IInv, TypeOK, Actors, Labels, Returns,
     LockPlaces, NoLostRequest, Listed, Again, BeginYield, YieldUnchanged,
     Goto
<1>6. HeapSafe'
  BY CollectorAssumption DEF IInv, TypeOK, Labels, Returns, Actors,
     YieldPlaces, SavedBeforeYield, UsesHeap, CollectorPhase, OnTheWayBack,
     ReturnPlaces, LockPlaces, HeapSafe, RefersTo, Listed, Again, BeginYield,
     YieldUnchanged, Goto
<1> QED
  BY <1>1, <1>2, <1>3, <1>4, <1>5, <1>6 DEF IInv

LEMMA EnableGCStep ==
  ASSUME IInv, NEW t \in Threads, EnableGC(t)
  PROVE  IInv'
<1>1. TypeOK'
  BY CollectorAssumption DEF IInv, TypeOK, Labels, Returns, CollectorLabels,
     Actors, Listed, WaitingPlaces, YieldPlaces, EnableGC, Running,
     MemoryUnchanged, RequestUnchanged
<1>2. (Listed /\ WaitingPlaces /\ YieldPlaces)'
  BY CollectorAssumption DEF IInv, TypeOK, Labels, Returns, Actors, Listed,
     WaitingPlaces, YieldPlaces, EnableGC, Running, MemoryUnchanged,
     RequestUnchanged
<1>3. (ReturnPlaces /\ SavedBeforeYield)'
  BY CollectorAssumption DEF IInv, TypeOK, Labels, Returns, Actors,
     YieldPlaces, ReturnPlaces, SavedBeforeYield, UsesHeap, Listed, EnableGC,
     Running, MemoryUnchanged, RequestUnchanged
<1>4. (CollectorPhase /\ OnTheWayBack)'
  BY CollectorAssumption DEF IInv, TypeOK, Labels, Actors, Listed,
     YieldPlaces, CollectorPhase, OnTheWayBack, EnableGC, Running,
     MemoryUnchanged, RequestUnchanged
<1>5. (LockPlaces /\ NoLostRequest)'
  BY CollectorAssumption DEF IInv, TypeOK, Actors, Labels, Returns,
     LockPlaces, NoLostRequest, Listed, EnableGC, Running, MemoryUnchanged,
     RequestUnchanged
<1>6. HeapSafe'
  BY CollectorAssumption DEF IInv, TypeOK, Labels, Returns, Actors,
     YieldPlaces, SavedBeforeYield, UsesHeap, CollectorPhase, OnTheWayBack,
     ReturnPlaces, LockPlaces, HeapSafe, RefersTo, Listed, EnableGC, Running,
     MemoryUnchanged, RequestUnchanged
<1> QED
  BY <1>1, <1>2, <1>3, <1>4, <1>5, <1>6 DEF IInv

LEMMA StartThreadStep ==
  ASSUME IInv, NEW t \in Threads, StartThread(t)
  PROVE  IInv'
<1>1. TypeOK'
  BY CollectorAssumption DEF IInv, TypeOK, Labels, Returns, CollectorLabels,
     Actors, Listed, WaitingPlaces, YieldPlaces, StartThread, Running, Goto,
     ThreadUnchanged
<1>2. (Listed /\ WaitingPlaces /\ YieldPlaces)'
  BY CollectorAssumption DEF IInv, TypeOK, Labels, Returns, Actors, Listed,
     WaitingPlaces, YieldPlaces, StartThread, Running, Goto, ThreadUnchanged
<1>3. (ReturnPlaces /\ SavedBeforeYield)'
  BY CollectorAssumption DEF IInv, TypeOK, Labels, Returns, Actors,
     YieldPlaces, ReturnPlaces, SavedBeforeYield, UsesHeap, Listed,
     StartThread, Running, Goto, ThreadUnchanged
<1>4. (CollectorPhase /\ OnTheWayBack)'
  BY CollectorAssumption DEF IInv, TypeOK, Labels, Actors, Listed,
     YieldPlaces, CollectorPhase, OnTheWayBack, StartThread, Running, Goto,
     ThreadUnchanged
<1>5. (LockPlaces /\ NoLostRequest)'
  BY CollectorAssumption DEF IInv, TypeOK, Actors, Labels, Returns,
     LockPlaces, NoLostRequest, Listed, StartThread, Running, Goto,
     ThreadUnchanged
<1>6. HeapSafe'
  BY CollectorAssumption DEF IInv, TypeOK, Labels, Returns, Actors,
     YieldPlaces, SavedBeforeYield, UsesHeap, CollectorPhase, OnTheWayBack,
     ReturnPlaces, LockPlaces, HeapSafe, RefersTo, Listed, StartThread,
     Running, Goto, ThreadUnchanged
<1> QED
  BY <1>1, <1>2, <1>3, <1>4, <1>5, <1>6 DEF IInv

LEMMA ExitThreadStep ==
  ASSUME IInv, NEW t \in Threads, ExitThread(t)
  PROVE  IInv'
<1>1. TypeOK'
  BY CollectorAssumption DEF IInv, TypeOK, Labels, Returns, CollectorLabels,
     Actors, Listed, WaitingPlaces, YieldPlaces, ExitThread, Running, Goto,
     ThreadUnchanged
<1>2. (Listed /\ WaitingPlaces /\ YieldPlaces)'
  BY CollectorAssumption DEF IInv, TypeOK, Labels, Returns, Actors, Listed,
     WaitingPlaces, YieldPlaces, ExitThread, Running, Goto, ThreadUnchanged
<1>3. (ReturnPlaces /\ SavedBeforeYield)'
  BY CollectorAssumption DEF IInv, TypeOK, Labels, Returns, Actors,
     YieldPlaces, ReturnPlaces, SavedBeforeYield, UsesHeap, Listed,
     ExitThread, Running, Goto, ThreadUnchanged
<1>4. (CollectorPhase /\ OnTheWayBack)'
  BY CollectorAssumption DEF IInv, TypeOK, Labels, Actors, Listed,
     YieldPlaces, CollectorPhase, OnTheWayBack, ExitThread, Running, Goto,
     ThreadUnchanged
<1>5. (LockPlaces /\ NoLostRequest)'
  BY CollectorAssumption DEF IInv, TypeOK, Actors, Labels, Returns,
     LockPlaces, NoLostRequest, Listed, ExitThread, Running, Goto,
     ThreadUnchanged
<1>6. HeapSafe'
  BY CollectorAssumption DEF IInv, TypeOK, Labels, Returns, Actors,
     YieldPlaces, SavedBeforeYield, UsesHeap, CollectorPhase, OnTheWayBack,
     ReturnPlaces, LockPlaces, HeapSafe, RefersTo, Listed, ExitThread,
     Running, Goto, ThreadUnchanged
<1> QED
  BY <1>1, <1>2, <1>3, <1>4, <1>5, <1>6 DEF IInv

LEMMA AllocateStep ==
  ASSUME IInv, NEW t \in Threads, Allocate(t)
  PROVE  IInv'
<1>1. TypeOK'
  BY CollectorAssumption DEF IInv, TypeOK, Labels, Returns, CollectorLabels,
     Actors, Listed, WaitingPlaces, YieldPlaces, Allocate, Running,
     UseUnchanged
<1>2. (Listed /\ WaitingPlaces /\ YieldPlaces)'
  BY CollectorAssumption DEF IInv, TypeOK, Labels, Returns, Actors, Listed,
     WaitingPlaces, YieldPlaces, Allocate, Running, UseUnchanged
<1>3. (ReturnPlaces /\ SavedBeforeYield)'
  BY CollectorAssumption DEF IInv, TypeOK, Labels, Returns, Actors,
     YieldPlaces, ReturnPlaces, SavedBeforeYield, UsesHeap, Listed, Allocate,
     Running, UseUnchanged
<1>4. (CollectorPhase /\ OnTheWayBack)'
  BY CollectorAssumption DEF IInv, TypeOK, Labels, Actors, Listed,
     YieldPlaces, CollectorPhase, OnTheWayBack, Allocate, Running,
     UseUnchanged
<1>5. (LockPlaces /\ NoLostRequest)'
  BY CollectorAssumption DEF IInv, TypeOK, Actors, Labels, Returns,
     LockPlaces, NoLostRequest, Listed, Allocate, Running, UseUnchanged
<1>6. HeapSafe'
  BY CollectorAssumption DEF IInv, TypeOK, Labels, Returns, Actors,
     YieldPlaces, SavedBeforeYield, UsesHeap, CollectorPhase, OnTheWayBack,
     ReturnPlaces, LockPlaces, HeapSafe, RefersTo, Listed, Allocate, Running,
     UseUnchanged
<1> QED
  BY <1>1, <1>2, <1>3, <1>4, <1>5, <1>6 DEF IInv

LEMMA LinkStep ==
  ASSUME IInv, NEW t \in Threads, Link(t)
  PROVE  IInv'
<1>1. TypeOK'
  BY CollectorAssumption DEF IInv, TypeOK, Labels, Returns, CollectorLabels,
     Actors, Listed, WaitingPlaces, YieldPlaces, Link, Running, UseUnchanged
<1>2. (Listed /\ WaitingPlaces /\ YieldPlaces)'
  BY CollectorAssumption DEF IInv, TypeOK, Labels, Returns, Actors, Listed,
     WaitingPlaces, YieldPlaces, Link, Running, UseUnchanged
<1>3. (ReturnPlaces /\ SavedBeforeYield)'
  BY CollectorAssumption DEF IInv, TypeOK, Labels, Returns, Actors,
     YieldPlaces, ReturnPlaces, SavedBeforeYield, UsesHeap, Listed, Link,
     Running, UseUnchanged
<1>4. (CollectorPhase /\ OnTheWayBack)'
  BY CollectorAssumption DEF IInv, TypeOK, Labels, Actors, Listed,
     YieldPlaces, CollectorPhase, OnTheWayBack, Link, Running, UseUnchanged
<1>5. (LockPlaces /\ NoLostRequest)'
  BY CollectorAssumption DEF IInv, TypeOK, Actors, Labels, Returns,
     LockPlaces, NoLostRequest, Listed, Link, Running, UseUnchanged
<1>6. HeapSafe'
  BY CollectorAssumption DEF IInv, TypeOK, Labels, Returns, Actors,
     YieldPlaces, SavedBeforeYield, UsesHeap, CollectorPhase, OnTheWayBack,
     ReturnPlaces, LockPlaces, HeapSafe, RefersTo, Listed, Link, Running,
     UseUnchanged
<1> QED
  BY <1>1, <1>2, <1>3, <1>4, <1>5, <1>6 DEF IInv

LEMMA UnlinkStep ==
  ASSUME IInv, NEW t \in Threads, Unlink(t)
  PROVE  IInv'
<1>1. TypeOK'
  BY CollectorAssumption DEF IInv, TypeOK, Labels, Returns, CollectorLabels,
     Actors, Listed, WaitingPlaces, YieldPlaces, Unlink, Running, UseUnchanged
<1>2. (Listed /\ WaitingPlaces /\ YieldPlaces)'
  BY CollectorAssumption DEF IInv, TypeOK, Labels, Returns, Actors, Listed,
     WaitingPlaces, YieldPlaces, Unlink, Running, UseUnchanged
<1>3. (ReturnPlaces /\ SavedBeforeYield)'
  BY CollectorAssumption DEF IInv, TypeOK, Labels, Returns, Actors,
     YieldPlaces, ReturnPlaces, SavedBeforeYield, UsesHeap, Listed, Unlink,
     Running, UseUnchanged
<1>4. (CollectorPhase /\ OnTheWayBack)'
  BY CollectorAssumption DEF IInv, TypeOK, Labels, Actors, Listed,
     YieldPlaces, CollectorPhase, OnTheWayBack, Unlink, Running, UseUnchanged
<1>5. (LockPlaces /\ NoLostRequest)'
  BY CollectorAssumption DEF IInv, TypeOK, Actors, Labels, Returns,
     LockPlaces, NoLostRequest, Listed, Unlink, Running, UseUnchanged
<1>6. HeapSafe'
  BY CollectorAssumption DEF IInv, TypeOK, Labels, Returns, Actors,
     YieldPlaces, SavedBeforeYield, UsesHeap, CollectorPhase, OnTheWayBack,
     ReturnPlaces, LockPlaces, HeapSafe, RefersTo, Listed, Unlink, Running,
     UseUnchanged
<1> QED
  BY <1>1, <1>2, <1>3, <1>4, <1>5, <1>6 DEF IInv

LEMMA FetchStep ==
  ASSUME IInv, NEW t \in Threads, Fetch(t)
  PROVE  IInv'
<1>1. TypeOK'
  BY CollectorAssumption DEF IInv, TypeOK, Labels, Returns, CollectorLabels,
     Actors, Listed, WaitingPlaces, YieldPlaces, Fetch, Running, UseUnchanged
<1>2. (Listed /\ WaitingPlaces /\ YieldPlaces)'
  BY CollectorAssumption DEF IInv, TypeOK, Labels, Returns, Actors, Listed,
     WaitingPlaces, YieldPlaces, Fetch, Running, UseUnchanged
<1>3. (ReturnPlaces /\ SavedBeforeYield)'
  BY CollectorAssumption DEF IInv, TypeOK, Labels, Returns, Actors,
     YieldPlaces, ReturnPlaces, SavedBeforeYield, UsesHeap, Listed, Fetch,
     Running, UseUnchanged
<1>4. (CollectorPhase /\ OnTheWayBack)'
  BY CollectorAssumption DEF IInv, TypeOK, Labels, Actors, Listed,
     YieldPlaces, CollectorPhase, OnTheWayBack, Fetch, Running, UseUnchanged
<1>5. (LockPlaces /\ NoLostRequest)'
  BY CollectorAssumption DEF IInv, TypeOK, Actors, Labels, Returns,
     LockPlaces, NoLostRequest, Listed, Fetch, Running, UseUnchanged
<1>6. HeapSafe'
  BY CollectorAssumption DEF IInv, TypeOK, Labels, Returns, Actors,
     YieldPlaces, SavedBeforeYield, UsesHeap, CollectorPhase, OnTheWayBack,
     ReturnPlaces, LockPlaces, HeapSafe, RefersTo, Listed, Fetch, Running,
     UseUnchanged
<1> QED
  BY <1>1, <1>2, <1>3, <1>4, <1>5, <1>6 DEF IInv

LEMMA HoldStep ==
  ASSUME IInv, NEW t \in Threads, Hold(t)
  PROVE  IInv'
<1>1. TypeOK'
  BY CollectorAssumption DEF IInv, TypeOK, Labels, Returns, CollectorLabels,
     Actors, Listed, WaitingPlaces, YieldPlaces, Hold, Running, UseUnchanged
<1>2. (Listed /\ WaitingPlaces /\ YieldPlaces)'
  BY CollectorAssumption DEF IInv, TypeOK, Labels, Returns, Actors, Listed,
     WaitingPlaces, YieldPlaces, Hold, Running, UseUnchanged
<1>3. (ReturnPlaces /\ SavedBeforeYield)'
  BY CollectorAssumption DEF IInv, TypeOK, Labels, Returns, Actors,
     YieldPlaces, ReturnPlaces, SavedBeforeYield, UsesHeap, Listed, Hold,
     Running, UseUnchanged
<1>4. (CollectorPhase /\ OnTheWayBack)'
  BY CollectorAssumption DEF IInv, TypeOK, Labels, Actors, Listed,
     YieldPlaces, CollectorPhase, OnTheWayBack, Hold, Running, UseUnchanged
<1>5. (LockPlaces /\ NoLostRequest)'
  BY CollectorAssumption DEF IInv, TypeOK, Actors, Labels, Returns,
     LockPlaces, NoLostRequest, Listed, Hold, Running, UseUnchanged
<1>6. HeapSafe'
  BY CollectorAssumption DEF IInv, TypeOK, Labels, Returns, Actors,
     YieldPlaces, SavedBeforeYield, UsesHeap, CollectorPhase, OnTheWayBack,
     ReturnPlaces, LockPlaces, HeapSafe, RefersTo, Listed, Hold, Running,
     UseUnchanged
<1> QED
  BY <1>1, <1>2, <1>3, <1>4, <1>5, <1>6 DEF IInv

LEMMA TakeBlockStep ==
  ASSUME IInv, NEW f \in Foreign, TakeBlock(f)
  PROVE  IInv'
<1>1. TypeOK'
  BY CollectorAssumption DEF IInv, TypeOK, Labels, Returns, CollectorLabels,
     Actors, Listed, WaitingPlaces, YieldPlaces, TakeBlock, Goto, UseUnchanged
<1>2. (Listed /\ WaitingPlaces /\ YieldPlaces)'
  BY CollectorAssumption DEF IInv, TypeOK, Labels, Returns, Actors, Listed,
     WaitingPlaces, YieldPlaces, TakeBlock, Goto, UseUnchanged
<1>3. (ReturnPlaces /\ SavedBeforeYield)'
  BY CollectorAssumption DEF IInv, TypeOK, Labels, Returns, Actors,
     YieldPlaces, ReturnPlaces, SavedBeforeYield, UsesHeap, Listed, TakeBlock,
     Goto, UseUnchanged
<1>4. (CollectorPhase /\ OnTheWayBack)'
  BY CollectorAssumption DEF IInv, TypeOK, Labels, Actors, Listed,
     YieldPlaces, CollectorPhase, OnTheWayBack, TakeBlock, Goto, UseUnchanged
<1>5. (LockPlaces /\ NoLostRequest)'
  BY CollectorAssumption DEF IInv, TypeOK, Actors, Labels, Returns,
     LockPlaces, NoLostRequest, Listed, TakeBlock, Goto, UseUnchanged
<1>6. HeapSafe'
  BY CollectorAssumption DEF IInv, TypeOK, Labels, Returns, Actors,
     YieldPlaces, SavedBeforeYield, UsesHeap, CollectorPhase, OnTheWayBack,
     ReturnPlaces, LockPlaces, HeapSafe, RefersTo, Listed, TakeBlock, Goto,
     UseUnchanged
<1> QED
  BY <1>1, <1>2, <1>3, <1>4, <1>5, <1>6 DEF IInv

LEMMA CreateHeldStep ==
  ASSUME IInv, NEW f \in Foreign, CreateHeld(f)
  PROVE  IInv'
<1>1. TypeOK'
  BY CollectorAssumption DEF IInv, TypeOK, Labels, Returns, CollectorLabels,
     Actors, Listed, WaitingPlaces, YieldPlaces, CreateHeld, Goto,
     UseUnchanged
<1>2. (Listed /\ WaitingPlaces /\ YieldPlaces)'
  BY CollectorAssumption DEF IInv, TypeOK, Labels, Returns, Actors, Listed,
     WaitingPlaces, YieldPlaces, CreateHeld, Goto, UseUnchanged
<1>3. (ReturnPlaces /\ SavedBeforeYield)'
  BY CollectorAssumption DEF IInv, TypeOK, Labels, Returns, Actors,
     YieldPlaces, ReturnPlaces, SavedBeforeYield, UsesHeap, Listed,
     CreateHeld, Goto, UseUnchanged
<1>4. (CollectorPhase /\ OnTheWayBack)'
  BY CollectorAssumption DEF IInv, TypeOK, Labels, Actors, Listed,
     YieldPlaces, CollectorPhase, OnTheWayBack, CreateHeld, Goto, UseUnchanged
<1>5. (LockPlaces /\ NoLostRequest)'
  BY CollectorAssumption DEF IInv, TypeOK, Actors, Labels, Returns,
     LockPlaces, NoLostRequest, Listed, CreateHeld, Goto, UseUnchanged
<1>6. HeapSafe'
  BY CollectorAssumption DEF IInv, TypeOK, Labels, Returns, Actors,
     YieldPlaces, SavedBeforeYield, UsesHeap, CollectorPhase, OnTheWayBack,
     ReturnPlaces, LockPlaces, HeapSafe, RefersTo, Listed, CreateHeld, Goto,
     UseUnchanged
<1> QED
  BY <1>1, <1>2, <1>3, <1>4, <1>5, <1>6 DEF IInv

LEMMA LinkHeldStep ==
  ASSUME IInv, NEW f \in Foreign, LinkHeld(f)
  PROVE  IInv'
<1>1. TypeOK'
  BY CollectorAssumption DEF IInv, TypeOK, Labels, Returns, CollectorLabels,
     Actors, Listed, WaitingPlaces, YieldPlaces, LinkHeld, Goto, UseUnchanged
<1>2. (Listed /\ WaitingPlaces /\ YieldPlaces)'
  BY CollectorAssumption DEF IInv, TypeOK, Labels, Returns, Actors, Listed,
     WaitingPlaces, YieldPlaces, LinkHeld, Goto, UseUnchanged
<1>3. (ReturnPlaces /\ SavedBeforeYield)'
  BY CollectorAssumption DEF IInv, TypeOK, Labels, Returns, Actors,
     YieldPlaces, ReturnPlaces, SavedBeforeYield, UsesHeap, Listed, LinkHeld,
     Goto, UseUnchanged
<1>4. (CollectorPhase /\ OnTheWayBack)'
  BY CollectorAssumption DEF IInv, TypeOK, Labels, Actors, Listed,
     YieldPlaces, CollectorPhase, OnTheWayBack, LinkHeld, Goto, UseUnchanged
<1>5. (LockPlaces /\ NoLostRequest)'
  BY CollectorAssumption DEF IInv, TypeOK, Actors, Labels, Returns,
     LockPlaces, NoLostRequest, Listed, LinkHeld, Goto, UseUnchanged
<1>6. HeapSafe'
  BY CollectorAssumption DEF IInv, TypeOK, Labels, Returns, Actors,
     YieldPlaces, SavedBeforeYield, UsesHeap, CollectorPhase, OnTheWayBack,
     ReturnPlaces, LockPlaces, HeapSafe, RefersTo, Listed, LinkHeld, Goto,
     UseUnchanged
<1> QED
  BY <1>1, <1>2, <1>3, <1>4, <1>5, <1>6 DEF IInv

LEMMA ReleaseLockStep ==
  ASSUME IInv, NEW a \in Actors, ReleaseLock(a)
  PROVE  IInv'
<1>1. TypeOK'
  BY CollectorAssumption DEF IInv, TypeOK, Labels, Returns, CollectorLabels,
     Actors, Listed, WaitingPlaces, YieldPlaces, ReleaseLock, Goto,
     MemoryUnchanged, UseUnchanged
<1>2. (Listed /\ WaitingPlaces /\ YieldPlaces)'
  BY CollectorAssumption DEF IInv, TypeOK, Labels, Returns, Actors, Listed,
     WaitingPlaces, YieldPlaces, ReleaseLock, Goto, MemoryUnchanged,
     UseUnchanged
<1>3. (ReturnPlaces /\ SavedBeforeYield)'
  BY CollectorAssumption DEF IInv, TypeOK, Labels, Returns, Actors,
     YieldPlaces, ReturnPlaces, SavedBeforeYield, UsesHeap, Listed,
     ReleaseLock, Goto, MemoryUnchanged, UseUnchanged
<1>4. (CollectorPhase /\ OnTheWayBack)'
  BY CollectorAssumption DEF IInv, TypeOK, Labels, Actors, Listed,
     YieldPlaces, CollectorPhase, OnTheWayBack, ReleaseLock, Goto,
     MemoryUnchanged, UseUnchanged
<1>5. (LockPlaces /\ NoLostRequest)'
  BY CollectorAssumption DEF IInv, TypeOK, Actors, Labels, Returns,
     LockPlaces, NoLostRequest, Listed, ReleaseLock, Goto, MemoryUnchanged,
     UseUnchanged
<1>6. HeapSafe'
  BY CollectorAssumption DEF IInv, TypeOK, Labels, Returns, Actors,
     YieldPlaces, SavedBeforeYield, UsesHeap, CollectorPhase, OnTheWayBack,
     ReturnPlaces, LockPlaces, HeapSafe, RefersTo, Listed, ReleaseLock, Goto,
     MemoryUnchanged, UseUnchanged
<1> QED
  BY <1>1, <1>2, <1>3, <1>4, <1>5, <1>6 DEF IInv

LEMMA StampStep ==
  ASSUME IInv, NEW a \in Actors, Stamp(a)
  PROVE  IInv'
<1>1. TypeOK'
  BY CollectorAssumption DEF IInv, TypeOK, Labels, Returns, CollectorLabels,
     Actors, Listed, WaitingPlaces, YieldPlaces, Stamp, Goto, UseUnchanged
<1>2. (Listed /\ WaitingPlaces /\ YieldPlaces)'
  BY CollectorAssumption DEF IInv, TypeOK, Labels, Returns, Actors, Listed,
     WaitingPlaces, YieldPlaces, Stamp, Goto, UseUnchanged
<1>3. (ReturnPlaces /\ SavedBeforeYield)'
  BY CollectorAssumption DEF IInv, TypeOK, Labels, Returns, Actors,
     YieldPlaces, ReturnPlaces, SavedBeforeYield, UsesHeap, Listed, Stamp,
     Goto, UseUnchanged
<1>4. (CollectorPhase /\ OnTheWayBack)'
  BY CollectorAssumption DEF IInv, TypeOK, Labels, Actors, Listed,
     YieldPlaces, CollectorPhase, OnTheWayBack, Stamp, Goto, UseUnchanged
<1>5. (LockPlaces /\ NoLostRequest)'
  BY CollectorAssumption DEF IInv, TypeOK, Actors, Labels, Returns,
     LockPlaces, NoLostRequest, Listed, Stamp, Goto, UseUnchanged
<1>6. HeapSafe'
  BY CollectorAssumption DEF IInv, TypeOK, Labels, Returns, Actors,
     YieldPlaces, SavedBeforeYield, UsesHeap, CollectorPhase, OnTheWayBack,
     ReturnPlaces, LockPlaces, HeapSafe, RefersTo, Listed, Stamp, Goto,
     UseUnchanged
<1> QED
  BY <1>1, <1>2, <1>3, <1>4, <1>5, <1>6 DEF IInv

LEMMA LetGoStep ==
  ASSUME IInv, NEW a \in Actors, LetGo(a)
  PROVE  IInv'
<1>1. TypeOK'
  BY CollectorAssumption DEF IInv, TypeOK, Labels, Returns, CollectorLabels,
     Actors, Listed, WaitingPlaces, YieldPlaces, LetGo, Goto, UseUnchanged
<1>2. (Listed /\ WaitingPlaces /\ YieldPlaces)'
  BY CollectorAssumption DEF IInv, TypeOK, Labels, Returns, Actors, Listed,
     WaitingPlaces, YieldPlaces, LetGo, Goto, UseUnchanged
<1>3. (ReturnPlaces /\ SavedBeforeYield)'
  BY CollectorAssumption DEF IInv, TypeOK, Labels, Returns, Actors,
     YieldPlaces, ReturnPlaces, SavedBeforeYield, UsesHeap, Listed, LetGo,
     Goto, UseUnchanged
<1>4. (CollectorPhase /\ OnTheWayBack)'
  BY CollectorAssumption DEF IInv, TypeOK, Labels, Actors, Listed,
     YieldPlaces, CollectorPhase, OnTheWayBack, LetGo, Goto, UseUnchanged
<1>5. (LockPlaces /\ NoLostRequest)'
  BY CollectorAssumption DEF IInv, TypeOK, Actors, Labels, Returns,
     LockPlaces, NoLostRequest, Listed, LetGo, Goto, UseUnchanged
<1>6. HeapSafe'
  BY CollectorAssumption DEF IInv, TypeOK, Labels, Returns, Actors,
     YieldPlaces, SavedBeforeYield, UsesHeap, CollectorPhase, OnTheWayBack,
     ReturnPlaces, LockPlaces, HeapSafe, RefersTo, Listed, LetGo, Goto,
     UseUnchanged
<1> QED
  BY <1>1, <1>2, <1>3, <1>4, <1>5, <1>6 DEF IInv

LEMMA TopStep ==
  ASSUME IInv, Top
  PROVE  IInv'
<1>1. TypeOK'
  BY CollectorAssumption DEF IInv, TypeOK, Labels, Returns, CollectorLabels,
     Actors, Listed, WaitingPlaces, YieldPlaces, Top, Step, SyncUnchanged,
     HeapUnchanged, CollectorUnchanged, OthersUnchanged
<1>2. (Listed /\ WaitingPlaces /\ YieldPlaces)'
  BY CollectorAssumption DEF IInv, TypeOK, Labels, Returns, Actors, Listed,
     WaitingPlaces, YieldPlaces, Top, Step, SyncUnchanged, HeapUnchanged,
     CollectorUnchanged, OthersUnchanged
<1>3. (ReturnPlaces /\ SavedBeforeYield)'
  BY CollectorAssumption DEF IInv, TypeOK, Labels, Returns, Actors,
     YieldPlaces, ReturnPlaces, SavedBeforeYield, UsesHeap, Listed, Top, Step,
     SyncUnchanged, HeapUnchanged, CollectorUnchanged, OthersUnchanged
<1>4. (CollectorPhase /\ OnTheWayBack)'
  BY CollectorAssumption DEF IInv, TypeOK, Labels, Actors, Listed,
     YieldPlaces, CollectorPhase, OnTheWayBack, Top, Step, SyncUnchanged,
     HeapUnchanged, CollectorUnchanged, OthersUnchanged
<1>5. (LockPlaces /\ NoLostRequest)'
  BY CollectorAssumption DEF IInv, TypeOK, Actors, Labels, Returns,
     LockPlaces, NoLostRequest, Listed, Top, Step, SyncUnchanged,
     HeapUnchanged, CollectorUnchanged, OthersUnchanged
<1>6. HeapSafe'
  BY CollectorAssumption DEF IInv, TypeOK, Labels, Returns, Actors,
     YieldPlaces, SavedBeforeYield, UsesHeap, CollectorPhase, OnTheWayBack,
     ReturnPlaces, LockPlaces, HeapSafe, RefersTo, Listed, Top, Step,
     SyncUnchanged, HeapUnchanged, CollectorUnchanged, OthersUnchanged
<1> QED
  BY <1>1, <1>2, <1>3, <1>4, <1>5, <1>6 DEF IInv

LEMMA IdleStep ==
  ASSUME IInv, Idle
  PROVE  IInv'
<1>1. TypeOK'
  BY CollectorAssumption DEF IInv, TypeOK, Labels, Returns, CollectorLabels,
     Actors, Listed, WaitingPlaces, YieldPlaces, Idle, Step, SyncUnchanged,
     HeapUnchanged, CollectorUnchanged, OthersUnchanged
<1>2. (Listed /\ WaitingPlaces /\ YieldPlaces)'
  BY CollectorAssumption DEF IInv, TypeOK, Labels, Returns, Actors, Listed,
     WaitingPlaces, YieldPlaces, Idle, Step, SyncUnchanged, HeapUnchanged,
     CollectorUnchanged, OthersUnchanged
<1>3. (ReturnPlaces /\ SavedBeforeYield)'
  BY CollectorAssumption DEF IInv, TypeOK, Labels, Returns, Actors,
     YieldPlaces, ReturnPlaces, SavedBeforeYield, UsesHeap, Listed, Idle,
     Step, SyncUnchanged, HeapUnchanged, CollectorUnchanged, OthersUnchanged
<1>4. (CollectorPhase /\ OnTheWayBack)'
  BY CollectorAssumption DEF IInv, TypeOK, Labels, Actors, Listed,
     YieldPlaces, CollectorPhase, OnTheWayBack, Idle, Step, SyncUnchanged,
     HeapUnchanged, CollectorUnchanged, OthersUnchanged
<1>5. (LockPlaces /\ NoLostRequest)'
  BY CollectorAssumption DEF IInv, TypeOK, Actors, Labels, Returns,
     LockPlaces, NoLostRequest, Listed, Idle, Step, SyncUnchanged,
     HeapUnchanged, CollectorUnchanged, OthersUnchanged
<1>6. HeapSafe'
  BY CollectorAssumption DEF IInv, TypeOK, Labels, Returns, Actors,
     YieldPlaces, SavedBeforeYield, UsesHeap, CollectorPhase, OnTheWayBack,
     ReturnPlaces, LockPlaces, HeapSafe, RefersTo, Listed, Idle, Step,
     SyncUnchanged, HeapUnchanged, CollectorUnchanged, OthersUnchanged
<1> QED
  BY <1>1, <1>2, <1>3, <1>4, <1>5, <1>6 DEF IInv

LEMMA ChooseStep ==
  ASSUME IInv, Choose
  PROVE  IInv'
<1>1. TypeOK'
  <2>1. few' \in BOOLEAN
    <3>1. CASE enabled
      <4>1. Cardinality(threads) \in Nat
        BY CollectorAssumption, FS_Subset, FS_CardinalityType DEF IInv, TypeOK
      <4> QED
        BY <3>1, <4>1, CollectorAssumption DEF Choose
    <3>2. CASE ~enabled
      BY <3>2 DEF IInv, TypeOK, Choose
    <3> QED
      BY <3>1, <3>2
  <2>2. spc' \in CollectorLabels
    BY DEF CollectorLabels, Choose, Step
  <2> QED
    BY <2>1, <2>2 DEF IInv, TypeOK, Choose, CollectorUnchanged, OthersUnchanged,
       SyncUnchanged, HeapUnchanged
<1>2. (Listed /\ WaitingPlaces /\ YieldPlaces)'
  BY CollectorAssumption DEF IInv, TypeOK, Labels, Returns, Actors, Listed,
     WaitingPlaces, YieldPlaces, Choose, Step, SyncUnchanged, HeapUnchanged,
     CollectorUnchanged, OthersUnchanged
<1>3. (ReturnPlaces /\ SavedBeforeYield)'
  BY CollectorAssumption DEF IInv, TypeOK, Labels, Returns, Actors,
     YieldPlaces, ReturnPlaces, SavedBeforeYield, UsesHeap, Listed, Choose,
     Step, SyncUnchanged, HeapUnchanged, CollectorUnchanged, OthersUnchanged
<1>4. (CollectorPhase /\ OnTheWayBack)'
  BY CollectorAssumption DEF IInv, TypeOK, Labels, Actors, Listed,
     YieldPlaces, CollectorPhase, OnTheWayBack, Choose, Step, SyncUnchanged,
     HeapUnchanged, CollectorUnchanged, OthersUnchanged
<1>5. (LockPlaces /\ NoLostRequest)'
  BY CollectorAssumption DEF IInv, TypeOK, Actors, Labels, Returns,
     LockPlaces, NoLostRequest, Listed, Choose, Step, SyncUnchanged,
     HeapUnchanged, CollectorUnchanged, OthersUnchanged
<1>6. HeapSafe'
  BY CollectorAssumption DEF IInv, TypeOK, Labels, Returns, Actors,
     YieldPlaces, SavedBeforeYield, UsesHeap, CollectorPhase, OnTheWayBack,
     ReturnPlaces, LockPlaces, HeapSafe, RefersTo, Listed, Choose, Step,
     SyncUnchanged, HeapUnchanged, CollectorUnchanged, OthersUnchanged
<1> QED
  BY <1>1, <1>2, <1>3, <1>4, <1>5, <1>6 DEF IInv

LEMMA PauseStep ==
  ASSUME IInv, Pause
  PROVE  IInv'
<1>1. TypeOK'
  BY CollectorAssumption DEF IInv, TypeOK, Labels, Returns, CollectorLabels,
     Actors, Listed, WaitingPlaces, YieldPlaces, Pause, Step, SyncUnchanged,
     HeapUnchanged, CollectorUnchanged, OthersUnchanged
<1>2. (Listed /\ WaitingPlaces /\ YieldPlaces)'
  BY CollectorAssumption DEF IInv, TypeOK, Labels, Returns, Actors, Listed,
     WaitingPlaces, YieldPlaces, Pause, Step, SyncUnchanged, HeapUnchanged,
     CollectorUnchanged, OthersUnchanged
<1>3. (ReturnPlaces /\ SavedBeforeYield)'
  BY CollectorAssumption DEF IInv, TypeOK, Labels, Returns, Actors,
     YieldPlaces, ReturnPlaces, SavedBeforeYield, UsesHeap, Listed, Pause,
     Step, SyncUnchanged, HeapUnchanged, CollectorUnchanged, OthersUnchanged
<1>4. (CollectorPhase /\ OnTheWayBack)'
  BY CollectorAssumption DEF IInv, TypeOK, Labels, Actors, Listed,
     YieldPlaces, CollectorPhase, OnTheWayBack, Pause, Step, SyncUnchanged,
     HeapUnchanged, CollectorUnchanged, OthersUnchanged
<1>5. (LockPlaces /\ NoLostRequest)'
  BY CollectorAssumption DEF IInv, TypeOK, Actors, Labels, Returns,
     LockPlaces, NoLostRequest, Listed, Pause, Step, SyncUnchanged,
     HeapUnchanged, CollectorUnchanged, OthersUnchanged
<1>6. HeapSafe'
  BY CollectorAssumption DEF IInv, TypeOK, Labels, Returns, Actors,
     YieldPlaces, SavedBeforeYield, UsesHeap, CollectorPhase, OnTheWayBack,
     ReturnPlaces, LockPlaces, HeapSafe, RefersTo, Listed, Pause, Step,
     SyncUnchanged, HeapUnchanged, CollectorUnchanged, OthersUnchanged
<1> QED
  BY <1>1, <1>2, <1>3, <1>4, <1>5, <1>6 DEF IInv

LEMMA PollStep ==
  ASSUME IInv, Poll
  PROVE  IInv'
<1>1. TypeOK'
  BY CollectorAssumption DEF IInv, TypeOK, Labels, Returns, CollectorLabels,
     Actors, Listed, WaitingPlaces, YieldPlaces, Poll, Step, SyncUnchanged,
     HeapUnchanged, CollectorUnchanged, OthersUnchanged
<1>2. (Listed /\ WaitingPlaces /\ YieldPlaces)'
  BY CollectorAssumption DEF IInv, TypeOK, Labels, Returns, Actors, Listed,
     WaitingPlaces, YieldPlaces, Poll, Step, SyncUnchanged, HeapUnchanged,
     CollectorUnchanged, OthersUnchanged
<1>3. (ReturnPlaces /\ SavedBeforeYield)'
  BY CollectorAssumption DEF IInv, TypeOK, Labels, Returns, Actors,
     YieldPlaces, ReturnPlaces, SavedBeforeYield, UsesHeap, Listed, Poll,
     Step, SyncUnchanged, HeapUnchanged, CollectorUnchanged, OthersUnchanged
<1>4. (CollectorPhase /\ OnTheWayBack)'
  BY CollectorAssumption DEF IInv, TypeOK, Labels, Actors, Listed,
     YieldPlaces, CollectorPhase, OnTheWayBack, Poll, Step, SyncUnchanged,
     HeapUnchanged, CollectorUnchanged, OthersUnchanged
<1>5. (LockPlaces /\ NoLostRequest)'
  BY CollectorAssumption DEF IInv, TypeOK, Actors, Labels, Returns,
     LockPlaces, NoLostRequest, Listed, Poll, Step, SyncUnchanged,
     HeapUnchanged, CollectorUnchanged, OthersUnchanged
<1>6. HeapSafe'
  BY CollectorAssumption DEF IInv, TypeOK, Labels, Returns, Actors,
     YieldPlaces, SavedBeforeYield, UsesHeap, CollectorPhase, OnTheWayBack,
     ReturnPlaces, LockPlaces, HeapSafe, RefersTo, Listed, Poll, Step,
     SyncUnchanged, HeapUnchanged, CollectorUnchanged, OthersUnchanged
<1> QED
  BY <1>1, <1>2, <1>3, <1>4, <1>5, <1>6 DEF IInv

LEMMA NapStep ==
  ASSUME IInv, Nap
  PROVE  IInv'
<1>1. TypeOK'
  BY CollectorAssumption DEF IInv, TypeOK, Labels, Returns, CollectorLabels,
     Actors, Listed, WaitingPlaces, YieldPlaces, Nap, Step, SyncUnchanged,
     HeapUnchanged, CollectorUnchanged, OthersUnchanged
<1>2. (Listed /\ WaitingPlaces /\ YieldPlaces)'
  BY CollectorAssumption DEF IInv, TypeOK, Labels, Returns, Actors, Listed,
     WaitingPlaces, YieldPlaces, Nap, Step, SyncUnchanged, HeapUnchanged,
     CollectorUnchanged, OthersUnchanged
<1>3. (ReturnPlaces /\ SavedBeforeYield)'
  BY CollectorAssumption DEF IInv, TypeOK, Labels, Returns, Actors,
     YieldPlaces, ReturnPlaces, SavedBeforeYield, UsesHeap, Listed, Nap, Step,
     SyncUnchanged, HeapUnchanged, CollectorUnchanged, OthersUnchanged
<1>4. (CollectorPhase /\ OnTheWayBack)'
  BY CollectorAssumption DEF IInv, TypeOK, Labels, Actors, Listed,
     YieldPlaces, CollectorPhase, OnTheWayBack, Nap, Step, SyncUnchanged,
     HeapUnchanged, CollectorUnchanged, OthersUnchanged
<1>5. (LockPlaces /\ NoLostRequest)'
  BY CollectorAssumption DEF IInv, TypeOK, Actors, Labels, Returns,
     LockPlaces, NoLostRequest, Listed, Nap, Step, SyncUnchanged,
     HeapUnchanged, CollectorUnchanged, OthersUnchanged
<1>6. HeapSafe'
  BY CollectorAssumption DEF IInv, TypeOK, Labels, Returns, Actors,
     YieldPlaces, SavedBeforeYield, UsesHeap, CollectorPhase, OnTheWayBack,
     ReturnPlaces, LockPlaces, HeapSafe, RefersTo, Listed, Nap, Step,
     SyncUnchanged, HeapUnchanged, CollectorUnchanged, OthersUnchanged
<1> QED
  BY <1>1, <1>2, <1>3, <1>4, <1>5, <1>6 DEF IInv

LEMMA TimeUpStep ==
  ASSUME IInv, TimeUp
  PROVE  IInv'
<1>1. TypeOK'
  BY CollectorAssumption DEF IInv, TypeOK, Labels, Returns, CollectorLabels,
     Actors, Listed, WaitingPlaces, YieldPlaces, TimeUp, SyncUnchanged,
     HeapUnchanged, CollectorUnchanged, OthersUnchanged
<1>2. (Listed /\ WaitingPlaces /\ YieldPlaces)'
  BY CollectorAssumption DEF IInv, TypeOK, Labels, Returns, Actors, Listed,
     WaitingPlaces, YieldPlaces, TimeUp, SyncUnchanged, HeapUnchanged,
     CollectorUnchanged, OthersUnchanged
<1>3. (ReturnPlaces /\ SavedBeforeYield)'
  BY CollectorAssumption DEF IInv, TypeOK, Labels, Returns, Actors,
     YieldPlaces, ReturnPlaces, SavedBeforeYield, UsesHeap, Listed, TimeUp,
     SyncUnchanged, HeapUnchanged, CollectorUnchanged, OthersUnchanged
<1>4. (CollectorPhase /\ OnTheWayBack)'
  BY CollectorAssumption DEF IInv, TypeOK, Labels, Actors, Listed,
     YieldPlaces, CollectorPhase, OnTheWayBack, TimeUp, SyncUnchanged,
     HeapUnchanged, CollectorUnchanged, OthersUnchanged
<1>5. (LockPlaces /\ NoLostRequest)'
  BY CollectorAssumption DEF IInv, TypeOK, Actors, Labels, Returns,
     LockPlaces, NoLostRequest, Listed, TimeUp, SyncUnchanged, HeapUnchanged,
     CollectorUnchanged, OthersUnchanged
<1>6. HeapSafe'
  BY CollectorAssumption DEF IInv, TypeOK, Labels, Returns, Actors,
     YieldPlaces, SavedBeforeYield, UsesHeap, CollectorPhase, OnTheWayBack,
     ReturnPlaces, LockPlaces, HeapSafe, RefersTo, Listed, TimeUp,
     SyncUnchanged, HeapUnchanged, CollectorUnchanged, OthersUnchanged
<1> QED
  BY <1>1, <1>2, <1>3, <1>4, <1>5, <1>6 DEF IInv

LEMMA AbandonStep ==
  ASSUME IInv, Abandon
  PROVE  IInv'
<1>1. TypeOK'
  BY CollectorAssumption DEF IInv, TypeOK, Labels, Returns, CollectorLabels,
     Actors, Listed, WaitingPlaces, YieldPlaces, Abandon, Step, SyncUnchanged,
     HeapUnchanged, CollectorUnchanged, OthersUnchanged
<1>2. (Listed /\ WaitingPlaces /\ YieldPlaces)'
  BY CollectorAssumption DEF IInv, TypeOK, Labels, Returns, Actors, Listed,
     WaitingPlaces, YieldPlaces, Abandon, Step, SyncUnchanged, HeapUnchanged,
     CollectorUnchanged, OthersUnchanged
<1>3. (ReturnPlaces /\ SavedBeforeYield)'
  BY CollectorAssumption DEF IInv, TypeOK, Labels, Returns, Actors,
     YieldPlaces, ReturnPlaces, SavedBeforeYield, UsesHeap, Listed, Abandon,
     Step, SyncUnchanged, HeapUnchanged, CollectorUnchanged, OthersUnchanged
<1>4. (CollectorPhase /\ OnTheWayBack)'
  BY CollectorAssumption DEF IInv, TypeOK, Labels, Actors, Listed,
     YieldPlaces, CollectorPhase, OnTheWayBack, Abandon, Step, SyncUnchanged,
     HeapUnchanged, CollectorUnchanged, OthersUnchanged
<1>5. (LockPlaces /\ NoLostRequest)'
  BY CollectorAssumption DEF IInv, TypeOK, Actors, Labels, Returns,
     LockPlaces, NoLostRequest, Listed, Abandon, Step, SyncUnchanged,
     HeapUnchanged, CollectorUnchanged, OthersUnchanged
<1>6. HeapSafe'
  BY CollectorAssumption DEF IInv, TypeOK, Labels, Returns, Actors,
     YieldPlaces, SavedBeforeYield, UsesHeap, CollectorPhase, OnTheWayBack,
     ReturnPlaces, LockPlaces, HeapSafe, RefersTo, Listed, Abandon, Step,
     SyncUnchanged, HeapUnchanged, CollectorUnchanged, OthersUnchanged
<1> QED
  BY <1>1, <1>2, <1>3, <1>4, <1>5, <1>6 DEF IInv

LEMMA MarkLockStep ==
  ASSUME IInv, MarkLock
  PROVE  IInv'
<1>1. TypeOK'
  BY CollectorAssumption DEF IInv, TypeOK, Labels, Returns, CollectorLabels,
     Actors, Listed, WaitingPlaces, YieldPlaces, MarkLock, Step,
     SyncUnchanged, HeapUnchanged, CollectorUnchanged, OthersUnchanged
<1>2. (Listed /\ WaitingPlaces /\ YieldPlaces)'
  BY CollectorAssumption DEF IInv, TypeOK, Labels, Returns, Actors, Listed,
     WaitingPlaces, YieldPlaces, MarkLock, Step, SyncUnchanged, HeapUnchanged,
     CollectorUnchanged, OthersUnchanged
<1>3. (ReturnPlaces /\ SavedBeforeYield)'
  BY CollectorAssumption DEF IInv, TypeOK, Labels, Returns, Actors,
     YieldPlaces, ReturnPlaces, SavedBeforeYield, UsesHeap, Listed, MarkLock,
     Step, SyncUnchanged, HeapUnchanged, CollectorUnchanged, OthersUnchanged
<1>4. (CollectorPhase /\ OnTheWayBack)'
  BY CollectorAssumption DEF IInv, TypeOK, Labels, Actors, Listed,
     YieldPlaces, CollectorPhase, OnTheWayBack, MarkLock, Step, SyncUnchanged,
     HeapUnchanged, CollectorUnchanged, OthersUnchanged
<1>5. (LockPlaces /\ NoLostRequest)'
  BY CollectorAssumption DEF IInv, TypeOK, Actors, Labels, Returns,
     LockPlaces, NoLostRequest, Listed, MarkLock, Step, SyncUnchanged,
     HeapUnchanged, CollectorUnchanged, OthersUnchanged
<1>6. HeapSafe'
  BY CollectorAssumption DEF IInv, TypeOK, Labels, Returns, Actors,
     YieldPlaces, SavedBeforeYield, UsesHeap, CollectorPhase, OnTheWayBack,
     ReturnPlaces, LockPlaces, HeapSafe, RefersTo, Listed, MarkLock, Step,
     SyncUnchanged, HeapUnchanged, CollectorUnchanged, OthersUnchanged
<1> QED
  BY <1>1, <1>2, <1>3, <1>4, <1>5, <1>6 DEF IInv

LEMMA FlipStep ==
  ASSUME IInv, Flip
  PROVE  IInv'
<1>1. TypeOK'
  BY CollectorAssumption DEF IInv, TypeOK, Labels, Returns, CollectorLabels,
     Actors, Listed, WaitingPlaces, YieldPlaces, Flip, Step, SyncUnchanged,
     OthersUnchanged
<1>2. (Listed /\ WaitingPlaces /\ YieldPlaces)'
  BY CollectorAssumption DEF IInv, TypeOK, Labels, Returns, Actors, Listed,
     WaitingPlaces, YieldPlaces, Flip, Step, SyncUnchanged, OthersUnchanged
<1>3. (ReturnPlaces /\ SavedBeforeYield)'
  BY CollectorAssumption DEF IInv, TypeOK, Labels, Returns, Actors,
     YieldPlaces, ReturnPlaces, SavedBeforeYield, UsesHeap, Listed, Flip,
     Step, SyncUnchanged, OthersUnchanged
<1>4. (CollectorPhase /\ OnTheWayBack)'
  BY CollectorAssumption DEF IInv, TypeOK, Labels, Actors, Listed,
     YieldPlaces, CollectorPhase, OnTheWayBack, Flip, Step, SyncUnchanged,
     OthersUnchanged
<1>5. (LockPlaces /\ NoLostRequest)'
  BY CollectorAssumption DEF IInv, TypeOK, Actors, Labels, Returns,
     LockPlaces, NoLostRequest, Listed, Flip, Step, SyncUnchanged,
     OthersUnchanged
<1>6. HeapSafe'
  BY CollectorAssumption DEF IInv, TypeOK, Labels, Returns, Actors,
     YieldPlaces, SavedBeforeYield, UsesHeap, CollectorPhase, OnTheWayBack,
     ReturnPlaces, LockPlaces, HeapSafe, RefersTo, Listed, Flip, Step,
     SyncUnchanged, OthersUnchanged
<1> QED
  BY <1>1, <1>2, <1>3, <1>4, <1>5, <1>6 DEF IInv

LEMMA MarkStep ==
  ASSUME IInv, Mark
  PROVE  IInv'
<1>1. TypeOK'
  BY CollectorAssumption DEF IInv, TypeOK, Labels, Returns, CollectorLabels,
     Actors, Listed, WaitingPlaces, YieldPlaces, Mark, Step, SyncUnchanged,
     CollectorUnchanged, OthersUnchanged
<1>2. (Listed /\ WaitingPlaces /\ YieldPlaces)'
  BY CollectorAssumption DEF IInv, TypeOK, Labels, Returns, Actors, Listed,
     WaitingPlaces, YieldPlaces, Mark, Step, SyncUnchanged,
     CollectorUnchanged, OthersUnchanged
<1>3. (ReturnPlaces /\ SavedBeforeYield)'
  BY CollectorAssumption DEF IInv, TypeOK, Labels, Returns, Actors,
     YieldPlaces, ReturnPlaces, SavedBeforeYield, UsesHeap, Listed, Mark,
     Step, SyncUnchanged, CollectorUnchanged, OthersUnchanged
<1>4. (CollectorPhase /\ OnTheWayBack)'
  BY CollectorAssumption DEF IInv, TypeOK, Labels, Actors, Listed,
     YieldPlaces, CollectorPhase, OnTheWayBack, Mark, Step, SyncUnchanged,
     CollectorUnchanged, OthersUnchanged
<1>5. (LockPlaces /\ NoLostRequest)'
  BY CollectorAssumption DEF IInv, TypeOK, Actors, Labels, Returns,
     LockPlaces, NoLostRequest, Listed, Mark, Step, SyncUnchanged,
     CollectorUnchanged, OthersUnchanged
<1>6. HeapSafe'
  <2>1. \A t \in Threads : ~UsesHeap(t)
    BY DEF IInv, TypeOK, Listed, YieldPlaces, CollectorPhase, OnTheWayBack, UsesHeap,
       Mark, Step
  <2>2. \A t \in Threads : local[t] = {}
    BY <2>1 DEF IInv, SavedBeforeYield
  <2> QED
    BY <2>2 DEF IInv, TypeOK, CollectorPhase, HeapSafe, RefersTo, Mark, Step,
       CollectorUnchanged, OthersUnchanged, SyncUnchanged
<1> QED
  BY <1>1, <1>2, <1>3, <1>4, <1>5, <1>6 DEF IInv

LEMMA MarkUnlockStep ==
  ASSUME IInv, MarkUnlock
  PROVE  IInv'
<1>1. TypeOK'
  BY CollectorAssumption DEF IInv, TypeOK, Labels, Returns, CollectorLabels,
     Actors, Listed, WaitingPlaces, YieldPlaces, MarkUnlock, Step,
     SyncUnchanged, CollectorUnchanged, OthersUnchanged
<1>2. (Listed /\ WaitingPlaces /\ YieldPlaces)'
  BY CollectorAssumption DEF IInv, TypeOK, Labels, Returns, Actors, Listed,
     WaitingPlaces, YieldPlaces, MarkUnlock, Step, SyncUnchanged,
     CollectorUnchanged, OthersUnchanged
<1>3. (ReturnPlaces /\ SavedBeforeYield)'
  BY CollectorAssumption DEF IInv, TypeOK, Labels, Returns, Actors,
     YieldPlaces, ReturnPlaces, SavedBeforeYield, UsesHeap, Listed,
     MarkUnlock, Step, SyncUnchanged, CollectorUnchanged, OthersUnchanged
<1>4. (CollectorPhase /\ OnTheWayBack)'
  BY CollectorAssumption DEF IInv, TypeOK, Labels, Actors, Listed,
     YieldPlaces, CollectorPhase, OnTheWayBack, MarkUnlock, Step,
     SyncUnchanged, CollectorUnchanged, OthersUnchanged
<1>5. (LockPlaces /\ NoLostRequest)'
  BY CollectorAssumption DEF IInv, TypeOK, Actors, Labels, Returns,
     LockPlaces, NoLostRequest, Listed, MarkUnlock, Step, SyncUnchanged,
     CollectorUnchanged, OthersUnchanged
<1>6. HeapSafe'
  BY CollectorAssumption DEF IInv, TypeOK, Labels, Returns, Actors,
     YieldPlaces, SavedBeforeYield, UsesHeap, CollectorPhase, OnTheWayBack,
     ReturnPlaces, LockPlaces, HeapSafe, RefersTo, Listed, MarkUnlock, Step,
     SyncUnchanged, CollectorUnchanged, OthersUnchanged
<1> QED
  BY <1>1, <1>2, <1>3, <1>4, <1>5, <1>6 DEF IInv

LEMMA ResumeStep ==
  ASSUME IInv, Resume
  PROVE  IInv'
<1>1. TypeOK'
  BY CollectorAssumption DEF IInv, TypeOK, Labels, Returns, CollectorLabels,
     Actors, Listed, WaitingPlaces, YieldPlaces, Resume, Step, ResumeThese,
     ResumeUnchanged, HeapUnchanged, CollectorUnchanged, OthersUnchanged
<1>2. (Listed /\ WaitingPlaces /\ YieldPlaces)'
  BY CollectorAssumption DEF IInv, TypeOK, Labels, Returns, Actors, Listed,
     WaitingPlaces, YieldPlaces, Resume, Step, ResumeThese, ResumeUnchanged,
     HeapUnchanged, CollectorUnchanged, OthersUnchanged
<1>3. (ReturnPlaces /\ SavedBeforeYield)'
  BY CollectorAssumption DEF IInv, TypeOK, Labels, Returns, Actors,
     YieldPlaces, ReturnPlaces, SavedBeforeYield, UsesHeap, Listed, Resume,
     Step, ResumeThese, ResumeUnchanged, HeapUnchanged, CollectorUnchanged,
     OthersUnchanged
<1>4. (CollectorPhase /\ OnTheWayBack)'
  BY CollectorAssumption DEF IInv, TypeOK, Labels, Actors, Listed,
     YieldPlaces, CollectorPhase, OnTheWayBack, Resume, Step, ResumeThese,
     ResumeUnchanged, HeapUnchanged, CollectorUnchanged, OthersUnchanged
<1>5. (LockPlaces /\ NoLostRequest)'
  BY CollectorAssumption DEF IInv, TypeOK, Actors, Labels, Returns,
     LockPlaces, NoLostRequest, Listed, Resume, Step, ResumeThese,
     ResumeUnchanged, HeapUnchanged, CollectorUnchanged, OthersUnchanged
<1>6. HeapSafe'
  BY CollectorAssumption DEF IInv, TypeOK, Labels, Returns, Actors,
     YieldPlaces, SavedBeforeYield, UsesHeap, CollectorPhase, OnTheWayBack,
     ReturnPlaces, LockPlaces, HeapSafe, RefersTo, Listed, Resume, Step,
     ResumeThese, ResumeUnchanged, HeapUnchanged, CollectorUnchanged,
     OthersUnchanged
<1> QED
  BY <1>1, <1>2, <1>3, <1>4, <1>5, <1>6 DEF IInv

LEMMA ResumeYieldedStep ==
  ASSUME IInv, ResumeYielded
  PROVE  IInv'
<1>1. TypeOK'
  BY CollectorAssumption DEF IInv, TypeOK, Labels, Returns, CollectorLabels,
     Actors, Listed, WaitingPlaces, YieldPlaces, ResumeYielded, Step,
     ResumeThese, ResumeUnchanged, HeapUnchanged, CollectorUnchanged,
     OthersUnchanged
<1>2. (Listed /\ WaitingPlaces /\ YieldPlaces)'
  BY CollectorAssumption DEF IInv, TypeOK, Labels, Returns, Actors, Listed,
     WaitingPlaces, YieldPlaces, ResumeYielded, Step, ResumeThese,
     ResumeUnchanged, HeapUnchanged, CollectorUnchanged, OthersUnchanged
<1>3. (ReturnPlaces /\ SavedBeforeYield)'
  BY CollectorAssumption DEF IInv, TypeOK, Labels, Returns, Actors,
     YieldPlaces, ReturnPlaces, SavedBeforeYield, UsesHeap, Listed,
     ResumeYielded, Step, ResumeThese, ResumeUnchanged, HeapUnchanged,
     CollectorUnchanged, OthersUnchanged
<1>4. (CollectorPhase /\ OnTheWayBack)'
  BY CollectorAssumption DEF IInv, TypeOK, Labels, Actors, Listed,
     YieldPlaces, CollectorPhase, OnTheWayBack, ResumeYielded, Step,
     ResumeThese, ResumeUnchanged, HeapUnchanged, CollectorUnchanged,
     OthersUnchanged
<1>5. (LockPlaces /\ NoLostRequest)'
  BY CollectorAssumption DEF IInv, TypeOK, Actors, Labels, Returns,
     LockPlaces, NoLostRequest, Listed, ResumeYielded, Step, ResumeThese,
     ResumeUnchanged, HeapUnchanged, CollectorUnchanged, OthersUnchanged
<1>6. HeapSafe'
  BY CollectorAssumption DEF IInv, TypeOK, Labels, Returns, Actors,
     YieldPlaces, SavedBeforeYield, UsesHeap, CollectorPhase, OnTheWayBack,
     ReturnPlaces, LockPlaces, HeapSafe, RefersTo, Listed, ResumeYielded,
     Step, ResumeThese, ResumeUnchanged, HeapUnchanged, CollectorUnchanged,
     OthersUnchanged
<1> QED
  BY <1>1, <1>2, <1>3, <1>4, <1>5, <1>6 DEF IInv

LEMMA ResumeWaitingStep ==
  ASSUME IInv, ResumeWaiting
  PROVE  IInv'
<1>1. TypeOK'
  BY CollectorAssumption DEF IInv, TypeOK, Labels, Returns, CollectorLabels,
     Actors, Listed, WaitingPlaces, YieldPlaces, ResumeWaiting, Step,
     ResumeThese, ResumeUnchanged, HeapUnchanged, CollectorUnchanged,
     OthersUnchanged
<1>2. (Listed /\ WaitingPlaces /\ YieldPlaces)'
  BY CollectorAssumption DEF IInv, TypeOK, Labels, Returns, Actors, Listed,
     WaitingPlaces, YieldPlaces, ResumeWaiting, Step, ResumeThese,
     ResumeUnchanged, HeapUnchanged, CollectorUnchanged, OthersUnchanged
<1>3. (ReturnPlaces /\ SavedBeforeYield)'
  BY CollectorAssumption DEF IInv, TypeOK, Labels, Returns, Actors,
     YieldPlaces, ReturnPlaces, SavedBeforeYield, UsesHeap, Listed,
     ResumeWaiting, Step, ResumeThese, ResumeUnchanged, HeapUnchanged,
     CollectorUnchanged, OthersUnchanged
<1>4. (CollectorPhase /\ OnTheWayBack)'
  BY CollectorAssumption DEF IInv, TypeOK, Labels, Actors, Listed,
     YieldPlaces, CollectorPhase, OnTheWayBack, ResumeWaiting, Step,
     ResumeThese, ResumeUnchanged, HeapUnchanged, CollectorUnchanged,
     OthersUnchanged
<1>5. (LockPlaces /\ NoLostRequest)'
  BY CollectorAssumption DEF IInv, TypeOK, Actors, Labels, Returns,
     LockPlaces, NoLostRequest, Listed, ResumeWaiting, Step, ResumeThese,
     ResumeUnchanged, HeapUnchanged, CollectorUnchanged, OthersUnchanged
<1>6. HeapSafe'
  BY CollectorAssumption DEF IInv, TypeOK, Labels, Returns, Actors,
     YieldPlaces, SavedBeforeYield, UsesHeap, CollectorPhase, OnTheWayBack,
     ReturnPlaces, LockPlaces, HeapSafe, RefersTo, Listed, ResumeWaiting,
     Step, ResumeThese, ResumeUnchanged, HeapUnchanged, CollectorUnchanged,
     OthersUnchanged
<1> QED
  BY <1>1, <1>2, <1>3, <1>4, <1>5, <1>6 DEF IInv

LEMMA LookStep ==
  ASSUME IInv, Look
  PROVE  IInv'
<1>1. TypeOK'
  BY CollectorAssumption DEF IInv, TypeOK, Labels, Returns, CollectorLabels,
     Actors, Listed, WaitingPlaces, YieldPlaces, Look, SyncUnchanged,
     CollectorUnchanged, OthersUnchanged
<1>2. (Listed /\ WaitingPlaces /\ YieldPlaces)'
  BY CollectorAssumption DEF IInv, TypeOK, Labels, Returns, Actors, Listed,
     WaitingPlaces, YieldPlaces, Look, SyncUnchanged, CollectorUnchanged,
     OthersUnchanged
<1>3. (ReturnPlaces /\ SavedBeforeYield)'
  BY CollectorAssumption DEF IInv, TypeOK, Labels, Returns, Actors,
     YieldPlaces, ReturnPlaces, SavedBeforeYield, UsesHeap, Listed, Look,
     SyncUnchanged, CollectorUnchanged, OthersUnchanged
<1>4. (CollectorPhase /\ OnTheWayBack)'
  BY CollectorAssumption DEF IInv, TypeOK, Labels, Actors, Listed,
     YieldPlaces, CollectorPhase, OnTheWayBack, Look, SyncUnchanged,
     CollectorUnchanged, OthersUnchanged
<1>5. (LockPlaces /\ NoLostRequest)'
  BY CollectorAssumption DEF IInv, TypeOK, Actors, Labels, Returns,
     LockPlaces, NoLostRequest, Listed, Look, SyncUnchanged,
     CollectorUnchanged, OthersUnchanged
<1>6. HeapSafe'
  BY CollectorAssumption DEF IInv, TypeOK, Labels, Returns, Actors,
     YieldPlaces, SavedBeforeYield, UsesHeap, CollectorPhase, OnTheWayBack,
     ReturnPlaces, LockPlaces, HeapSafe, RefersTo, Listed, Look,
     SyncUnchanged, CollectorUnchanged, OthersUnchanged
<1> QED
  BY <1>1, <1>2, <1>3, <1>4, <1>5, <1>6 DEF IInv

LEMMA CheckStep ==
  ASSUME IInv, Check
  PROVE  IInv'
<1>1. TypeOK'
  BY CollectorAssumption DEF IInv, TypeOK, Labels, Returns, CollectorLabels,
     Actors, Listed, WaitingPlaces, YieldPlaces, Check, SyncUnchanged,
     CollectorUnchanged, OthersUnchanged
<1>2. (Listed /\ WaitingPlaces /\ YieldPlaces)'
  BY CollectorAssumption DEF IInv, TypeOK, Labels, Returns, Actors, Listed,
     WaitingPlaces, YieldPlaces, Check, SyncUnchanged, CollectorUnchanged,
     OthersUnchanged
<1>3. (ReturnPlaces /\ SavedBeforeYield)'
  BY CollectorAssumption DEF IInv, TypeOK, Labels, Returns, Actors,
     YieldPlaces, ReturnPlaces, SavedBeforeYield, UsesHeap, Listed, Check,
     SyncUnchanged, CollectorUnchanged, OthersUnchanged
<1>4. (CollectorPhase /\ OnTheWayBack)'
  BY CollectorAssumption DEF IInv, TypeOK, Labels, Actors, Listed,
     YieldPlaces, CollectorPhase, OnTheWayBack, Check, SyncUnchanged,
     CollectorUnchanged, OthersUnchanged
<1>5. (LockPlaces /\ NoLostRequest)'
  BY CollectorAssumption DEF IInv, TypeOK, Actors, Labels, Returns,
     LockPlaces, NoLostRequest, Listed, Check, SyncUnchanged,
     CollectorUnchanged, OthersUnchanged
<1>6. HeapSafe'
  BY CollectorAssumption DEF IInv, TypeOK, Labels, Returns, Actors,
     YieldPlaces, SavedBeforeYield, UsesHeap, CollectorPhase, OnTheWayBack,
     ReturnPlaces, LockPlaces, HeapSafe, RefersTo, Listed, Check,
     SyncUnchanged, CollectorUnchanged, OthersUnchanged
<1> QED
  BY <1>1, <1>2, <1>3, <1>4, <1>5, <1>6 DEF IInv

LEMMA SweptStep ==
  ASSUME IInv, Swept
  PROVE  IInv'
<1>1. TypeOK'
  BY CollectorAssumption DEF IInv, TypeOK, Labels, Returns, CollectorLabels,
     Actors, Listed, WaitingPlaces, YieldPlaces, Swept, Step, SyncUnchanged,
     CollectorUnchanged, OthersUnchanged
<1>2. (Listed /\ WaitingPlaces /\ YieldPlaces)'
  BY CollectorAssumption DEF IInv, TypeOK, Labels, Returns, Actors, Listed,
     WaitingPlaces, YieldPlaces, Swept, Step, SyncUnchanged,
     CollectorUnchanged, OthersUnchanged
<1>3. (ReturnPlaces /\ SavedBeforeYield)'
  BY CollectorAssumption DEF IInv, TypeOK, Labels, Returns, Actors,
     YieldPlaces, ReturnPlaces, SavedBeforeYield, UsesHeap, Listed, Swept,
     Step, SyncUnchanged, CollectorUnchanged, OthersUnchanged
<1>4. (CollectorPhase /\ OnTheWayBack)'
  BY CollectorAssumption DEF IInv, TypeOK, Labels, Actors, Listed,
     YieldPlaces, CollectorPhase, OnTheWayBack, Swept, Step, SyncUnchanged,
     CollectorUnchanged, OthersUnchanged
<1>5. (LockPlaces /\ NoLostRequest)'
  BY CollectorAssumption DEF IInv, TypeOK, Actors, Labels, Returns,
     LockPlaces, NoLostRequest, Listed, Swept, Step, SyncUnchanged,
     CollectorUnchanged, OthersUnchanged
<1>6. HeapSafe'
  BY CollectorAssumption DEF IInv, TypeOK, Labels, Returns, Actors,
     YieldPlaces, SavedBeforeYield, UsesHeap, CollectorPhase, OnTheWayBack,
     ReturnPlaces, LockPlaces, HeapSafe, RefersTo, Listed, Swept, Step,
     SyncUnchanged, CollectorUnchanged, OthersUnchanged
<1> QED
  BY <1>1, <1>2, <1>3, <1>4, <1>5, <1>6 DEF IInv

-----------------------------------------------------------------------------

\* The invariant holds in the initial state.
LEMMA Initially == Init => IInv
<1> SUFFICES ASSUME Init PROVE IInv
  OBVIOUS
<1>1. TypeOK
  BY CollectorAssumption
     DEF Init, TypeOK, Labels, Returns, CollectorLabels, Actors
<1>2. Listed /\ WaitingPlaces /\ YieldPlaces /\ ReturnPlaces /\ SavedBeforeYield
  BY CollectorAssumption
     DEF Init, Actors, Listed, WaitingPlaces, YieldPlaces, ReturnPlaces, SavedBeforeYield
<1>3. CollectorPhase /\ OnTheWayBack /\ LockPlaces /\ NoLostRequest
  BY CollectorAssumption
     DEF Init, Actors, CollectorPhase, OnTheWayBack, LockPlaces, NoLostRequest
<1>4. HeapSafe
  BY DEF Init, HeapSafe, RefersTo
<1> QED
  BY <1>1, <1>2, <1>3, <1>4 DEF IInv

\* The invariant is preserved by every step of a thread, ...
LEMMA ThreadStep ==
  ASSUME IInv, NEW t \in Threads, Choice(t) \/ Program(t)
  PROVE  IInv'
<1>1. CASE Choice(t)
  BY <1>1, YieldStep, UnblockStep, SetThreadYieldStep, CollectBlockingStep, RequestStep,
     EnableGCStep, StartThreadStep, ExitThreadStep, AllocateStep, LinkStep, UnlinkStep,
     FetchStep, HoldStep, ReleaseLockStep DEF Choice, Actors
<1>2. CASE Program(t)
  BY <1>2, TestYieldStep, EnterYieldStep, SignalYieldStep, WaitStep, WokenStep,
     ReadTargetStep, TriggerStep, InsistStep, AlertStep, AwaitStep, ResetStep, AgainStep,
     StampStep, LetGoStep DEF Program, Actors
<1> QED
  BY <1>1, <1>2

\* ... of a foreign thread ...
LEMMA ForeignThreadStep ==
  ASSUME IInv, NEW f \in Foreign, ForeignStep(f)
  PROVE  IInv'
BY TakeBlockStep, CreateHeldStep, LinkHeldStep, ReleaseLockStep, StampStep, LetGoStep
   DEF ForeignStep, Actors

\* ... and of the collector.
LEMMA CollectorStep ==
  ASSUME IInv, Collect
  PROVE  IInv'
BY TopStep, IdleStep, ChooseStep, PauseStep, PollStep, NapStep, TimeUpStep, AbandonStep,
   MarkLockStep, FlipStep, MarkStep, MarkUnlockStep, ResumeStep, ResumeYieldedStep,
   ResumeWaitingStep, LookStep, CheckStep, SweptStep DEF Collect

LEMMA StutteringStep ==
  ASSUME IInv, UNCHANGED vars
  PROVE  IInv'
BY DEF vars, IInv, TypeOK, Listed, WaitingPlaces, YieldPlaces, ReturnPlaces,
   SavedBeforeYield, UsesHeap, CollectorPhase, OnTheWayBack, LockPlaces, NoLostRequest,
   HeapSafe, RefersTo

\* IInv is an invariant of the collector, its threads and the foreign threads.
THEOREM Inductive == Spec => []IInv
<1>1. IInv /\ [Next]_vars => IInv'
  BY ThreadStep, ForeignThreadStep, CollectorStep, StutteringStep DEF Next
<1> QED
  BY <1>1, Initially, PTL DEF Spec

\* Every variable has its type.
THEOREM TypeCorrect == Spec => []TypeOK
<1>1. IInv => TypeOK
  BY DEF IInv
<1> QED
  BY <1>1, Inductive, PTL

\* No thread of the MPR uses the heap while the collector marks.
THEOREM MarkExclusion == Spec => []MarkingExcludes
<1>1. IInv => MarkingExcludes
  BY DEF IInv, TypeOK, YieldPlaces, OnTheWayBack, MarkingExcludes, UsesHeap
<1> QED
  BY <1>1, Inductive, PTL

\* No request for a collection, and no thread that yields for it, is left while the
\* collector sleeps.
THEOREM RequestsHeard == Spec => []NoLostRequest
<1>1. IInv => NoLostRequest
  BY DEF IInv
<1> QED
  BY <1>1, Inductive, PTL

\* Nothing that is in use or held is ever freed.
THEOREM MemorySafety == Spec => []NoUseAfterFree
<1>1. IInv => NoUseAfterFree
  BY DEF IInv, TypeOK, HeapSafe, RefersTo, NoUseAfterFree
<1> QED
  BY <1>1, Inductive, PTL

-----------------------------------------------------------------------------
(* Complete collections *)

\* What a complete collection is to free stays garbage, and unmarked from the start of
\* the collection on; the sweep still has to visit it.
SweptInv ==
  \A t \in Threads :
    /\ doomed[t] \subseteq Garbage
    /\ goal[t] \in {"none", "done"} => doomed[t] = {}
    /\ goal[t] = "sweep" =>
         /\ doomed[t] \cap marked = {}
         /\ spc \in {"mark", "unlock", "sweep"} \/ (spc = "resume" /\ few)
         /\ spc \in {"resume", "sweep"} => doomed[t] \subseteq unswept \cup {probe}

\* A step that leaves the collection alone, uses no garbage and marks none
Leaves ==
  /\ UNCHANGED <<goal, doomed, spc, few, unswept, probe>>
  /\ Garbage \subseteq Garbage'
  /\ Garbage \cap marked' \subseteq marked

LEMMA LeavesSwept ==
  ASSUME SweptInv, Leaves
  PROVE  SweptInv'
BY DEF SweptInv, Leaves

\* What threads do: they refer to garbage never again.
LEMMA ThreadLeaves ==
  ASSUME IInv, NEW t \in Threads,
         Choice(t) \/ (Program(t) /\ ~ReadTarget(t) /\ ~Reset(t))
  PROVE  Leaves
<1>1. /\ local \in [Threads -> SUBSET Blocks] /\ live \subseteq Blocks
      /\ \A b \in Blocks : b \in eternal <=> holder[b] # None
      /\ t # None
  BY CollectorAssumption DEF IInv, TypeOK, HeapSafe, Actors
<1>2. ASSUME UNCHANGED <<goal, doomed, collector, live, rooted, eternal, local, marked>>
      PROVE  Leaves
  BY <1>2 DEF Leaves, Garbage
<1>3. ASSUME Yield(t) PROVE Leaves
  BY <1>1, <1>3 DEF Yield, BeginYield, Leaves, Garbage, Running
<1>4. ASSUME TestYield(t) PROVE Leaves
  BY <1>2, <1>4 DEF TestYield, MemoryUnchanged
<1>5. ASSUME EnterYield(t) PROVE Leaves
  BY <1>2, <1>5 DEF EnterYield, Round, MemoryUnchanged
<1>6. ASSUME SignalYield(t) PROVE Leaves
  BY <1>2, <1>6 DEF SignalYield, YieldUnchanged, MemoryUnchanged
<1>7. ASSUME Wait(t) PROVE Leaves
  BY <1>2, <1>7 DEF Wait, YieldUnchanged, MemoryUnchanged
<1>8. ASSUME Woken(t) PROVE Leaves
  BY <1>2, <1>8 DEF Woken, YieldUnchanged, MemoryUnchanged
<1>9. ASSUME Unblock(t) PROVE Leaves
  BY <1>2, <1>9 DEF Unblock, ResetYield, YieldUnchanged, MemoryUnchanged
<1>10. ASSUME SetThreadYield(t) PROVE Leaves
  BY <1>2, <1>10 DEF SetThreadYield, YieldUnchanged, MemoryUnchanged
<1>11. ASSUME CollectBlocking(t) PROVE Leaves
  BY <1>1, <1>11 DEF CollectBlocking, BeginYield, Leaves, Garbage, Running
<1>12. ASSUME Request(t) PROVE Leaves
  BY <1>2, <1>12 DEF Request, RequestUnchanged, MemoryUnchanged
<1>13. ASSUME Trigger(t) PROVE Leaves
  BY <1>2, <1>13 DEF Trigger, RequestUnchanged, MemoryUnchanged
<1>14. ASSUME Insist(t) PROVE Leaves
  BY <1>2, <1>14 DEF Insist, RequestUnchanged, MemoryUnchanged
<1>15. ASSUME Alert(t) PROVE Leaves
  BY <1>2, <1>15 DEF Alert, RequestUnchanged, MemoryUnchanged
<1>16. ASSUME Await(t) PROVE Leaves
  BY <1>2, <1>16 DEF Await, RequestUnchanged, MemoryUnchanged
<1>17. ASSUME Again(t) PROVE Leaves
  BY <1>1, <1>17 DEF Again, BeginYield, YieldUnchanged, Leaves, Garbage, Running
<1>18. ASSUME EnableGC(t) PROVE Leaves
  BY <1>2, <1>18 DEF EnableGC, RequestUnchanged, MemoryUnchanged
<1>19. ASSUME StartThread(t) PROVE Leaves
  BY <1>2, <1>19 DEF StartThread, ThreadUnchanged, MemoryUnchanged
<1>20. ASSUME ExitThread(t) PROVE Leaves
  BY <1>1, <1>20 DEF ExitThread, ThreadUnchanged, Leaves, Garbage, Running
<1>21. ASSUME Allocate(t) PROVE Leaves
  BY <1>1, <1>21 DEF Allocate, UseUnchanged, Leaves, Garbage, Running
<1>22. ASSUME Link(t) PROVE Leaves
  BY <1>1, <1>22 DEF Link, UseUnchanged, Leaves, Garbage, Running
<1>23. ASSUME Unlink(t) PROVE Leaves
  BY <1>1, <1>23 DEF Unlink, UseUnchanged, Leaves, Garbage, Running
<1>24. ASSUME Fetch(t) PROVE Leaves
  BY <1>1, <1>24 DEF Fetch, UseUnchanged, Leaves, Garbage, Running
<1>25. ASSUME Hold(t) PROVE Leaves
  BY <1>1, <1>25 DEF Hold, UseUnchanged, Leaves, Garbage, Running
<1>26. ASSUME ReleaseLock(t) PROVE Leaves
  BY <1>1, <1>26 DEF ReleaseLock, UseUnchanged, MemoryUnchanged, Leaves, Garbage
<1>27. ASSUME Stamp(t) PROVE Leaves
  BY <1>1, <1>27 DEF Stamp, UseUnchanged, MemoryUnchanged, Leaves, Garbage
<1>28. ASSUME LetGo(t) PROVE Leaves
  BY <1>1, <1>28 DEF LetGo, UseUnchanged, MemoryUnchanged, Leaves, Garbage
<1> QED
  BY <1>3, <1>4, <1>5, <1>6, <1>7, <1>8, <1>9, <1>10, <1>11, <1>12, <1>13, <1>14, <1>15, <1>16, <1>17, <1>18, <1>19, <1>20, <1>21, <1>22, <1>23, <1>24, <1>25, <1>26, <1>27, <1>28 DEF Choice, Program

LEMMA ForeignLeaves ==
  ASSUME IInv, NEW f \in Foreign, ForeignStep(f)
  PROVE  Leaves
<1>1. /\ local \in [Threads -> SUBSET Blocks] /\ live \subseteq Blocks
      /\ \A b \in Blocks : b \in eternal <=> holder[b] # None
  BY DEF IInv, TypeOK, HeapSafe
<1>2. f # None
  BY CollectorAssumption DEF Actors
<1>3. ASSUME TakeBlock(f) PROVE Leaves
  BY <1>1, <1>2, <1>3 DEF TakeBlock, UseUnchanged, MemoryUnchanged, Leaves, Garbage
<1>4. ASSUME CreateHeld(f) PROVE Leaves
  BY <1>1, <1>2, <1>4 DEF CreateHeld, UseUnchanged, MemoryUnchanged, Leaves, Garbage
<1>5. ASSUME LinkHeld(f) PROVE Leaves
  BY <1>1, <1>2, <1>5 DEF LinkHeld, UseUnchanged, MemoryUnchanged, Leaves, Garbage
<1>6. ASSUME ReleaseLock(f) PROVE Leaves
  BY <1>1, <1>2, <1>6 DEF ReleaseLock, UseUnchanged, MemoryUnchanged, Leaves, Garbage
<1>7. ASSUME Stamp(f) PROVE Leaves
  BY <1>1, <1>2, <1>7 DEF Stamp, UseUnchanged, MemoryUnchanged, Leaves, Garbage
<1>8. ASSUME LetGo(f) PROVE Leaves
  BY <1>1, <1>2, <1>8 DEF LetGo, UseUnchanged, MemoryUnchanged, Leaves, Garbage
<1> QED
  BY <1>3, <1>4, <1>5, <1>6, <1>7, <1>8 DEF ForeignStep

\* The collector marks what is reachable, sweeps the rest, and counts when it is done.
LEMMA CollectSwept ==
  ASSUME IInv, SweptInv, Collect
  PROVE  SweptInv'
<1> USE DEF IInv, TypeOK, CollectorLabels
<1>1. \A b \in Blocks : b \in eternal <=> holder[b] # None
  BY DEF HeapSafe
<1>2. ASSUME UNCHANGED <<goal, doomed, live, rooted, eternal, local, marked, unswept, probe>>,
             \/ spc \notin {"mark", "unlock", "sweep", "resume"}
             \/ few' = few /\ (spc' = spc \/ (spc = "resume" /\ few /\ spc' = "sweep"))
             \/ spc = "resume" /\ ~few
      PROVE  SweptInv'
  BY <1>2 DEF SweptInv, Garbage
<1>3. ASSUME Top PROVE SweptInv'
  BY <1>2, <1>3 DEF Top, SyncUnchanged, HeapUnchanged, CollectorUnchanged, OthersUnchanged, Step
<1>4. ASSUME Idle PROVE SweptInv'
  BY <1>2, <1>4 DEF Idle, SyncUnchanged, HeapUnchanged, CollectorUnchanged, OthersUnchanged, Step
<1>5. ASSUME Choose PROVE SweptInv'
  BY <1>2, <1>5 DEF Choose, SyncUnchanged, HeapUnchanged, CollectorUnchanged, OthersUnchanged, Step
<1>6. ASSUME Pause PROVE SweptInv'
  BY <1>2, <1>6 DEF Pause, SyncUnchanged, HeapUnchanged, CollectorUnchanged, OthersUnchanged, Step
<1>7. ASSUME Poll PROVE SweptInv'
  BY <1>2, <1>7 DEF Poll, SyncUnchanged, HeapUnchanged, CollectorUnchanged, OthersUnchanged, Step
<1>8. ASSUME Nap PROVE SweptInv'
  BY <1>2, <1>8 DEF Nap, SyncUnchanged, HeapUnchanged, CollectorUnchanged, OthersUnchanged, Step
<1>9. ASSUME TimeUp PROVE SweptInv'
  BY <1>2, <1>9 DEF TimeUp, SyncUnchanged, HeapUnchanged, CollectorUnchanged, OthersUnchanged, Step
<1>10. ASSUME Abandon PROVE SweptInv'
  BY <1>2, <1>10 DEF Abandon, SyncUnchanged, HeapUnchanged, CollectorUnchanged, OthersUnchanged, Step
<1>11. ASSUME MarkLock PROVE SweptInv'
  BY <1>2, <1>11 DEF MarkLock, SyncUnchanged, HeapUnchanged, CollectorUnchanged, OthersUnchanged, Step
<1>12. ASSUME Resume PROVE SweptInv'
  BY <1>2, <1>12 DEF Resume, ResumeThese, ResumeUnchanged, SyncUnchanged, HeapUnchanged, CollectorUnchanged, OthersUnchanged, Step
<1>13. ASSUME ResumeYielded PROVE SweptInv'
  BY <1>2, <1>13 DEF ResumeYielded, ResumeThese, ResumeUnchanged, SyncUnchanged, HeapUnchanged, CollectorUnchanged, OthersUnchanged, Step
<1>14. ASSUME ResumeWaiting PROVE SweptInv'
  BY <1>2, <1>14 DEF ResumeWaiting, ResumeThese, ResumeUnchanged, SyncUnchanged, HeapUnchanged, CollectorUnchanged, OthersUnchanged, Step
<1>15. ASSUME Flip PROVE SweptInv'
  BY <1>1, <1>15 DEF Flip, SweptInv, Garbage, CollectorPhase, SyncUnchanged, CollectorUnchanged, OthersUnchanged, Step
<1>16. ASSUME Mark PROVE SweptInv'
  BY <1>1, <1>16 DEF Mark, SweptInv, Garbage, CollectorPhase, SyncUnchanged, CollectorUnchanged, OthersUnchanged, Step
<1>17. ASSUME MarkUnlock PROVE SweptInv'
  BY <1>1, <1>17 DEF MarkUnlock, SweptInv, Garbage, CollectorPhase, SyncUnchanged, CollectorUnchanged, OthersUnchanged, Step
<1>18. ASSUME Check PROVE SweptInv'
  BY <1>1, <1>18 DEF Check, SweptInv, Garbage, CollectorPhase, SyncUnchanged, CollectorUnchanged, OthersUnchanged, Step
<1>19. ASSUME Look PROVE SweptInv'
  <2>1. PICK b \in unswept :
          /\ unswept' = unswept \ {b}
          /\ IF b \in eternal THEN marked' = marked \cup {b} /\ UNCHANGED probe
                              ELSE probe' = b /\ UNCHANGED marked
    BY <1>19 DEF Look
  <2>2. /\ UNCHANGED <<goal, doomed, live, rooted, eternal, local, spc, few>>
        /\ spc = "sweep" /\ probe = None
    BY <1>19 DEF Look, SyncUnchanged, CollectorUnchanged, OthersUnchanged, Step
  <2>3. Garbage' = Garbage
    BY <2>2 DEF Garbage
  <2>4. None \notin Blocks
    BY CollectorAssumption
  <2>5. CASE b \in eternal
    <3>1. b \notin Garbage
      BY <2>5 DEF Garbage
    <3> QED
      BY <2>1, <2>2, <2>3, <2>5, <3>1 DEF SweptInv
  <2>6. CASE b \notin eternal
    <3>1. \A t \in Threads : None \notin doomed[t]
      BY <2>4
    <3> QED
      BY <2>1, <2>2, <2>3, <2>6, <3>1 DEF SweptInv
  <2> QED
    BY <2>5, <2>6
<1>20. ASSUME Swept PROVE SweptInv'
  <2>1. /\ UNCHANGED <<doomed, live, rooted, eternal, local, marked>>
        /\ spc = "sweep" /\ probe = None /\ unswept = {}
        /\ goal' = [t \in Threads |-> IF goal[t] = "sweep" THEN "done" ELSE goal[t]]
    BY <1>20 DEF Swept, SyncUnchanged, CollectorUnchanged, OthersUnchanged, Step
  <2>2. Garbage' = Garbage
    BY <2>1 DEF Garbage
  <2>3. \A t \in Threads : None \notin doomed[t]
    BY CollectorAssumption
  <2>4. \A t \in Threads : goal[t] = "sweep" => doomed[t] = {}
    BY <2>1, <2>3 DEF SweptInv
  <2> QED
    BY <2>1, <2>2, <2>4 DEF SweptInv
<1> QED
  BY <1>3, <1>4, <1>5, <1>6, <1>7, <1>8, <1>9, <1>10, <1>11, <1>12, <1>13, <1>14, <1>15, <1>16, <1>17, <1>18, <1>19, <1>20 DEF Collect

LEMMA SweptNext ==
  ASSUME IInv, SweptInv, [Next]_vars
  PROVE  SweptInv'
<1>1. ASSUME NEW t \in Threads, ReadTarget(t) PROVE SweptInv'
  <2>1. UNCHANGED <<live, rooted, eternal, local, marked, spc, few, unswept, probe>>
    BY <1>1 DEF ReadTarget, RequestUnchanged, MemoryUnchanged
  <2>2. Garbage' = Garbage
    BY <2>1 DEF Garbage
  <2>3. \/ UNCHANGED <<goal, doomed>>
        \/ /\ goal' = [goal EXCEPT ![t] = "start"]
           /\ doomed' = [doomed EXCEPT ![t] = Garbage]
    BY <1>1 DEF ReadTarget
  <2>4. DOMAIN goal = Threads /\ DOMAIN doomed = Threads
    BY DEF IInv, TypeOK
  <2>5. CASE UNCHANGED <<goal, doomed>>
    BY <2>1, <2>2, <2>5 DEF SweptInv
  <2>6. CASE /\ goal' = [goal EXCEPT ![t] = "start"]
             /\ doomed' = [doomed EXCEPT ![t] = Garbage]
    <3>1. goal'[t] = "start" /\ doomed'[t] = Garbage
      BY <2>6 DEF IInv, TypeOK
    <3>2. \A u \in Threads \ {t} : goal'[u] = goal[u] /\ doomed'[u] = doomed[u]
      BY <2>6 DEF IInv, TypeOK
    <3> QED
      BY <2>1, <2>2, <3>1, <3>2 DEF SweptInv
  <2> QED
    BY <2>3, <2>5, <2>6
<1>2. ASSUME NEW t \in Threads, Reset(t) PROVE SweptInv'
  BY <1>2 DEF Reset, ResetYield, MemoryUnchanged, SweptInv, Garbage, IInv, TypeOK
<1>3. ASSUME UNCHANGED vars PROVE Leaves
  BY <1>3 DEF vars, Leaves, Garbage
<1> QED
  BY <1>1, <1>2, <1>3, LeavesSwept, ThreadLeaves, ForeignLeaves, CollectSwept DEF Next

\* When a complete collection returns, all the garbage there was at its call is freed.
THEOREM GarbageFreed == Spec => []CompleteSwept
<1>1. Init => SweptInv
  BY DEF Init, SweptInv, Garbage
<1>2. IInv /\ SweptInv /\ [Next]_vars => SweptInv'
  BY SweptNext
<1>3. SweptInv => CompleteSwept
  BY DEF SweptInv, CompleteSwept
<1> QED
  BY <1>1, <1>2, <1>3, Inductive, PTL DEF Spec

=============================================================================
