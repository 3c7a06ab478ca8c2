------------------------------ MODULE Collector ------------------------------
(***************************************************************************)
(* The garbage collector of the MPR: how the collector thread stops the    *)
(* threads that use the heap, marks, resumes them and sweeps beside them;  *)
(* how threads yield, request collections and wait for them; and how       *)
(* foreign threads, which are never stopped, hand over blocks they hold.   *)
(* Sources: the mem.c part of mprLib.c, threads from its thread.c part.    *)
(*                                                                         *)
(* A step is one critical section of the thread list's lock, or one        *)
(* unlocked access to shared state.  Blocks are swept one by one; regions, *)
(* the joining of free blocks and managers are left out.                   *)
(***************************************************************************)
EXTENDS Integers, FiniteSets

CONSTANTS
  Threads,       \* the MPR threads that may exist; the collector is not one
  Main,          \* the one that exists from the start and never exits
  Sweeper,       \* the collector's own thread
  Foreign,       \* threads of others, which only create events
  NoYielders,    \* the threads that may switch their yielding off
  Switchers,     \* those that may disable and enable collections
  Kinds,         \* the kinds of yields and of collections that threads use
  Blocks,        \* the blocks of the heap
  Crowd,         \* from this many threads on, the sweep goes before the resume: 4 in the code
  None

Actors == Threads \cup Foreign

ASSUME CollectorAssumption ==
  /\ Threads \cap Foreign = {} /\ None \notin Actors \cup Blocks
  /\ Sweeper \notin Actors \cup {None}
  /\ Main \in Threads /\ IsFiniteSet(Threads) /\ Crowd \in Nat

VARIABLES
  threads,       \* ts->threads without the collector, which counts as yielded
  pc,            \* where an actor is
  ret,           \* where the yield or the request a thread is in returns
  mode,          \* the kind of the mprGC or mprYield a thread is in
  yielded, sticky, waiting, noyield,     \* the flags of the threads
  forSweeper,    \* threads with tp->waitForSweeper
  tcond,         \* threads whose tp->cond is triggered
  gcCond,        \* heap->gcCond is triggered
  mustYield, marking, requested, enabled, \* the flags of the heap
  global,        \* the holder of the global lock
  goal,          \* how far the collection an mprGC waits for is
  gaveUp,        \* threads whose mprGC has seen a collection abandoned
  spc,           \* where the collector is
  late,          \* it pauses, and MPR_TIMEOUT_GC_SYNC has passed
  few,           \* it collects, and there were less than Crowd threads: resume before the sweep
  live,          \* the blocks that are allocated
  marked,        \* those with mp->mark = heap->mark
  eternal,       \* those with mp->eternal
  rooted,        \* those reachable from the roots
  local,         \* what a thread refers to and has not saved
  holder,        \* who holds a block
  unswept, probe,\* the blocks the sweep has to visit, and the one it looks at
  doomed         \* the garbage there was when a thread's mprGC read its target

flags == <<yielded, sticky, waiting, noyield, forSweeper>>
conds == <<tcond, gcCond>>
heapFlags == <<mustYield, marking, requested, enabled>>
gcVars == <<mode, goal, gaveUp, doomed>>
collector == <<spc, late, few, unswept, probe>>
memory == <<live, marked, eternal, rooted, local, holder>>
vars == <<threads, pc, ret, flags, conds, heapFlags, global, gcVars, collector, memory>>

Goto(t, label) == pc' = [pc EXCEPT ![t] = label]

\* Return from a yield or a request
Back(t) == Goto(t, ret[t]) /\ ret' = [ret EXCEPT ![t] = "run"]

\* The thread's code runs and may use any block it refers to.
Running(t) == pc[t] = "run"

\* Allocated blocks that nothing refers to
Garbage == live \ (rooted \cup eternal \cup UNION {local[t] : t \in Threads})

Init ==
  /\ threads = {Main}
  /\ pc = [t \in Actors |-> IF t = Main THEN "run" ELSE "out"]
  /\ ret = [t \in Threads |-> "run"]
  /\ mode = [t \in Threads |-> "none"]
  /\ yielded = {} /\ sticky = {} /\ waiting = {} /\ noyield = {} /\ forSweeper = {}
  /\ tcond = {} /\ gcCond = FALSE
  /\ mustYield = FALSE /\ marking = FALSE /\ requested = FALSE /\ enabled = TRUE
  /\ global = None
  /\ goal = [t \in Threads |-> "none"] /\ gaveUp = {}
  /\ spc = "top" /\ late = FALSE /\ few = FALSE
  /\ live = {} /\ marked = {} /\ eternal = {} /\ rooted = {}
  /\ local = [t \in Threads |-> {}]
  /\ holder = [b \in Blocks |-> None]
  /\ unswept = {} /\ probe = None
  /\ doomed = [t \in Threads |-> {}]

-----------------------------------------------------------------------------
(* mprYield and mprResetYield *)

YieldUnchanged == UNCHANGED <<threads, gcCond, heapFlags, global, gcVars, collector>>
MemoryUnchanged == UNCHANGED memory

\* mprYield up to its first test of mustYield.  A sticky yield counts from here.
\* What the thread has not saved it must not use any more.
BeginYield(t, stick, back) ==
  /\ local' = [local EXCEPT ![t] = {}]
  /\ IF t \in noyield
     THEN Goto(t, back) /\ UNCHANGED <<ret, flags>>
     ELSE /\ Goto(t, "test") /\ ret' = [ret EXCEPT ![t] = back]
          /\ sticky' = IF stick THEN sticky \cup {t} ELSE sticky
          /\ yielded' = IF stick THEN yielded \cup {t} ELSE yielded
          /\ UNCHANGED <<waiting, noyield, forSweeper>>

\* A thread gives the collector a chance, or blocks elsewhere for a while.  Nothing in
\* the repository uses the third kind, MPR_YIELD_COMPLETE.
Yield(t) ==
  /\ Running(t)
  /\ \E kind \in Kinds \cap {"default", "sticky", "sweep"} :
       /\ BeginYield(t, kind = "sticky", IF kind = "sticky" THEN "blocked" ELSE "run")
       /\ mode' = [mode EXCEPT ![t] = IF kind = "sweep" /\ t \notin noyield THEN kind ELSE @]
  /\ UNCHANGED <<threads, conds, heapFlags, global, goal, gaveUp, doomed, collector,
                 live, marked, eternal, rooted, holder>>

\* The unlocked test of heap->mustYield
TestYield(t) ==
  /\ pc[t] = "test"
  /\ IF mustYield THEN Goto(t, "enter") /\ UNCHANGED <<ret, mode>>
     ELSE Back(t) /\ mode' = [mode EXCEPT ![t] = IF @ = "sweep" THEN "none" ELSE @]
  /\ UNCHANGED <<threads, conds, heapFlags, global, goal, gaveUp, doomed, collector, flags>>
  /\ MemoryUnchanged

\* One round of the loop in mprYield, with the lock
Round(t) ==
  IF mustYield
  THEN /\ yielded' = yielded \cup {t} /\ waiting' = waiting \cup {t}
       /\ Goto(t, "signal") /\ UNCHANGED ret
  ELSE UNCHANGED <<yielded, waiting>> /\ Back(t)

EnterYield(t) ==
  /\ pc[t] = "enter"
  /\ forSweeper' = IF mode[t] = "sweep" THEN forSweeper \cup {t} ELSE forSweeper \ {t}
  /\ mode' = [mode EXCEPT ![t] = IF @ = "sweep" THEN "none" ELSE @]
  /\ Round(t)
  /\ UNCHANGED <<threads, conds, heapFlags, global, goal, gaveUp, doomed, collector,
                 sticky, noyield>>
  /\ MemoryUnchanged

\* Signal ts->pauseThreads, which only shortens the collector's wait of 20 ms.  A
\* thread in a sticky yield goes on at once.
SignalYield(t) ==
  /\ pc[t] = "signal"
  /\ IF t \in sticky
     THEN waiting' = waiting \ {t} /\ Back(t)
     ELSE Goto(t, "wait") /\ UNCHANGED <<waiting, ret>>
  /\ YieldUnchanged /\ MemoryUnchanged
  /\ UNCHANGED <<yielded, sticky, noyield, forSweeper, tcond>>

\* Its condition is triggered, now or earlier: a resume may have found the thread
\* between the two assignments to waiting of a sticky yield.
Wait(t) ==
  /\ pc[t] = "wait" /\ t \in tcond
  /\ tcond' = tcond \ {t}
  /\ Goto(t, "woken")
  /\ YieldUnchanged /\ MemoryUnchanged
  /\ UNCHANGED <<ret, flags>>

Woken(t) ==
  /\ pc[t] = "woken"
  /\ IF t \notin yielded \/ ~mustYield
     THEN waiting' = waiting \ {t} /\ yielded' = yielded \ {t} /\ Back(t)
     ELSE Goto(t, "signal") /\ UNCHANGED <<waiting, yielded, ret>>
  /\ YieldUnchanged /\ MemoryUnchanged
  /\ UNCHANGED <<sticky, noyield, forSweeper, tcond>>

\* Faulty: does not look whether marking has begun.
ResetYield_Unseen(t, back) ==
  /\ sticky' = sticky \ {t} /\ yielded' = yielded \ {t}
  /\ Goto(t, back)
  /\ UNCHANGED <<ret, waiting, noyield, forSweeper>>

\* mprResetYield: when marking has begun, yield once more before going on to back.
ResetYield(t, back) ==
  /\ sticky' = sticky \ {t} /\ yielded' = yielded \ {t}
  /\ IF t \in sticky /\ marking
     THEN Goto(t, "test") /\ ret' = [ret EXCEPT ![t] = back]
     ELSE Goto(t, back) /\ UNCHANGED ret
  /\ UNCHANGED <<waiting, noyield, forSweeper>>

\* The blocking call of a thread returns.
Unblock(t) ==
  /\ pc[t] = "blocked"
  /\ ResetYield(t, "run")
  /\ YieldUnchanged /\ MemoryUnchanged /\ UNCHANGED <<tcond>>

SetThreadYield(t) ==
  /\ Running(t) /\ t \in NoYielders
  /\ noyield' = IF t \in noyield THEN noyield \ {t} ELSE noyield \cup {t}
  /\ YieldUnchanged /\ MemoryUnchanged
  /\ UNCHANGED <<pc, ret, yielded, sticky, waiting, forSweeper, tcond>>

-----------------------------------------------------------------------------
(* mprGC and the requests of the allocator *)

RequestUnchanged == UNCHANGED <<threads, flags, tcond, collector>>

\* mprGC, which blocks in a sticky yield; needGC decides about the normal kind.
CollectBlocking(t) ==
  /\ Running(t)
  /\ \E kind \in Kinds \cap {"complete", "forced", "normal"} : mode' = [mode EXCEPT ![t] = kind]
  /\ BeginYield(t, TRUE, "target")
  /\ UNCHANGED <<threads, conds, heapFlags, global, goal, gaveUp, doomed, collector,
                 live, marked, eternal, rooted, holder>>

\* Faulty: waits for the collection that is under way.
ReadTarget_Current(t) ==
  /\ pc[t] = "target" /\ global = None
  /\ IF mode[t] = "complete"
     THEN goal' = [goal EXCEPT ![t] = "sweep"] /\ doomed' = [doomed EXCEPT ![t] = Garbage]
     ELSE UNCHANGED <<goal, doomed>>
  /\ LET next == IF mode[t] = "complete" THEN "await" ELSE "reset" IN
       Goto(t, "request") /\ ret' = [ret EXCEPT ![t] = next]
  /\ UNCHANGED <<mode, gaveUp, gcCond, heapFlags, global>>
  /\ MemoryUnchanged /\ RequestUnchanged

\* Read which collection to wait for, under the global lock: one that starts later.
\* needGC decides about the normal kind.
ReadTarget(t) ==
  /\ pc[t] = "target" /\ global = None
  /\ IF mode[t] = "complete"
     THEN /\ goal' = [goal EXCEPT ![t] = "start"]
          /\ doomed' = [doomed EXCEPT ![t] = Garbage]
     ELSE UNCHANGED <<goal, doomed>>
  /\ \E needed \in IF mode[t] = "normal" THEN BOOLEAN ELSE {TRUE} :
       LET next == IF mode[t] = "complete" THEN "await" ELSE "reset" IN
       IF needed
       THEN Goto(t, "request") /\ ret' = [ret EXCEPT ![t] = next]
       ELSE Goto(t, next) /\ UNCHANGED ret
  /\ UNCHANGED <<mode, gaveUp, gcCond, heapFlags, global>>
  /\ MemoryUnchanged /\ RequestUnchanged

\* An allocation finds that a collection is worth while, or mprGC does not block.
Request(t) ==
  /\ Running(t)
  /\ \E kind \in Kinds \cap {"forced", "normal"} : mode' = [mode EXCEPT ![t] = kind]
  /\ Goto(t, "request")
  /\ UNCHANGED <<ret, gcCond, heapFlags, global, goal, gaveUp, doomed>>
  /\ MemoryUnchanged /\ RequestUnchanged

\* triggerGC, which takes no lock: it tests and sets gcRequested ...
Trigger(t) ==
  /\ pc[t] = "request"
  /\ IF enabled /\ (mode[t] # "normal" \/ ~requested)
     THEN requested' = TRUE /\ Goto(t, "insist") /\ UNCHANGED ret
     ELSE UNCHANGED requested /\ Back(t)
  /\ mode' = [mode EXCEPT ![t] = IF ret[t] = "run" THEN "none" ELSE @]
  /\ UNCHANGED <<gcCond, mustYield, marking, enabled, global, goal, gaveUp, doomed>>
  /\ MemoryUnchanged /\ RequestUnchanged

\* ... then sets mustYield ...
Insist(t) ==
  /\ pc[t] = "insist"
  /\ mustYield' = TRUE
  /\ Goto(t, "alert")
  /\ UNCHANGED <<ret, gcCond, marking, requested, enabled, global, gcVars>>
  /\ MemoryUnchanged /\ RequestUnchanged

\* ... and signals the collector.
Alert(t) ==
  /\ pc[t] = "alert"
  /\ gcCond' = TRUE
  /\ Back(t)
  /\ UNCHANGED <<heapFlags, global, gcVars>>
  /\ MemoryUnchanged /\ RequestUnchanged

\* The loop of a complete collection: ask again whenever no request is pending.
Await(t) ==
  /\ pc[t] = "await"
  /\ IF goal[t] = "done" \/ t \in gaveUp \/ ~enabled
     THEN Goto(t, "reset") /\ UNCHANGED ret
     ELSE ~requested /\ Goto(t, "request") /\ ret' = [ret EXCEPT ![t] = "await"]
  /\ UNCHANGED <<gcCond, heapFlags, global, gcVars>>
  /\ MemoryUnchanged /\ RequestUnchanged

\* mprGC ends the sticky yield, and yields again unless the collection is complete.
Reset(t) ==
  /\ pc[t] = "reset"
  /\ ResetYield(t, IF mode[t] = "complete" THEN "run" ELSE "again")
  /\ mode' = [mode EXCEPT ![t] = "none"] /\ goal' = [goal EXCEPT ![t] = "none"]
  /\ gaveUp' = gaveUp \ {t} /\ doomed' = [doomed EXCEPT ![t] = {}]
  /\ UNCHANGED <<threads, conds, heapFlags, global, collector>>
  /\ MemoryUnchanged

Again(t) ==
  /\ pc[t] = "again"
  /\ BeginYield(t, FALSE, "run")
  /\ YieldUnchanged
  /\ UNCHANGED <<tcond, live, marked, eternal, rooted, holder>>

EnableGC(t) ==
  /\ Running(t) /\ t \in Switchers
  /\ enabled' = ~enabled
  /\ UNCHANGED <<pc, ret, gcCond, mustYield, marking, requested, global, gcVars>>
  /\ MemoryUnchanged /\ RequestUnchanged

-----------------------------------------------------------------------------
(* Threads come and go *)

ThreadUnchanged ==
  UNCHANGED <<ret, flags, conds, heapFlags, global, gcVars, collector, live, marked,
              eternal, rooted, holder>>

\* mprCreateThread lists the thread, which runs from then on.
StartThread(t) ==
  /\ Running(t)
  /\ \E u \in Threads \ threads :
       threads' = threads \cup {u} /\ Goto(u, "run")
  /\ UNCHANGED local /\ ThreadUnchanged

\* threadProc: leaving the list is the last thing a thread does.
ExitThread(t) ==
  /\ Running(t) /\ t # Main /\ t \notin noyield
  /\ \A b \in Blocks : holder[b] # t
  /\ threads' = threads \ {t}
  /\ Goto(t, "out")
  /\ local' = [local EXCEPT ![t] = {}]
  /\ ThreadUnchanged

-----------------------------------------------------------------------------
(* Blocks *)

UseUnchanged == UNCHANGED <<threads, ret, flags, conds, heapFlags, gcVars, collector>>

\* A new block has the current mark.
Allocate(t) ==
  /\ Running(t)
  /\ \E b \in Blocks \ (live \cup eternal) :
       /\ live' = live \cup {b} /\ marked' = marked \cup {b}
       /\ local' = [local EXCEPT ![t] = @ \cup {b}]
  /\ UNCHANGED <<pc, global, eternal, rooted, holder>> /\ UseUnchanged

\* Make a block reachable, or unreachable, or get it from another block.
Link(t) ==
  /\ Running(t)
  /\ \E b \in local[t] \ rooted : rooted' = rooted \cup {b}
  /\ UNCHANGED <<pc, global, live, marked, eternal, local, holder>> /\ UseUnchanged

Unlink(t) ==
  /\ Running(t)
  /\ \E b \in rooted : rooted' = rooted \ {b}
  /\ UNCHANGED <<pc, global, live, marked, eternal, local, holder>> /\ UseUnchanged

Fetch(t) ==
  /\ Running(t)
  /\ \E b \in (rooted \cup {h \in Blocks : holder[h] = t}) \ local[t] :
       local' = [local EXCEPT ![t] = @ \cup {b}]
  /\ UNCHANGED <<pc, global, live, marked, eternal, rooted, holder>> /\ UseUnchanged

\* mprHold: the thread may refer to the block across yields.
Hold(t) ==
  /\ Running(t)
  /\ \E b \in local[t] \ eternal :
       eternal' = eternal \cup {b} /\ holder' = [holder EXCEPT ![b] = t]
  /\ UNCHANGED <<pc, global, live, marked, rooted, local>> /\ UseUnchanged

\* A foreign thread creates an event.  The allocator takes a free block, sets eternal
\* and reads the current mark ...
TakeBlock(f) ==
  /\ pc[f] = "out"
  /\ \E b \in Blocks \ (live \cup eternal) :
       eternal' = eternal \cup {b} /\ holder' = [holder EXCEPT ![b] = f]
  /\ Goto(f, "taken")
  /\ UNCHANGED <<global, live, marked, rooted, local>> /\ UseUnchanged

\* ... and writes it, while a collection may flip the mark, and clears free last ...
CreateHeld(f) ==
  /\ pc[f] \in {"taken", "stale"}
  /\ LET mine == {b \in Blocks : holder[b] = f} IN
       /\ live' = live \cup mine
       /\ marked' = IF pc[f] = "stale" THEN marked \ mine ELSE marked \cup mine
  /\ Goto(f, "made")
  /\ UNCHANGED <<global, eternal, rooted, local, holder>> /\ UseUnchanged

\* ... and queues it, at any time: the mark phase may see it, or not.
LinkHeld(f) ==
  /\ pc[f] = "made"
  /\ rooted' = rooted \cup {b \in Blocks : holder[b] = f}
  /\ Goto(f, "linked")
  /\ UNCHANGED <<global, live, marked, eternal, local, holder>> /\ UseUnchanged

\* mprRelease takes the global lock, which excludes the mark phase ...
ReleaseLock(a) ==
  /\ pc[a] = IF a \in Foreign THEN "linked" ELSE "run"
  /\ \E b \in Blocks : holder[b] = a
  /\ global = None /\ global' = a
  /\ Goto(a, "stamp")
  /\ MemoryUnchanged /\ UseUnchanged

\* Faulty: leaves the mark alone.
Stamp_Unmarked(a) ==
  /\ pc[a] = "stamp" /\ Goto(a, "letgo")
  /\ UNCHANGED global /\ MemoryUnchanged /\ UseUnchanged

\* ... gives the block the current mark ...
Stamp(a) ==
  /\ pc[a] = "stamp"
  /\ marked' = marked \cup {b \in Blocks : holder[b] = a}
  /\ Goto(a, "letgo")
  /\ UNCHANGED <<global, live, eternal, rooted, local, holder>> /\ UseUnchanged

\* ... and clears eternal last.
LetGo(a) ==
  /\ pc[a] = "letgo"
  /\ eternal' = eternal \ {b \in Blocks : holder[b] = a}
  /\ holder' = [b \in Blocks |-> IF holder[b] = a THEN None ELSE holder[b]]
  /\ global' = None
  /\ Goto(a, IF a \in Foreign THEN "out" ELSE "run")
  /\ UNCHANGED <<live, marked, rooted, local>> /\ UseUnchanged

-----------------------------------------------------------------------------
(* The collector: sweeperThread and markAndSweep *)

Step(from, to) == spc = from /\ spc' = to

OthersUnchanged == UNCHANGED <<threads, ret, sticky, waiting, noyield, enabled, mode,
                               eternal, rooted, holder>>
CollectorUnchanged == UNCHANGED pc /\ OthersUnchanged
SyncUnchanged == UNCHANGED <<yielded, forSweeper, tcond>>
HeapUnchanged == UNCHANGED <<live, marked, local, unswept, probe, goal, doomed>>

\* Faulty: leaves the request pending when it goes to sleep.
Top_Pending ==
  /\ Step("top", IF mustYield THEN "choose" ELSE "idle")
  /\ UNCHANGED <<requested, mustYield, marking, gcCond, global, gaveUp, late, few>>
  /\ SyncUnchanged /\ HeapUnchanged /\ CollectorUnchanged

\* The test of mustYield at the head of the loop
Top ==
  /\ IF mustYield THEN Step("top", "choose") /\ UNCHANGED requested
                  ELSE Step("top", "idle") /\ requested' = FALSE
  /\ UNCHANGED <<mustYield, marking, gcCond, global, gaveUp, late, few>>
  /\ SyncUnchanged /\ HeapUnchanged /\ CollectorUnchanged

Idle ==
  /\ Step("idle", "choose")
  /\ gcCond /\ gcCond' = FALSE
  /\ UNCHANGED <<mustYield, marking, requested, global, gaveUp, late, few>>
  /\ SyncUnchanged /\ HeapUnchanged /\ CollectorUnchanged

\* The number of threads is read before the pause.
Choose ==
  /\ IF enabled THEN Step("choose", "pause") /\ few' = (Cardinality(threads) + 1 < Crowd)
                ELSE Step("choose", "release") /\ UNCHANGED few
  /\ UNCHANGED <<mustYield, marking, requested, gcCond, global, gaveUp, late>>
  /\ SyncUnchanged /\ HeapUnchanged /\ CollectorUnchanged

\* pauseThreads
Pause ==
  /\ Step("pause", "poll")
  /\ mustYield' = TRUE
  /\ UNCHANGED <<marking, requested, gcCond, global, gaveUp, late, few>>
  /\ SyncUnchanged /\ HeapUnchanged /\ CollectorUnchanged

\* The first thread of the list that has not yielded decides.
Poll ==
  /\ \/ threads \subseteq yielded /\ Step("poll", "lock") /\ marking' = TRUE
     \/ /\ \E t \in threads \ yielded : Step("poll", IF t \in noyield THEN "abandon" ELSE "nap")
        /\ UNCHANGED marking
  /\ late' = (late /\ spc' = "nap")
  /\ UNCHANGED <<mustYield, requested, gcCond, global, gaveUp, few>>
  /\ SyncUnchanged /\ HeapUnchanged /\ CollectorUnchanged

\* A wait of at most 20 ms, and MPR_TIMEOUT_GC_SYNC in all
Nap ==
  /\ IF late THEN Step("nap", "abandon") ELSE Step("nap", "poll")
  /\ late' = FALSE
  /\ UNCHANGED <<mustYield, marking, requested, gcCond, global, gaveUp, few>>
  /\ SyncUnchanged /\ HeapUnchanged /\ CollectorUnchanged

TimeUp ==
  /\ spc \in {"poll", "nap"} /\ ~late /\ late' = TRUE
  /\ UNCHANGED <<spc, mustYield, marking, requested, gcCond, global, gaveUp, few>>
  /\ SyncUnchanged /\ HeapUnchanged /\ CollectorUnchanged

\* Faulty: does not count the collections that are given up.
Abandon_Uncounted ==
  /\ Step("abandon", "release")
  /\ UNCHANGED <<gaveUp, mustYield, marking, requested, gcCond, global, late, few>>
  /\ SyncUnchanged /\ HeapUnchanged /\ CollectorUnchanged

Abandon ==
  /\ Step("abandon", "release")
  /\ gaveUp' = {t \in Threads : goal[t] # "none"}
  /\ UNCHANGED <<mustYield, marking, requested, gcCond, global, late, few>>
  /\ SyncUnchanged /\ HeapUnchanged /\ CollectorUnchanged

MarkLock ==
  /\ Step("lock", "flip")
  /\ global = None /\ global' = Sweeper
  /\ UNCHANGED <<mustYield, marking, requested, gcCond, gaveUp, late, few>>
  /\ SyncUnchanged /\ HeapUnchanged /\ CollectorUnchanged

\* The flip of heap->mark makes every block unmarked and starts the collection.
Flip ==
  /\ Step("flip", "mark")
  /\ marked' = {}
  /\ pc' = [a \in Actors |-> IF pc[a] = "taken" THEN "stale" ELSE pc[a]]
  /\ goal' = [t \in Threads |-> IF goal[t] = "start" THEN "sweep" ELSE goal[t]]
  /\ UNCHANGED <<mustYield, marking, requested, gcCond, global, gaveUp, late, few,
                 live, local, unswept, probe, doomed>>
  /\ SyncUnchanged /\ OthersUnchanged

\* markRoots
Mark ==
  /\ Step("mark", "unlock")
  /\ marked' = marked \cup rooted
  /\ UNCHANGED <<mustYield, marking, requested, gcCond, global, gaveUp, late, few,
                 live, local, unswept, probe, goal, doomed>>
  /\ SyncUnchanged /\ CollectorUnchanged

\* The collection goes on with the sweep, before or after it resumes the threads.
MarkUnlock ==
  /\ Step("unlock", IF few THEN "resume" ELSE "sweep")
  /\ marking' = FALSE /\ global' = None
  /\ unswept' = Blocks
  /\ UNCHANGED <<mustYield, requested, gcCond, gaveUp, late, few, live, marked, local,
                 probe, goal, doomed>>
  /\ SyncUnchanged /\ CollectorUnchanged

\* Faulty: relies on mustYield and signals nobody.
ResumeThese_Silent(R) ==
  LET S == R \cap threads \cap yielded IN
  /\ mustYield' = FALSE
  /\ yielded' = yielded \ (S \ sticky)
  /\ forSweeper' = forSweeper \ S
  /\ UNCHANGED tcond

\* resumeThreads for the yielded threads in R
ResumeThese(R) ==
  LET S == R \cap threads \cap yielded IN
  /\ mustYield' = FALSE
  /\ yielded' = yielded \ (S \ sticky)
  /\ forSweeper' = forSweeper \ S
  /\ tcond' = tcond \cup (S \cap waiting)

ResumeUnchanged ==
  /\ few' = (few /\ spc' # "top")
  /\ UNCHANGED <<marking, requested, gcCond, global, gaveUp, late>>
  /\ HeapUnchanged /\ CollectorUnchanged

\* Nothing was collected: resume all.
Resume ==
  Step("release", "top") /\ ResumeThese(Threads) /\ ResumeUnchanged

ResumeYielded ==
  /\ Step("resume", IF few THEN "sweep" ELSE "finish")
  /\ ResumeThese(Threads \ forSweeper) /\ ResumeUnchanged

ResumeWaiting ==
  Step("finish", "top") /\ ResumeThese(forSweeper) /\ ResumeUnchanged

\* The sweep looks at a block: it keeps an eternal one, and gives it the mark ...
Look ==
  /\ spc = "sweep" /\ probe = None
  /\ \E b \in unswept :
       /\ unswept' = unswept \ {b}
       /\ IF b \in eternal THEN marked' = marked \cup {b} /\ UNCHANGED probe
                           ELSE probe' = b /\ UNCHANGED marked
  /\ UNCHANGED <<spc, mustYield, marking, requested, gcCond, global, gaveUp, late, few,
                 live, local, goal, doomed>>
  /\ SyncUnchanged /\ CollectorUnchanged

\* ... and frees another one, if it is allocated and has not the current mark.
Check ==
  /\ spc = "sweep" /\ probe # None
  /\ live' = IF probe \in marked THEN live ELSE live \ {probe}
  /\ doomed' = [t \in Threads |-> doomed[t] \cap live']
  /\ probe' = None
  /\ UNCHANGED <<spc, mustYield, marking, requested, gcCond, global, gaveUp, late, few,
                 marked, local, unswept, goal>>
  /\ SyncUnchanged /\ CollectorUnchanged

Swept ==
  /\ probe = None /\ unswept = {}
  /\ Step("sweep", IF few THEN "finish" ELSE "resume")
  /\ goal' = [t \in Threads |-> IF goal[t] = "sweep" THEN "done" ELSE goal[t]]
  /\ UNCHANGED <<mustYield, marking, requested, gcCond, global, gaveUp, late, few, live,
                 marked, local, unswept, probe, doomed>>
  /\ SyncUnchanged /\ CollectorUnchanged

-----------------------------------------------------------------------------

\* What a thread does when it likes
Choice(t) ==
  \/ Yield(t) \/ Unblock(t) \/ SetThreadYield(t)
  \/ CollectBlocking(t) \/ Request(t) \/ EnableGC(t)
  \/ StartThread(t) \/ ExitThread(t)
  \/ Allocate(t) \/ Link(t) \/ Unlink(t) \/ Fetch(t) \/ Hold(t)
  \/ Running(t) /\ ReleaseLock(t)

\* What it then goes through
Program(t) ==
  \/ TestYield(t) \/ EnterYield(t) \/ SignalYield(t) \/ Wait(t) \/ Woken(t)
  \/ ReadTarget(t) \/ Trigger(t) \/ Insist(t) \/ Alert(t) \/ Await(t)
  \/ Reset(t) \/ Again(t) \/ Stamp(t) \/ LetGo(t)

ForeignStep(f) ==
  \/ TakeBlock(f) \/ CreateHeld(f) \/ LinkHeld(f)
  \/ ReleaseLock(f) \/ Stamp(f) \/ LetGo(f)

Collect ==
  \/ Top \/ Idle \/ Choose \/ Pause \/ Poll \/ Nap \/ TimeUp \/ Abandon
  \/ MarkLock \/ Flip \/ Mark \/ MarkUnlock
  \/ Resume \/ ResumeYielded \/ ResumeWaiting \/ Look \/ Check \/ Swept

Next ==
  \/ \E t \in Threads : Choice(t) \/ Program(t)
  \/ \E f \in Foreign : ForeignStep(f)
  \/ Collect

Spec == Init /\ [][Next]_vars

\* The system runs the collector, its clock and every thread that can go on; nobody
\* has to allocate, yield or return from a blocking call.
Fairness ==
  /\ \A t \in Threads : WF_vars(Program(t))
  /\ \A f \in Foreign : WF_vars((Stamp(f) \/ LetGo(f)))
  /\ WF_vars(Collect) /\ WF_vars(TimeUp)

FairSpec == Spec /\ Fairness

-----------------------------------------------------------------------------
(* What must hold *)

Labels == {"out", "run", "blocked", "test", "enter", "signal", "wait", "woken", "target",
           "request", "insist", "alert", "await", "reset", "again",
           "taken", "stale", "made", "linked", "stamp", "letgo"}
Returns == {"run", "blocked", "target", "await", "reset", "again"}
CollectorLabels == {"top", "idle", "choose", "pause", "poll", "nap", "abandon", "lock",
                    "flip", "mark", "unlock", "resume", "finish", "release", "sweep"}

\* Every variable has its type.
TypeOK ==
  /\ threads \subseteq Threads
  /\ pc \in [Actors -> Labels] /\ ret \in [Threads -> Returns]
  /\ mode \in [Threads -> {"none", "normal", "forced", "complete", "sweep"}]
  /\ yielded \subseteq threads /\ sticky \subseteq yielded /\ waiting \subseteq threads
  /\ noyield \subseteq Threads /\ forSweeper \subseteq Threads /\ tcond \subseteq Threads
  /\ {gcCond, mustYield, marking, requested, enabled, late, few} \subseteq BOOLEAN
  /\ global \in Actors \cup {Sweeper, None}
  /\ goal \in [Threads -> {"none", "start", "sweep", "done"}] /\ gaveUp \subseteq Threads
  /\ spc \in CollectorLabels
  /\ live \subseteq Blocks /\ marked \subseteq Blocks /\ eternal \subseteq Blocks
  /\ rooted \subseteq Blocks /\ local \in [Threads -> SUBSET Blocks]
  /\ holder \in [Blocks -> Actors \cup {None}]
  /\ unswept \subseteq Blocks /\ probe \in Blocks \cup {None}
  /\ doomed \in [Threads -> SUBSET Blocks]

\* A thread at one of these points may use the heap.
UsesHeap(t) ==
  \/ pc[t] \in {"run", "stamp", "letgo"}
  \/ pc[t] \in {"request", "insist", "alert"} /\ ret[t] = "run"

\* While the collector marks, no thread of the MPR uses the heap: pauseThreads stops them
\* all, and neither a yield that ends nor one that begins escapes it.
MarkingExcludes == marking => \A t \in threads : ~UsesHeap(t)

\* No block is freed that a thread may still refer to, that can be reached, or that is
\* held: not by the sweep beside the running threads, and not while a foreign thread
\* creates a held block, queues it and releases it at any moment of a collection.
NoUseAfterFree ==
  /\ \A t \in Threads : local[t] \subseteq live
  /\ rooted \subseteq live
  /\ \A b \in Blocks : holder[b] # None /\ pc[holder[b]] \notin {"taken", "stale"} => b \in live

\* mprGC(MPR_GC_COMPLETE) returns after a collection that began after the call was made,
\* and which has freed all the garbage there was then.
CompleteSwept == \A t \in Threads : goal[t] = "done" => doomed[t] = {}

\* The collector does not sleep while threads must yield or a collection is requested,
\* unless who asks for it is about to wake it: no thread waits for nothing, and the flag
\* that keeps the allocator from asking again is not left behind.
NoLostRequest ==
  spc = "idle" /\ (mustYield \/ requested) =>
    gcCond \/ \E t \in Threads : pc[t] \in {"insist", "alert"}

\* A thread that has yielded to the collector goes on again, whatever the others do:
\* each collection is finished or given up, and its resume finds the thread.
Stopped(t) == pc[t] \in {"enter", "signal", "wait", "woken"}
YieldReturns == \A t \in Threads : Stopped(t) ~> ~Stopped(t)

\* A complete collection returns.
CompleteReturns == \A t \in Threads : pc[t] = "await" ~> pc[t] \in {"reset", "run"}

=============================================================================
