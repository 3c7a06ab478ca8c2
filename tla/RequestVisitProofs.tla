------------------------- MODULE RequestVisitProofs -------------------------
(***************************************************************************)
(* Proofs about Request that need to know where the loop of a stream's     *)
(* httpSetState is on the stack: the states that a request is taken        *)
(* through, its notification, and the closing of its handler.  The same    *)
(* knowledge of the stack shows what its last calls are, and with them     *)
(* that output is awaited.                                                 *)
(***************************************************************************)
EXTENDS RequestProofs

-----------------------------------------------------------------------------
(* The inductive invariant *)

\* A loop in progress is one call on the stack, whatever its callees have put above it.
LoopOps == {"First", "Parsed", "Content", "Ready", "Finalized", "Update"}
Loops(i, s) == todo[i].op \in LoopOps /\ todo[i].s = s

\* What only processParsed and processReady call, and nobody else but each other
PartOps == {"Route", "Open", "StartHandler"}

\* What is only called when no loop is in progress
LowOps == {"ServiceEnd", "DestroyNet", "RemoveStream", "DestroyStream", "FrameDone", "FrameClosed"}

OneLoop == \A i, j \in 1..Len(todo) : \A s \in Streams : Loops(i, s) /\ Loops(j, s) => i = j

\* What holds of a call c of the loop of a stream that is in the state r
TurnOK(c, r) ==
  /\ r.setting
  /\ c.op = "First" => r.state = First
  /\ c.op = "Parsed" => r.state = Parsed
  /\ c.op = "Content" => r.state = Content
  /\ c.op = "Ready" => r.state = Ready
  /\ c.op = "Finalized" => r.state = Finalized
  /\ c.op = "Update" => c.n <= r.state + 1 \/ (c.n = Ready /\ r.state = Parsed /\ r.disconnect)

\* What holds of the i-th call of the stack
WaitOK(i) ==
  LET c == todo[i]
  IN /\ c.op \in LoopOps => TurnOK(c, stream[c.s])
     /\ c.op \in PartOps => stream[c.s].state \in {Parsed, Ready} /\ \E j \in 1..Len(todo) : j > i /\ Loops(j, c.s)
     /\ c.op \in LowOps => \A j \in 1..Len(todo) : j > i => todo[j].op \notin LoopOps

Missed(s) == (Begin..stream[s].state) \ seen[s].states

\* What holds of a stream
HandlerOK(s) ==
  tx[s].opened \/ tx[s].working =>
    \/ stream[s].state \in Parsed..Running
    \/ stream[s].state = Finalized /\ todo # <<>> /\ Head(todo).op = "Finalized" /\ Head(todo).s = s
ReportOK(s) ==
  /\ seen[s].done = IF stream[s].completed THEN 1 ELSE 0
  /\ stream[s].state = Complete /\ ~stream[s].completed /\ ~stream[s].destroyed
       => \E i \in 1..Len(todo) : todo[i].op = "Update" /\ todo[i].s = s
PathOK(s) == ~stream[s].destroyed => Missed(s) \subseteq (IF stream[s].disconnect THEN {Content} ELSE {})
VisitOK(s) == HandlerOK(s) /\ ReportOK(s) /\ PathOK(s)

VInv ==
  /\ OneLoop
  /\ \A i \in 1..Len(todo) : WaitOK(i)
  /\ \A s \in Streams : VisitOK(s)

-----------------------------------------------------------------------------
(* Steps that leave the loops alone *)

\* What a step keeps of a stream
SameStream(s) ==
  /\ stream'[s].state = stream[s].state /\ stream'[s].setting = stream[s].setting
  /\ stream'[s].completed = stream[s].completed /\ stream'[s].destroyed = stream[s].destroyed
  /\ stream[s].disconnect => stream'[s].disconnect
  /\ seen'[s].done = seen[s].done /\ seen'[s].states = seen[s].states
SameHandler(s) == (tx'[s].opened => tx[s].opened) /\ (tx'[s].working => tx[s].working)
SameStreams == \A s \in Streams : SameStream(s)
SameHandlers == \A s \in Streams : SameHandler(s)

\* A call that may be made at any time
Loose == {c \in Calls : c.op \notin LoopOps \cup PartOps \cup LowOps}

\* How the stack is changed under the top: what was there is there still, and the rest is new.
LEMMA Pushed == ASSUME TypeOK, todo # <<>>, NEW x \in Seq(Calls), Then(x)
PROVE  /\ Len(todo) \in Nat /\ Len(todo) > 0 /\ Len(x) \in Nat
       /\ \A i \in 1..Len(x) : i \in 1..Len(todo') /\ todo'[i] = x[i]
       /\ \A i \in 2..Len(todo) : (i - 1 + Len(x)) \in 1..Len(todo') /\ todo'[i - 1 + Len(x)] = todo[i]
       /\ \A i \in 1..Len(todo') : i > Len(x) => (i + 1 - Len(x)) \in 2..Len(todo) /\ todo'[i] = todo[i + 1 - Len(x)]
       /\ todo[1] = Head(todo) /\ 1 \in 1..Len(todo)
<1>1. todo \in Seq(Calls)
  BY DEF TypeOK
<1>2. Len(todo) \in Nat /\ Len(todo) > 0 /\ Len(x) \in Nat /\ todo[1] = Head(todo) /\ 1 \in 1..Len(todo)
  BY <1>1
<1> QED BY <1>1, <1>2, Push DEF Then

\* A call that is not of a loop leaves the loops where they are, and a part of a loop may call another one.
LEMMA SteadyKeeps ==
  ASSUME TypeOK, VInv, todo # <<>>, Head(todo).op \notin LoopOps, SameStreams,
         \A s \in Streams : SameHandler(s) \/ (s = S /\ Head(todo).op \in PartOps),
         NEW x \in Seq(Calls), Then(x),
         \A i \in 1..Len(x) : x[i] \in Loose \/ (x[i].op \in PartOps /\ x[i].s = S /\ Head(todo).op \in PartOps)
  PROVE  VInv'
<1> DEFINE L == Len(x)
<1>1. /\ \A i \in 1..L : x[i].op \notin LoopOps \cup LowOps
      /\ \A i \in 1..L : x[i].op \in PartOps => x[i].s = S /\ Head(todo).op \in PartOps
  BY DEF Loose, PartOps, LoopOps, LowOps
<1>2. /\ Len(todo) \in Nat /\ Len(todo) > 0 /\ L \in Nat
      /\ \A i \in 1..L : i \in 1..Len(todo') /\ todo'[i] = x[i]
      /\ \A i \in 2..Len(todo) : (i - 1 + L) \in 1..Len(todo') /\ todo'[i - 1 + L] = todo[i]
      /\ \A i \in 1..Len(todo') : i > L => (i + 1 - L) \in 2..Len(todo) /\ todo'[i] = todo[i + 1 - L]
      /\ todo[1] = Head(todo) /\ 1 \in 1..Len(todo)
  BY <1>1, Pushed
<1> HIDE DEF L
<1>3. \A i \in 1..Len(todo') : todo'[i].op \in LoopOps \cup LowOps => i > L
  <2> TAKE i \in 1..Len(todo')
  <2>1. CASE i > L
    BY <2>1
  <2>2. CASE ~(i > L)
    <3>1. i \in 1..L
      BY <1>2, <2>2
    <3>2. todo'[i] = x[i]
      BY <1>2, <3>1
    <3>3. x[i].op \notin LoopOps \cup LowOps
      BY <1>1, <3>1
    <3> QED BY <3>2, <3>3
  <2> QED BY <2>1, <2>2
<1>4. \A i \in 1..Len(todo) : todo[i] \in Calls /\ todo[i].s \in Streams
  <2> TAKE i \in 1..Len(todo)
  <2>1. todo[i] \in Calls
    BY DEF TypeOK
  <2> QED BY <2>1 DEF Calls
<1>5. OneLoop'
  <2> SUFFICES ASSUME NEW i \in 1..Len(todo'), NEW j \in 1..Len(todo'), NEW s \in Streams, Loops(i, s)', Loops(j, s)'
               PROVE  i = j
    BY DEF OneLoop
  <2>1. i > L /\ j > L
    BY <1>3 DEF Loops
  <2>2. /\ (i + 1 - L) \in 1..Len(todo) /\ (j + 1 - L) \in 1..Len(todo)
        /\ todo'[i] = todo[i + 1 - L] /\ todo'[j] = todo[j + 1 - L]
    BY <1>2, <2>1
  <2>3. Loops(i + 1 - L, s) /\ Loops(j + 1 - L, s)
    BY <2>2 DEF Loops
  <2>4. i + 1 - L = j + 1 - L
    BY <2>2, <2>3 DEF VInv, OneLoop
  <2> QED BY <1>2, <2>4
<1>6. ASSUME NEW i \in 1..Len(todo')
      PROVE  WaitOK(i)'
  <2> DEFINE k == i + 1 - L
  <2>1. CASE i <= L
    <3>1. ~(i > L) /\ i \in 1..L
      BY <1>2, <2>1
    <3>2. todo'[i].op \notin LoopOps \cup LowOps
      BY <1>3, <3>1
    <3>3. todo'[i].op \in PartOps =>
            /\ stream'[todo'[i].s].state \in {Parsed, Ready}
            /\ \E j \in 1..Len(todo') : j > i /\ todo'[j].op \in LoopOps /\ todo'[j].s = todo'[i].s
      <4> HAVE todo'[i].op \in PartOps
      <4>1. todo'[i].s = S /\ Head(todo).op \in PartOps /\ S = todo[1].s
        <5>1. todo'[i] = x[i] /\ todo[1] = Head(todo)
          BY <1>2, <3>1
        <5>2. x[i].op \in PartOps => x[i].s = S /\ Head(todo).op \in PartOps
          BY <1>1, <3>1
        <5> QED BY <5>1, <5>2 DEF S
      <4>2. WaitOK(1) /\ S \in Streams
        BY <1>2, <1>4, <4>1 DEF VInv
      <4>3. stream[S].state \in {Parsed, Ready} /\ \E j \in 1..Len(todo) : j > 1 /\ Loops(j, S)
        BY <1>2, <4>1, <4>2 DEF WaitOK
      <4>4. PICK j \in 1..Len(todo) : j > 1 /\ Loops(j, S)
        BY <4>3
      <4>5. j \in 2..Len(todo) /\ j - 1 + L > i
        BY <1>2, <2>1, <4>4
      <4>6. (j - 1 + L) \in 1..Len(todo') /\ todo'[j - 1 + L] = todo[j]
        BY <1>2, <4>5
      <4>7. todo'[j - 1 + L].op \in LoopOps /\ todo'[j - 1 + L].s = todo'[i].s
        BY <4>1, <4>4, <4>6 DEF Loops
      <4>8. stream'[todo'[i].s].state \in {Parsed, Ready}
        BY <4>1, <4>2, <4>3 DEF SameStreams, SameStream
      <4> QED BY <4>5, <4>6, <4>7, <4>8
    <3> QED BY <3>2, <3>3 DEF WaitOK, Loops
  <2>2. CASE i > L
    <3>1. k \in 2..Len(todo) /\ todo'[i] = todo[k]
      BY <1>2, <2>2
    <3>2. k \in 1..Len(todo) /\ WaitOK(k)
      BY <3>1 DEF VInv
    <3>3. todo[k].s \in Streams
      BY <1>4, <3>2
    <3>4. todo'[i].op \in LoopOps => TurnOK(todo'[i], stream'[todo'[i].s])
      <4>1. todo[k].op \in LoopOps => TurnOK(todo[k], stream[todo[k].s])
        BY <3>2 DEF WaitOK
      <4>2. SameStream(todo[k].s)
        BY <3>3 DEF SameStreams
      <4>3. todo[k].op \in LoopOps => TurnOK(todo[k], stream'[todo[k].s])
        BY <4>1, <4>2 DEF TurnOK, SameStream
      <4> QED BY <3>1, <4>3
    <3>5. todo'[i].op \in PartOps =>
            /\ stream'[todo'[i].s].state \in {Parsed, Ready}
            /\ \E j \in 1..Len(todo') : j > i /\ todo'[j].op \in LoopOps /\ todo'[j].s = todo'[i].s
      <4> HAVE todo'[i].op \in PartOps
      <4>1. PICK j \in 1..Len(todo) : j > k /\ Loops(j, todo[k].s)
        BY <3>1, <3>2 DEF WaitOK
      <4>2. j \in 2..Len(todo) /\ j - 1 + L > i
        <5>1. i \in Int /\ j \in Int /\ L \in Nat
          BY <1>2
        <5>2. k >= 2 /\ k = i + 1 - L
          BY <3>1
        <5> HIDE DEF k
        <5>3. j > k
          BY <4>1
        <5> QED BY <5>1, <5>2, <5>3
      <4>3. (j - 1 + L) \in 1..Len(todo') /\ todo'[j - 1 + L] = todo[j]
        BY <1>2, <4>2
      <4>4. todo'[j - 1 + L].op \in LoopOps /\ todo'[j - 1 + L].s = todo'[i].s
        BY <3>1, <4>1, <4>3 DEF Loops
      <4>5. stream'[todo'[i].s].state \in {Parsed, Ready}
        BY <3>1, <3>2, <3>3 DEF WaitOK, SameStreams, SameStream
      <4> QED BY <4>2, <4>3, <4>4, <4>5
    <3>6. todo'[i].op \in LowOps => \A j \in 1..Len(todo') : j > i => todo'[j].op \notin LoopOps
      <4> HAVE todo'[i].op \in LowOps
      <4> TAKE j \in 1..Len(todo')
      <4> HAVE j > i
      <4>1. j > L /\ j + 1 - L > k
        <5>1. i \in Nat /\ j \in Nat /\ L \in Nat /\ k = i + 1 - L
          BY <1>2
        <5> QED BY <2>2, <5>1
      <4>2. (j + 1 - L) \in 1..Len(todo) /\ todo'[j] = todo[j + 1 - L]
        BY <1>2, <4>1
      <4> QED BY <3>1, <3>2, <4>1, <4>2 DEF WaitOK
    <3> QED BY <3>4, <3>5, <3>6 DEF WaitOK, Loops
  <2> QED BY <1>2, <2>1, <2>2
<1>7. ASSUME NEW s \in Streams
      PROVE  VisitOK(s)'
  <2>1. VisitOK(s) /\ SameStream(s)
    BY DEF VInv, SameStreams
  <2>2. HandlerOK(s)'
    <3>1. tx[s].opened \/ tx[s].working => stream[s].state \in Parsed..Running
      BY <2>1 DEF VisitOK, HandlerOK, LoopOps
    <3>2. CASE SameHandler(s)
      BY <2>1, <3>1, <3>2 DEF HandlerOK, SameStream, SameHandler
    <3>3. CASE s = S /\ Head(todo).op \in PartOps
      <4>1. WaitOK(1) /\ todo[1].s = s /\ todo[1].op \in PartOps
        BY <1>2, <3>3 DEF VInv, S
      <4>2. stream'[s].state \in {Parsed, Ready}
        BY <2>1, <4>1 DEF WaitOK, SameStream
      <4> QED BY <4>2 DEF HandlerOK, Parsed, Ready, Running
    <3> QED BY <3>2, <3>3
  <2>3. ReportOK(s)'
    <3>1. ASSUME NEW i \in 1..Len(todo), todo[i].op = "Update", todo[i].s = s
          PROVE  \E j \in 1..Len(todo') : todo'[j].op = "Update" /\ todo'[j].s = s
      <4>1. i \in 2..Len(todo)
        BY <1>2, <3>1 DEF LoopOps
      <4> QED BY <1>2, <3>1, <4>1
    <3> QED BY <2>1, <3>1 DEF VisitOK, ReportOK, SameStream
  <2>4. PathOK(s)'
    BY <2>1 DEF VisitOK, PathOK, SameStream, Missed
  <2> QED BY <2>2, <2>3, <2>4 DEF VisitOK
<1> QED BY <1>5, <1>6, <1>7 DEF VInv

\* The steps that push loose calls only
Calm ==
  /\ todo # <<>> /\ Head(todo).op \notin LoopOps
  /\ SameStreams /\ SameHandlers
  /\ \E x \in Seq(Loose) : Then(x)

LEMMA CalmKeeps == ASSUME TypeOK, VInv, Calm
                   PROVE  VInv'
<1>1. PICK x \in Seq(Loose) : Then(x)
  BY DEF Calm
<1>2. x \in Seq(Calls) /\ \A i \in 1..Len(x) : x[i] \in Loose
  BY DEF Loose
<1> QED BY <1>1, <1>2, SteadyKeeps DEF Calm, SameHandlers

-----------------------------------------------------------------------------
(* Steps while no loop is in progress *)

NoLoops == \A i \in 1..Len(todo) : todo[i].op \notin LoopOps
Bare(c) == c.op \notin LoopOps \cup PartOps

LEMMA NoLoopsRest == ASSUME TypeOK, VInv, NoLoops, NEW s \in Streams
PROVE  /\ tx[s].opened \/ tx[s].working => stream[s].state \in Parsed..Running
       /\ stream[s].state = Complete => stream[s].completed \/ stream[s].destroyed
<1>1. VisitOK(s)
  BY DEF VInv
<1>2. ~(todo # <<>> /\ Head(todo).op = "Finalized")
  <2> SUFFICES ASSUME todo # <<>> PROVE Head(todo).op # "Finalized"
    OBVIOUS
  <2>1. todo \in Seq(Calls)
    BY DEF TypeOK
  <2>2. 1 \in 1..Len(todo) /\ todo[1] = Head(todo)
    BY <2>1
  <2> QED BY <2>2 DEF NoLoops, LoopOps
<1>3. \A i \in 1..Len(todo) : todo[i].op # "Update"
  BY DEF NoLoops, LoopOps
<1> QED BY <1>1, <1>2, <1>3 DEF VisitOK, HandlerOK, ReportOK

LEMMA BareKeeps == ASSUME TypeOK, VInv, NoLoops, SameStreams, SameHandlers,
                          \A i \in 1..Len(todo') : Bare(todo'[i])
                   PROVE  VInv'
<1>1. OneLoop'
  BY DEF OneLoop, Loops, Bare
<1>2. \A i \in 1..Len(todo') : WaitOK(i)'
  BY DEF WaitOK, Bare
<1>3. ASSUME NEW s \in Streams
      PROVE  VisitOK(s)'
  <2>1. VisitOK(s) /\ SameStream(s) /\ SameHandler(s)
    BY DEF VInv, SameStreams, SameHandlers
  <2>2. HandlerOK(s)'
    BY <2>1, NoLoopsRest DEF HandlerOK, SameStream, SameHandler
  <2>3. ReportOK(s)'
    BY <2>1, NoLoopsRest DEF VisitOK, ReportOK, SameStream
  <2>4. PathOK(s)'
    BY <2>1 DEF VisitOK, PathOK, SameStream, Missed
  <2> QED BY <2>2, <2>3, <2>4 DEF VisitOK
<1> QED BY <1>1, <1>2, <1>3 DEF VInv

\* Under a call that is only made when no loop is in progress there is none.
LEMMA LowTop == ASSUME TypeOK, VInv, todo # <<>>, Head(todo).op \in LowOps
                PROVE  NoLoops
<1>1. todo \in Seq(Calls)
  BY DEF TypeOK
<1>2. 1 \in 1..Len(todo) /\ todo[1] = Head(todo)
  BY <1>1
<1>3. \A j \in 1..Len(todo) : j > 1 => todo[j].op \notin LoopOps
  BY <1>2 DEF VInv, WaitOK
<1>4. todo[1].op \notin LoopOps
  BY <1>2 DEF LoopOps, LowOps
<1> SUFFICES ASSUME NEW j \in 1..Len(todo) PROVE todo[j].op \notin LoopOps
  BY DEF NoLoops
<1>5. j = 1 \/ j > 1
  OBVIOUS
<1> QED BY <1>3, <1>4, <1>5

\* Nor is there a part of one.
LEMMA NoParts == ASSUME TypeOK, VInv, NoLoops
                 PROVE  \A i \in 1..Len(todo) : Bare(todo[i])
<1> TAKE i \in 1..Len(todo)
<1>1. todo[i].op \notin LoopOps
  BY DEF NoLoops
<1>2. WaitOK(i)
  BY DEF VInv
<1>3. todo[i].op \notin PartOps
  BY <1>2 DEF WaitOK, NoLoops, Loops
<1> QED BY <1>1, <1>3 DEF Bare

\* What is pushed then, and no loop is part of
LEMMA LowKeeps == ASSUME TypeOK, VInv, todo # <<>>, Head(todo).op \in LowOps, SameStreams, SameHandlers,
                         NEW x \in Seq(Calls), Then(x), \A i \in 1..Len(x) : Bare(x[i])
                  PROVE  VInv'
<1>1. NoLoops
  BY LowTop
<1>2. \A i \in 1..Len(todo) : Bare(todo[i])
  BY <1>1, NoParts
<1>3. /\ Len(x) \in Nat
      /\ \A i \in 1..Len(x) : i \in 1..Len(todo') /\ todo'[i] = x[i]
      /\ \A i \in 1..Len(todo') : i > Len(x) => (i + 1 - Len(x)) \in 2..Len(todo) /\ todo'[i] = todo[i + 1 - Len(x)]
  BY Pushed
<1>4. ASSUME NEW i \in 1..Len(todo')
      PROVE  Bare(todo'[i])
  <2>1. CASE i > Len(x)
    <3>1. (i + 1 - Len(x)) \in 1..Len(todo) /\ todo'[i] = todo[i + 1 - Len(x)]
      BY <1>3, <2>1
    <3> QED BY <1>2, <3>1
  <2>2. CASE ~(i > Len(x))
    <3>1. i \in 1..Len(x)
      BY <1>3, <2>2
    <3>2. todo'[i] = x[i]
      BY <1>3, <3>1
    <3> QED BY <3>1, <3>2
  <2> QED BY <2>1, <2>2
<1> QED BY <1>1, <1>4, BareKeeps

-----------------------------------------------------------------------------
(* Turns of a loop *)

\* No other call of the stack is of the loop of S.
Alone == \A i \in 2..Len(todo) : ~Loops(i, S)

LEMMA AloneTop == ASSUME TypeOK, VInv, todo # <<>>, Head(todo).op \in LoopOps
                  PROVE  Alone
<1>1. todo \in Seq(Calls) /\ S \in Streams
  BY TopType DEF TypeOK
<1>2. 1 \in 1..Len(todo) /\ todo[1] = Head(todo)
  BY <1>1
<1>3. Loops(1, S)
  BY <1>2 DEF Loops, S
<1> SUFFICES ASSUME NEW i \in 2..Len(todo), Loops(i, S) PROVE FALSE
  BY DEF Alone
<1>4. i \in 1..Len(todo) /\ i # 1
  OBVIOUS
<1>5. i = 1
  BY <1>1, <1>2, <1>3, <1>4 DEF VInv, OneLoop
<1> QED BY <1>4, <1>5

LEMMA AloneUnset == ASSUME TypeOK, VInv, todo # <<>>, ~stream[S].setting
                    PROVE  Alone
<1> SUFFICES ASSUME NEW i \in 2..Len(todo), Loops(i, S) PROVE FALSE
  BY DEF Alone
<1>1. i \in 1..Len(todo)
  OBVIOUS
<1>2. WaitOK(i)
  BY <1>1 DEF VInv
<1> QED BY <1>2 DEF WaitOK, TurnOK, Loops

\* A turn of the loop of S: its last call goes on with the loop, and it may call parts before.
LEMMA TurnKeeps ==
  ASSUME TypeOK, VInv, todo # <<>>, Alone, NEW t \in Streams, t = S, VisitOK(t)',
         \A s \in Streams \ {S} : SameStream(s) /\ SameHandler(s),
         NEW x \in Seq(Calls), Then(x),
         \A i \in 1..Len(x) : x[i].op \notin LowOps,
         \A i \in 1..Len(x) : x[i].op \in LoopOps => i = Len(x) /\ x[i].s = S /\ TurnOK(x[i], stream'[S]),
         \A i \in 1..Len(x) : x[i].op \in PartOps =>
            x[i].s = S /\ stream'[S].state \in {Parsed, Ready} /\ x[Len(x)].op \in LoopOps
  PROVE  VInv'
<1> DEFINE L == Len(x)
<1>1. /\ Len(todo) \in Nat /\ Len(todo) > 0 /\ L \in Nat
      /\ \A i \in 1..L : i \in 1..Len(todo') /\ todo'[i] = x[i]
      /\ \A i \in 2..Len(todo) : (i - 1 + L) \in 1..Len(todo') /\ todo'[i - 1 + L] = todo[i]
      /\ \A i \in 1..Len(todo') : i > L => (i + 1 - L) \in 2..Len(todo) /\ todo'[i] = todo[i + 1 - L]
      /\ todo[1] = Head(todo) /\ 1 \in 1..Len(todo)
  BY Pushed
<1>2. /\ \A i \in 1..L : x[i].op \notin LowOps
      /\ \A i \in 1..L : x[i].op \in LoopOps => i = L /\ x[i].s = S /\ TurnOK(x[i], stream'[S])
      /\ \A i \in 1..L : x[i].op \in PartOps =>
           x[i].s = S /\ stream'[S].state \in {Parsed, Ready} /\ x[L].op \in LoopOps
  OBVIOUS
<1> HIDE DEF L
<1>3. \A i \in 1..Len(todo) : todo[i] \in Calls /\ todo[i].s \in Streams
  <2> TAKE i \in 1..Len(todo)
  <2>1. todo[i] \in Calls
    BY DEF TypeOK
  <2> QED BY <2>1 DEF Calls
\* The calls under the top are of other loops.
<1>4. ASSUME NEW k \in 2..Len(todo)
      PROVE  todo[k].op \in LoopOps \cup PartOps => todo[k].s # S
  <2>1. k \in 1..Len(todo) /\ WaitOK(k)
    <3>1. k \in 1..Len(todo)
      BY <1>1
    <3> QED BY <3>1 DEF VInv
  <2>2. todo[k].op \in LoopOps => todo[k].s # S
    BY DEF Alone, Loops
  <2>3. ASSUME todo[k].op \in PartOps, todo[k].s = S
        PROVE  FALSE
    <3>1. PICK j \in 1..Len(todo) : j > k /\ Loops(j, S)
      BY <2>1, <2>3 DEF WaitOK
    <3>2. j \in 2..Len(todo)
      BY <3>1
    <3> QED BY <3>1, <3>2 DEF Alone
  <2> QED BY <2>2, <2>3
<1>5. ASSUME NEW i \in 1..Len(todo'), ~(i > L)
      PROVE  i \in 1..L /\ todo'[i] = x[i]
  <2>1. i \in 1..L
    BY <1>1, <1>5
  <2> QED BY <1>1, <2>1
<1>6. ASSUME NEW i \in 1..Len(todo'), i > L
      PROVE  /\ (i + 1 - L) \in 2..Len(todo) /\ (i + 1 - L) \in 1..Len(todo) /\ todo'[i] = todo[i + 1 - L]
  <2>1. (i + 1 - L) \in 2..Len(todo) /\ todo'[i] = todo[i + 1 - L]
    BY <1>1, <1>6
  <2> QED BY <2>1
<1>7. OneLoop'
  <2> SUFFICES ASSUME NEW i \in 1..Len(todo'), NEW j \in 1..Len(todo'), NEW s \in Streams, Loops(i, s)', Loops(j, s)'
               PROVE  i = j
    BY DEF OneLoop
  <2>0. todo'[i].op \in LoopOps /\ todo'[i].s = s /\ todo'[j].op \in LoopOps /\ todo'[j].s = s
    BY DEF Loops
  <2>1. CASE i > L /\ j > L
    <3>1. Loops(i + 1 - L, s) /\ Loops(j + 1 - L, s)
      BY <1>6, <2>0, <2>1 DEF Loops
    <3>2. (i + 1 - L) \in 1..Len(todo) /\ (j + 1 - L) \in 1..Len(todo)
      BY <1>6, <2>1
    <3>3. i + 1 - L = j + 1 - L
      BY <3>1, <3>2 DEF VInv, OneLoop
    <3> QED BY <1>1, <3>3
  <2>2. CASE ~(i > L) /\ ~(j > L)
    <3>1. i \in 1..L /\ j \in 1..L /\ todo'[i] = x[i] /\ todo'[j] = x[j]
      BY <1>5, <2>2
    <3>2. i = L /\ j = L
      BY <1>2, <2>0, <3>1
    <3> QED BY <3>2
  <2>3. CASE i > L /\ ~(j > L)
    <3>1. j \in 1..L /\ todo'[j] = x[j]
      BY <1>5, <2>3
    <3>2. s = S
      BY <1>2, <2>0, <3>1
    <3>3. (i + 1 - L) \in 2..Len(todo) /\ todo'[i] = todo[i + 1 - L]
      BY <1>6, <2>3
    <3> QED BY <1>4, <2>0, <3>2, <3>3
  <2>4. CASE ~(i > L) /\ j > L
    <3>1. i \in 1..L /\ todo'[i] = x[i]
      BY <1>5, <2>4
    <3>2. s = S
      BY <1>2, <2>0, <3>1
    <3>3. (j + 1 - L) \in 2..Len(todo) /\ todo'[j] = todo[j + 1 - L]
      BY <1>6, <2>4
    <3> QED BY <1>4, <2>0, <3>2, <3>3
  <2> QED BY <2>1, <2>2, <2>3, <2>4
<1>8. ASSUME NEW i \in 1..Len(todo')
      PROVE  WaitOK(i)'
  <2>1. CASE ~(i > L)
    <3>1. i \in 1..L /\ todo'[i] = x[i]
      BY <1>5, <2>1
    <3>2. todo'[i].op \in LoopOps => TurnOK(todo'[i], stream'[todo'[i].s])
      BY <1>2, <3>1
    <3>3. todo'[i].op \in PartOps =>
            /\ stream'[todo'[i].s].state \in {Parsed, Ready}
            /\ \E j \in 1..Len(todo') : j > i /\ todo'[j].op \in LoopOps /\ todo'[j].s = todo'[i].s
      <4> HAVE todo'[i].op \in PartOps
      <4>1. x[i].s = S /\ stream'[S].state \in {Parsed, Ready} /\ x[L].op \in LoopOps
        BY <1>2, <3>1
      <4>2. L \in 1..L /\ x[L].s = S
        BY <1>1, <1>2, <3>1, <4>1
      <4>3. L \in 1..Len(todo') /\ todo'[L] = x[L]
        BY <1>1, <4>2
      <4>4. i # L
        BY <3>1, <4>1 DEF LoopOps, PartOps
      <4>5. L > i
        BY <1>1, <3>1, <4>4
      <4> QED BY <3>1, <4>1, <4>2, <4>3, <4>5
    <3>4. todo'[i].op \notin LowOps
      BY <1>2, <3>1
    <3> QED BY <3>2, <3>3, <3>4 DEF WaitOK, Loops
  <2>2. CASE i > L
    <3> DEFINE k == i + 1 - L
    <3>1. k \in 2..Len(todo) /\ k \in 1..Len(todo) /\ todo'[i] = todo[k]
      BY <1>6, <2>2
    <3>2. WaitOK(k) /\ todo[k].s \in Streams
      BY <1>3, <3>1 DEF VInv
    <3>3. i \in Int /\ L \in Nat /\ k = i + 1 - L /\ Len(todo) \in Nat
      BY <1>1
    <3> HIDE DEF k
    <3>4. todo'[i].op \in LoopOps \cup PartOps => SameStream(todo[k].s)
      BY <1>4, <3>1, <3>2
    <3>5. todo'[i].op \in LoopOps => TurnOK(todo'[i], stream'[todo'[i].s])
      <4>1. todo[k].op \in LoopOps => TurnOK(todo[k], stream[todo[k].s])
        BY <3>2 DEF WaitOK
      <4>2. todo[k].op \in LoopOps => TurnOK(todo[k], stream'[todo[k].s])
        BY <3>1, <3>4, <4>1 DEF TurnOK, SameStream
      <4> QED BY <3>1, <4>2
    <3>6. todo'[i].op \in PartOps =>
            /\ stream'[todo'[i].s].state \in {Parsed, Ready}
            /\ \E j \in 1..Len(todo') : j > i /\ todo'[j].op \in LoopOps /\ todo'[j].s = todo'[i].s
      <4> HAVE todo'[i].op \in PartOps
      <4>1. PICK j \in 1..Len(todo) : j > k /\ Loops(j, todo[k].s)
        BY <3>1, <3>2 DEF WaitOK
      <4>2. j \in 2..Len(todo) /\ j - 1 + L > i
        BY <3>1, <3>3, <4>1
      <4>3. (j - 1 + L) \in 1..Len(todo') /\ todo'[j - 1 + L] = todo[j]
        BY <1>1, <4>2
      <4>4. stream'[todo'[i].s].state \in {Parsed, Ready}
        BY <3>1, <3>2, <3>4 DEF WaitOK, SameStream
      <4> QED BY <3>1, <4>1, <4>2, <4>3, <4>4 DEF Loops
    <3>7. todo'[i].op \in LowOps => \A j \in 1..Len(todo') : j > i => todo'[j].op \notin LoopOps
      <4> HAVE todo'[i].op \in LowOps
      <4> TAKE j \in 1..Len(todo')
      <4> HAVE j > i
      <4>1. j > L /\ j + 1 - L > k
        BY <2>2, <3>3
      <4>2. (j + 1 - L) \in 1..Len(todo) /\ todo'[j] = todo[j + 1 - L]
        BY <1>6, <4>1
      <4> QED BY <3>1, <3>2, <4>1, <4>2 DEF WaitOK
    <3> QED BY <3>5, <3>6, <3>7 DEF WaitOK, Loops
  <2> QED BY <2>1, <2>2
<1>9. ASSUME NEW s \in Streams, s # S
      PROVE  VisitOK(s)'
  <2>1. VisitOK(s) /\ SameStream(s) /\ SameHandler(s)
    BY <1>9 DEF VInv
  <2>2. HandlerOK(s)'
    BY <1>9, <2>1 DEF VisitOK, HandlerOK, SameStream, SameHandler, S
  <2>3. ReportOK(s)'
    <3>1. ASSUME NEW i \in 1..Len(todo), todo[i].op = "Update", todo[i].s = s
          PROVE  \E j \in 1..Len(todo') : todo'[j].op = "Update" /\ todo'[j].s = s
      <4>1. i # 1
        BY <1>1, <1>9, <3>1 DEF S
      <4>2. i \in 2..Len(todo)
        BY <1>1, <4>1
      <4>3. i - 1 + L \in 1..Len(todo') /\ todo'[i - 1 + L] = todo[i]
        BY <1>1, <4>2
      <4> QED BY <3>1, <4>3
    <3> QED BY <2>1, <3>1 DEF VisitOK, ReportOK, SameStream
  <2>4. PathOK(s)'
    BY <2>1 DEF VisitOK, PathOK, SameStream, Missed
  <2> QED BY <2>2, <2>3, <2>4 DEF VisitOK
<1>10. \A s \in Streams : VisitOK(s)'
  <2> TAKE s \in Streams
  <2>1. CASE s = t
    BY <2>1
  <2>2. CASE s # S
    BY <1>9, <2>2
  <2> QED BY <2>1, <2>2
<1> QED BY <1>7, <1>8, <1>10 DEF VInv

-----------------------------------------------------------------------------
(* Calls that may be made at any time *)

LooseOps == Ops \ (LoopOps \cup PartOps \cup LowOps)

LEMMA LooseCall == ASSUME NEW op \in LooseOps, NEW s \in Streams, NEW n \in 0..9
                   PROVE  Call(op, s, n) \in Loose /\ <<Call(op, s, n)>> \in Seq(Loose)
<1>1. Call(op, s, n) \in Calls
  BY CallType DEF LooseOps
<1>2. Call(op, s, n) \in Loose
  BY <1>1 DEF Loose, LooseOps, Call
<1> QED BY <1>2

LEMMA LooseJoin == /\ \A x, y \in Seq(Loose) : x \o y \in Seq(Loose)
                   /\ <<>> \in Seq(Loose)
                   /\ \A b \in BOOLEAN, x \in Seq(Loose) : When(b, x) \in Seq(Loose)
BY DEF When

LEMMA LooseRuns == ASSUME S \in Streams
PROVE  /\ Run("AfterError") \in Seq(Loose) /\ Run("Redirect") \in Seq(Loose) /\ Run("Finalize") \in Seq(Loose)
       /\ Run("FinalizeOutput") \in Seq(Loose) /\ Run("FinalizeInput") \in Seq(Loose)
       /\ Run("CheckFinalized") \in Seq(Loose) /\ Run("FinalizeConnector") \in Seq(Loose)
       /\ Run("Disconnect") \in Seq(Loose) /\ Run("Hang") \in Seq(Loose) /\ Run("NetError") \in Seq(Loose)
       /\ Run("InputEnd") \in Seq(Loose) /\ Run("Revert") \in Seq(Loose) /\ Run("Pending") \in Seq(Loose)
       /\ Run("Filed") \in Seq(Loose) /\ Run("Send") \in Seq(Loose) /\ Run("SendReset") \in Seq(Loose)
       /\ Run("Enable") \in Seq(Loose) /\ Run("Fields") \in Seq(Loose) /\ Run("Abandon") \in Seq(Loose)
<1>1. \A op \in LooseOps : Run(op) \in Seq(Loose)
  BY LooseCall DEF Run
<1>2. {"AfterError", "Redirect", "Finalize", "FinalizeOutput", "FinalizeInput", "CheckFinalized", "FinalizeConnector",
       "Disconnect", "Hang", "NetError", "InputEnd"} \subseteq LooseOps
  BY DEF LooseOps, Ops, LoopOps, PartOps, LowOps
<1>3. {"Revert", "Pending", "Filed", "Send", "SendReset", "Enable", "Fields", "Abandon"} \subseteq LooseOps
  BY DEF LooseOps, Ops, LoopOps, PartOps, LowOps
<1> QED BY <1>1, <1>2, <1>3

LEMMA LooseSets == ASSUME NEW s \in Streams
PROVE  /\ SetTo(s, Begin) \in Seq(Loose) /\ SetTo(s, First) \in Seq(Loose) /\ SetTo(s, Parsed) \in Seq(Loose)
       /\ SetTo(s, Ready) \in Seq(Loose) /\ SetTo(s, Finalized) \in Seq(Loose) /\ SetTo(s, Complete) \in Seq(Loose)
       /\ Error(s, Soft) \in Seq(Loose) /\ Error(s, Close) \in Seq(Loose)
       /\ Error(s, Abort) \in Seq(Loose) /\ Error(s, Silent) \in Seq(Loose)
<1>1. "SetState" \in LooseOps /\ "Error" \in LooseOps
  BY DEF LooseOps, Ops, LoopOps, PartOps, LowOps
<1>2. \A n \in 0..9 : SetTo(s, n) \in Seq(Loose)
  BY <1>1, LooseCall DEF SetTo
<1>3. \A kind \in 0..9 : Error(s, kind) \in Seq(Loose)
  BY <1>1, LooseCall DEF Error
<1> QED BY <1>2, <1>3 DEF Begin, First, Parsed, Ready, Finalized, Complete, Soft, Close, Abort, Silent

LEMMA LooseForAlls ==
  /\ ForAll("Fail") \in Seq(Loose) /\ ForAll("PumpIn") \in Seq(Loose) /\ ForAll("PumpFile") \in Seq(Loose)
  /\ ForAll("Free") \in Seq(Loose) /\ [i \in Streams |-> Call("PumpOut", i, 1)] \in Seq(Loose)
<1>1. N \in Nat
  BY RequestAssumption
<1>2. {"Fail", "PumpIn", "PumpFile", "Free", "PumpOut"} \subseteq LooseOps
  BY DEF LooseOps, Ops, LoopOps, PartOps, LowOps
<1>3. \A op \in LooseOps, n \in 0..9 : \A s \in 1..N : Call(op, s, n) \in Loose
  BY LooseCall DEF Streams
<1>4. \A op \in LooseOps : [s \in 1..N |-> Call(op, s, 0)] \in Seq(Loose)
  BY <1>1, <1>3
<1>5. [s \in 1..N |-> Call("PumpOut", s, 1)] \in Seq(Loose)
  BY <1>1, <1>2, <1>3
<1> QED BY <1>2, <1>4, <1>5 DEF ForAll, Streams

\* What a calm step begins with
LEMMA Calmly == ASSUME TypeOK, NEW op \in LooseOps, Do(op)
PROVE  todo # <<>> /\ Head(todo).op \notin LoopOps /\ Types /\ S \in Streams /\ Arg \in 0..9
BY TopType DEF TypeOK, Types, Do, LooseOps

LEMMA Unchanged == /\ stream' = stream /\ seen' = seen => SameStreams
                   /\ tx' = tx => SameHandlers
BY DEF SameStreams, SameStream, SameHandlers, SameHandler

\* What is assigned of a stream without touching its loop
LEMMA OneField == ASSUME Types, NEW s \in Streams, NEW v, seen' = seen,
  \/ stream' = [stream EXCEPT ![s].keep = v] \/ stream' = [stream EXCEPT ![s].h2 = v]
  \/ stream' = [stream EXCEPT ![s].timer = v]
PROVE  SameStreams
BY DEF Types, StreamType, SameStreams, SameStream

LEMMA EndField == ASSUME Types, NEW s \in Streams, NEW v, tx' = [tx EXCEPT ![s].end = v]
PROVE  SameHandlers
BY DEF Types, TxType, SameHandlers, SameHandler

\* The calls of the steps below
LEMMA LooseAre == {"Finalize", "FinalizeOutput", "FinalizeInput", "CheckFinalized", "SetFinalized",
                   "FinalizeConnector", "Disconnect", "Hang",
                   "Error", "Redirect", "AfterError", "NetError", "Fail", "Kick", "Headers", "InputEnd",
                   "Revert", "Pending", "ReadyHandler", "Service", "PumpIn", "PumpFile", "Filed", "PumpOut",
                   "PumpFilter", "SendReset", "Send", "Free", "Idle", "CloseStream", "Abandon", "Destroyed",
                   "Enable", "Line", "Fields"}
                  \subseteq LooseOps
BY DEF LooseOps, Ops, LoopOps, PartOps, LowOps

\* The steps of tx.c and stream.c
LEMMA FinishCalm ==
  ASSUME TypeOK, Finalize \/ FinalizeOutput \/ FinalizeInput \/ CheckFinalized \/ SetFinalized
                 \/ FinalizeConnector \/ Disconnect \/ Hang
PROVE  Calm
<1>1. ASSUME Finalize PROVE Calm
  <2>1. Do("Finalize")
    BY <1>1 DEF Finalize
  <2>2. todo # <<>> /\ Head(todo).op \notin LoopOps /\ Types /\ S \in Streams /\ Arg \in 0..9
    BY <2>1, LooseAre, Calmly
  <2>3. \E x \in Seq(Loose) : Then(x)
    BY <1>1, <2>2, LooseRuns, LooseJoin DEF Finalize, When
  <2> QED BY <1>1, <2>2, <2>3, Unchanged DEF Calm, Finalize
<1>2. ASSUME FinalizeOutput PROVE Calm
  <2>1. Do("FinalizeOutput")
    BY <1>2 DEF FinalizeOutput
  <2>2. todo # <<>> /\ Head(todo).op \notin LoopOps /\ Types /\ S \in Streams /\ Arg \in 0..9
    BY <2>1, LooseAre, Calmly
  <2>3. SameHandlers
    BY <1>2, <2>2 DEF FinalizeOutput, Types, TxType, SameHandlers, SameHandler
  <2>4. \E x \in Seq(Loose) : Then(x)
    BY <1>2, <2>2, LooseRuns, LooseJoin DEF FinalizeOutput, When
  <2> QED BY <1>2, <2>2, <2>3, <2>4, Unchanged DEF Calm, FinalizeOutput
<1>3. ASSUME FinalizeInput PROVE Calm
  <2>1. Do("FinalizeInput")
    BY <1>3 DEF FinalizeInput
  <2>2. todo # <<>> /\ Head(todo).op \notin LoopOps /\ Types /\ S \in Streams /\ Arg \in 0..9
    BY <2>1, LooseAre, Calmly
  <2>3. SameHandlers
    BY <1>3, <2>2 DEF FinalizeInput, Types, TxType, SameHandlers, SameHandler
  <2>4. \E x \in Seq(Loose) : Then(x)
    BY <1>3, <2>2, LooseRuns, LooseSets, LooseJoin DEF FinalizeInput, When
  <2> QED BY <1>3, <2>2, <2>3, <2>4, Unchanged DEF Calm, FinalizeInput
<1>4. ASSUME CheckFinalized PROVE Calm
  <2>1. Do("CheckFinalized")
    BY <1>4 DEF CheckFinalized
  <2>2. todo # <<>> /\ Head(todo).op \notin LoopOps /\ Types /\ S \in Streams /\ Arg \in 0..9
    BY <2>1, LooseAre, Calmly
  <2>3. \E x \in Seq(Loose) : Then(x)
    <3> DEFINE n == IF rx[S].errdoc THEN 1 ELSE 0
    <3>1. <<Call("SetFinalized", S, n)>> \in Seq(Loose)
      BY <2>2, LooseAre, LooseCall
    <3>2. SetTo(S, Finalized) \o <<Call("SetFinalized", S, n)>> \in Seq(Loose)
      BY <2>2, <3>1, LooseSets, LooseJoin
    <3>3. Then(When(~tx[S].finalized /\ tx[S].finIn /\ tx[S].finOut /\ tx[S].finConn,
                    SetTo(S, Finalized) \o <<Call("SetFinalized", S, n)>>))
      BY <1>4 DEF CheckFinalized
    <3> HIDE DEF n
    <3> QED BY <3>2, <3>3, LooseJoin DEF When
  <2> QED BY <1>4, <2>2, <2>3, Unchanged DEF Calm, CheckFinalized
<1>5. ASSUME SetFinalized PROVE Calm
  <2>1. Do("SetFinalized")
    BY <1>5 DEF SetFinalized
  <2>2. todo # <<>> /\ Head(todo).op \notin LoopOps /\ Types /\ S \in Streams /\ Arg \in 0..9
    BY <2>1, LooseAre, Calmly
  <2>3. SameHandlers
    BY <1>5, <2>2 DEF SetFinalized, Types, TxType, SameHandlers, SameHandler
  <2>4. \E x \in Seq(Loose) : Then(x)
    BY <1>5, <2>2, LooseJoin DEF SetFinalized, When
  <2> QED BY <1>5, <2>2, <2>3, <2>4, Unchanged DEF Calm, SetFinalized
<1>6. ASSUME FinalizeConnector PROVE Calm
  <2>1. Do("FinalizeConnector")
    BY <1>6 DEF FinalizeConnector
  <2>2. todo # <<>> /\ Head(todo).op \notin LoopOps /\ Types /\ S \in Streams /\ Arg \in 0..9
    BY <2>1, LooseAre, Calmly
  <2>3. SameHandlers
    BY <1>6, <2>2 DEF FinalizeConnector, Types, TxType, SameHandlers, SameHandler
  <2>4. \E x \in Seq(Loose) : Then(x)
    BY <1>6, <2>2, LooseRuns, LooseJoin DEF FinalizeConnector, When
  <2> QED BY <1>6, <2>2, <2>3, <2>4, Unchanged DEF Calm, FinalizeConnector
<1>7. ASSUME Disconnect PROVE Calm
  <2>1. Do("Disconnect")
    BY <1>7 DEF Disconnect
  <2>2. todo # <<>> /\ Head(todo).op \notin LoopOps /\ Types /\ S \in Streams /\ Arg \in 0..9
    BY <2>1, LooseAre, Calmly
  <2>3. SameHandlers
    BY <1>7, <2>2 DEF Disconnect, Types, TxType, SameHandlers, SameHandler
  <2>4. SameStreams
    BY <1>7, <2>2 DEF Disconnect, Types, StreamType, SameStreams, SameStream
  <2>5. \E x \in Seq(Loose) : Then(x)
    BY <1>7, <2>2, LooseRuns, LooseJoin DEF Disconnect, When
  <2> QED BY <1>7, <2>2, <2>3, <2>4, <2>5, Unchanged DEF Calm, Disconnect
<1>8. ASSUME Hang PROVE Calm
  <2>1. Do("Hang")
    BY <1>8 DEF Hang
  <2>2. todo # <<>> /\ Head(todo).op \notin LoopOps /\ Types /\ S \in Streams /\ Arg \in 0..9
    BY <2>1, LooseAre, Calmly
  <2>3. \E x \in Seq(Loose) : Then(x)
    BY <1>8, <2>2, LooseJoin DEF Hang, When
  <2> QED BY <1>8, <2>2, <2>3, Unchanged DEF Calm, Hang
<1> QED BY <1>1, <1>2, <1>3, <1>4, <1>5, <1>6, <1>7, <1>8

\* The steps of error.c
LEMMA ErrorCalm == ASSUME TypeOK, RaiseError \/ Redirect \/ AfterError \/ NetError \/ Fail
PROVE  Calm
<1>1. ASSUME RaiseError PROVE Calm
  <2>1. Do("Error")
    BY <1>1 DEF RaiseError
  <2>2. todo # <<>> /\ Head(todo).op \notin LoopOps /\ Types /\ S \in Streams /\ Arg \in 0..9
    BY <2>1, LooseAre, Calmly
  <2>3. SameStreams
    BY <1>1, <2>2 DEF RaiseError, Types, StreamType, SameStreams, SameStream
  <2>4. \E x \in Seq(Loose) : Then(x)
    BY <1>1, <2>2, LooseRuns, LooseJoin DEF RaiseError, When
  <2> QED BY <1>1, <2>2, <2>3, <2>4, Unchanged DEF Calm, RaiseError
<1>2. ASSUME Redirect PROVE Calm
  <2>1. Do("Redirect")
    BY <1>2 DEF Redirect
  <2>2. todo # <<>> /\ Head(todo).op \notin LoopOps /\ Types /\ S \in Streams /\ Arg \in 0..9
    BY <2>1, LooseAre, Calmly
  <2>3. SameHandlers
    BY <1>2, <2>2 DEF Redirect, Types, TxType, SameHandlers, SameHandler
  <2>4. \E x \in Seq(Loose) : Then(x)
    BY <1>2, <2>2, LooseSets, LooseJoin DEF Redirect, When
  <2> QED BY <1>2, <2>2, <2>3, <2>4, Unchanged DEF Calm, Redirect
<1>3. ASSUME AfterError PROVE Calm
  <2>1. Do("AfterError")
    BY <1>3 DEF AfterError
  <2>2. todo # <<>> /\ Head(todo).op \notin LoopOps /\ Types /\ S \in Streams /\ Arg \in 0..9
    BY <2>1, LooseAre, Calmly
  <2>3. \E x \in Seq(Loose) : Then(x)
    BY <1>3, <2>2, LooseRuns, LooseJoin DEF AfterError, When
  <2> QED BY <1>3, <2>2, <2>3, Unchanged DEF Calm, AfterError
<1>4. ASSUME NetError PROVE Calm
  <2>1. Do("NetError")
    BY <1>4 DEF NetError
  <2>2. todo # <<>> /\ Head(todo).op \notin LoopOps /\ Types /\ S \in Streams /\ Arg \in 0..9
    BY <2>1, LooseAre, Calmly
  <2>3. \E x \in Seq(Loose) : Then(x)
    BY <1>4, <2>2, LooseForAlls, LooseJoin DEF NetError, When
  <2> QED BY <1>4, <2>2, <2>3, Unchanged DEF Calm, NetError
<1>5. ASSUME Fail PROVE Calm
  <2>1. Do("Fail")
    BY <1>5 DEF Fail
  <2>2. todo # <<>> /\ Head(todo).op \notin LoopOps /\ Types /\ S \in Streams /\ Arg \in 0..9
    BY <2>1, LooseAre, Calmly
  <2>3. \E x \in Seq(Loose) : Then(x)
    BY <1>5, <2>2, LooseRuns, LooseSets, LooseJoin DEF Fail, When
  <2> QED BY <1>5, <2>2, <2>3, Unchanged DEF Calm, Fail
<1> QED BY <1>1, <1>2, <1>3, <1>4, <1>5

\* Of process.c and the handlers
LEMMA ProcessCalm == ASSUME TypeOK, Kick \/ ProcessHeaders \/ InputEnd \/ Revert \/ Pending \/ ReadyHandler
PROVE  Calm
<1>1. ASSUME Kick PROVE Calm
  <2>1. Do("Kick")
    BY <1>1 DEF Kick
  <2>2. todo # <<>> /\ Head(todo).op \notin LoopOps /\ Types /\ S \in Streams /\ Arg \in 0..9
    BY <2>1, LooseAre, Calmly
  <2>3. \E x \in Seq(Loose) : Then(x)
    BY <1>1, <2>2, LooseRuns, LooseJoin DEF Kick, When
  <2> QED BY <1>1, <2>2, <2>3, Unchanged DEF Calm, Kick
<1>2. ASSUME ProcessHeaders PROVE Calm
  <2>1. Do("Headers")
    BY <1>2 DEF ProcessHeaders
  <2>2. todo # <<>> /\ Head(todo).op \notin LoopOps /\ Types /\ S \in Streams /\ Arg \in 0..9
    BY <2>1, LooseAre, Calmly
  <2>3. SameStreams
    <3>1. CASE UNCHANGED stream
      BY <1>2, <3>1, Unchanged DEF ProcessHeaders
    <3>2. CASE \E keep : stream' = [stream EXCEPT ![S].keep = keep]
      BY <1>2, <2>2, <3>2, OneField DEF ProcessHeaders
    <3> QED BY <1>2, <3>1, <3>2 DEF ProcessHeaders
  <2>4. \E x \in Seq(Loose) : Then(x)
    BY <1>2, <2>2, LooseSets, LooseJoin DEF ProcessHeaders, When
  <2> QED BY <1>2, <2>2, <2>3, <2>4, Unchanged DEF Calm, ProcessHeaders
<1>3. ASSUME InputEnd PROVE Calm
  <2>1. Do("InputEnd")
    BY <1>3 DEF InputEnd
  <2>2. todo # <<>> /\ Head(todo).op \notin LoopOps /\ Types /\ S \in Streams /\ Arg \in 0..9
    BY <2>1, LooseAre, Calmly
  <2>3. \E x \in Seq(Loose) : Then(x)
    BY <1>3, <2>2, LooseJoin DEF InputEnd, When
  <2> QED BY <1>3, <2>2, <2>3, Unchanged DEF Calm, InputEnd
<1>4. ASSUME Revert PROVE Calm
  <2>1. Do("Revert")
    BY <1>4 DEF Revert
  <2>2. todo # <<>> /\ Head(todo).op \notin LoopOps /\ Types /\ S \in Streams /\ Arg \in 0..9
    BY <2>1, LooseAre, Calmly
  <2>3. SameHandlers
    BY <1>4, <2>2 DEF Revert, Types, TxType, SameHandlers, SameHandler
  <2>4. \E x \in Seq(Loose) : Then(x)
    BY <1>4, <2>2, LooseJoin DEF Revert, When
  <2> QED BY <1>4, <2>2, <2>3, <2>4, Unchanged DEF Calm, Revert
<1>5. ASSUME Pending PROVE Calm
  <2>1. Do("Pending")
    BY <1>5 DEF Pending
  <2>2. todo # <<>> /\ Head(todo).op \notin LoopOps /\ Types /\ S \in Streams /\ Arg \in 0..9
    BY <2>1, LooseAre, Calmly
  <2>3. SameHandlers
    BY <1>5, <2>2 DEF Pending, Types, TxType, SameHandlers, SameHandler
  <2>4. \E x \in Seq(Loose) : Then(x)
    BY <1>5, <2>2, LooseRuns, LooseJoin DEF Pending, When
  <2> QED BY <1>5, <2>2, <2>3, <2>4, Unchanged DEF Calm, Pending
<1>6. ASSUME ReadyHandler PROVE Calm
  <2>1. Do("ReadyHandler")
    BY <1>6 DEF ReadyHandler
  <2>2. todo # <<>> /\ Head(todo).op \notin LoopOps /\ Types /\ S \in Streams /\ Arg \in 0..9
    BY <2>1, LooseAre, Calmly
  <2>3. SameHandlers
    BY <1>6, <2>2 DEF ReadyHandler, Types, TxType, SameHandlers, SameHandler
  <2>4. \E x \in Seq(Loose) : Then(x)
    BY <1>6, <2>2, LooseRuns, LooseSets, LooseJoin DEF ReadyHandler, When
  <2> QED BY <1>6, <2>2, <2>3, <2>4, Unchanged DEF Calm, ReadyHandler
<1> QED BY <1>1, <1>2, <1>3, <1>4, <1>5, <1>6

\* Of the queues
LEMMA QueueCalm == ASSUME TypeOK, Service \/ PumpIn \/ PumpFile \/ Filed \/ PumpOut \/ PumpFilter \/ SendReset \/ Send \/ Free
PROVE  Calm
<1>1. ASSUME Service PROVE Calm
  <2>1. Do("Service")
    BY <1>1 DEF Service
  <2>2. todo # <<>> /\ Head(todo).op \notin LoopOps /\ Types /\ S \in Streams /\ Arg \in 0..9
    BY <2>1, LooseAre, Calmly
  <2>3. \E x \in Seq(Loose) : Then(x)
    <3>1. CASE Then(<<>>)
      BY <3>1, LooseJoin
    <3>2. CASE \E work \in Work : todo' = <<work>> \o todo
      <4>1. PICK work \in Work : todo' = <<work>> \o todo
        BY <3>2
      <4>2. work \in Loose /\ work \in Calls
        <5>1. \A op \in {"PumpIn", "PumpFile", "PumpOut", "PumpFilter", "Send"} : op \in LooseOps
          BY LooseAre
        <5>2. \A op \in {"PumpIn", "PumpFile", "PumpOut", "PumpFilter", "Send"}, s \in Streams : Call(op, s, 0) \in Loose
          BY <5>1, LooseCall
        <5>3. work \in Loose
          BY <4>1, <5>2 DEF Work
        <5> QED BY <5>3 DEF Loose
      <4>3. Head(todo) \in Loose
        <5>1. Head(todo) \in Calls
          BY <2>2, TopType
        <5> QED BY <2>1, <5>1 DEF Do, Loose, LoopOps, PartOps, LowOps
      <4>4. Then(<<work, Head(todo)>>)
        BY <2>2, <4>1, <4>2, PushTwo DEF Then, TypeOK
      <4>5. <<work, Head(todo)>> \in Seq(Loose)
        BY <4>2, <4>3
      <4> QED BY <4>4, <4>5
    <3>3. CASE Then(ForAll("PumpIn") \o ForAll("PumpFile") \o [i \in Streams |-> Call("PumpOut", i, 1)])
      BY <3>3, LooseForAlls, LooseJoin
    <3> QED BY <1>1, <3>1, <3>2, <3>3 DEF Service
  <2> QED BY <1>1, <2>2, <2>3, Unchanged DEF Calm, Service
<1>2. ASSUME PumpIn PROVE Calm
  <2>1. Do("PumpIn")
    BY <1>2 DEF PumpIn
  <2>2. todo # <<>> /\ Head(todo).op \notin LoopOps /\ Types /\ S \in Streams /\ Arg \in 0..9
    BY <2>1, LooseAre, Calmly
  <2>3. \E x \in Seq(Loose) : Then(x)
    BY <1>2, <2>2, LooseRuns, LooseJoin DEF PumpIn, When
  <2> QED BY <1>2, <2>2, <2>3, Unchanged DEF Calm, PumpIn
<1>3. ASSUME PumpFile PROVE Calm
  <2>1. Do("PumpFile")
    BY <1>3 DEF PumpFile
  <2>2. todo # <<>> /\ Head(todo).op \notin LoopOps /\ Types /\ S \in Streams /\ Arg \in 0..9
    BY <2>1, LooseAre, Calmly
  <2>3. SameHandlers
    <3>1. PICK file, end : tx' = [tx EXCEPT ![S].file = file, ![S].end = end]
      BY <1>3 DEF PumpFile
    <3> QED BY <2>2, <3>1 DEF Types, TxType, SameHandlers, SameHandler
  <2>4. \E x \in Seq(Loose) : Then(x)
    BY <1>3, <2>2, LooseRuns, LooseSets, LooseJoin DEF PumpFile, When
  <2> QED BY <1>3, <2>2, <2>3, <2>4, Unchanged DEF Calm, PumpFile
<1>4. ASSUME Filed PROVE Calm
  <2>1. Do("Filed")
    BY <1>4 DEF Filed
  <2>2. todo # <<>> /\ Head(todo).op \notin LoopOps /\ Types /\ S \in Streams /\ Arg \in 0..9
    BY <2>1, LooseAre, Calmly
  <2>3. \E x \in Seq(Loose) : Then(x)
    BY <1>4, <2>2, LooseRuns, LooseJoin DEF Filed, When
  <2> QED BY <1>4, <2>2, <2>3, Unchanged DEF Calm, Filed
<1>5. ASSUME PumpOut PROVE Calm
  <2>1. Do("PumpOut")
    BY <1>5 DEF PumpOut
  <2>2. todo # <<>> /\ Head(todo).op \notin LoopOps /\ Types /\ S \in Streams /\ Arg \in 0..9
    BY <2>1, LooseAre, Calmly
  <2>3. SameHandlers
    BY <1>5, <2>2 DEF PumpOut, Types, TxType, SameHandlers, SameHandler
  <2>4. SameStreams
    <3>1. CASE UNCHANGED stream
      BY <1>5, <3>1, Unchanged DEF PumpOut
    <3>2. CASE stream' = Spend(S)
      <4>1. PICK keep : Spend(S) = [stream EXCEPT ![S].keep = keep]
        BY DEF Spend
      <4> QED BY <1>5, <2>2, <3>2, <4>1, OneField DEF PumpOut
    <3> QED BY <1>5, <3>1, <3>2 DEF PumpOut
  <2>5. \E x \in Seq(Loose) : Then(x)
    BY <1>5, <2>2, LooseRuns, LooseJoin DEF PumpOut, When
  <2> QED BY <1>5, <2>2, <2>3, <2>4, <2>5, Unchanged DEF Calm, PumpOut
<1>6. ASSUME PumpFilter PROVE Calm
  <2>1. Do("PumpFilter")
    BY <1>6 DEF PumpFilter
  <2>2. todo # <<>> /\ Head(todo).op \notin LoopOps /\ Types /\ S \in Streams /\ Arg \in 0..9
    BY <2>1, LooseAre, Calmly
  <2>3. SameHandlers
    <3>1. UNCHANGED tx \/ \E end : tx' = [tx EXCEPT ![S].end = end]
      BY <1>6, Zenon DEF PumpFilter
    <3> QED BY <2>2, <3>1, EndField, Unchanged
  <2>4. SameStreams
    <3>1. UNCHANGED stream \/ \E h2 : stream' = [stream EXCEPT ![S].h2 = h2]
      BY <1>6, Zenon DEF PumpFilter
    <3>2. seen' = seen
      BY <1>6 DEF PumpFilter
    <3> QED BY <2>2, <3>1, <3>2, OneField, Unchanged
  <2>5. \E x \in Seq(Loose) : Then(x)
    BY <1>6, <2>2, LooseRuns, LooseJoin DEF PumpFilter, When
  <2> QED BY <1>6, <2>2, <2>3, <2>4, <2>5, Unchanged DEF Calm, PumpFilter
<1>7. ASSUME SendReset PROVE Calm
  <2>1. Do("SendReset")
    BY <1>7 DEF SendReset
  <2>2. todo # <<>> /\ Head(todo).op \notin LoopOps /\ Types /\ S \in Streams /\ Arg \in 0..9
    BY <2>1, LooseAre, Calmly
  <2>3. SameStreams
    <3>1. seen' = seen /\ (stream' = stream \/ stream' = [stream EXCEPT ![S].h2 = "closed"])
      BY <1>7 DEF SendReset
    <3> QED BY <2>2, <3>1, Unchanged, OneField
  <2>4. \E x \in Seq(Loose) : Then(x)
    BY <1>7, <2>2, LooseSets, LooseJoin DEF SendReset, When
  <2> QED BY <1>7, <2>2, <2>3, <2>4, Unchanged DEF Calm, SendReset
<1>8. ASSUME Send PROVE Calm
  <2>1. Do("Send")
    BY <1>8 DEF Send
  <2>2. todo # <<>> /\ Head(todo).op \notin LoopOps /\ Types /\ S \in Streams /\ Arg \in 0..9
    BY <2>1, LooseAre, Calmly
  <2>3. SameHandlers
    <3>1. UNCHANGED tx \/ \E stale, end : tx' = [tx EXCEPT ![S].stale = stale, ![S].end = end]
      BY <1>8, Zenon DEF Send
    <3>2. ASSUME NEW stale, NEW end, tx' = [tx EXCEPT ![S].stale = stale, ![S].end = end]
          PROVE  SameHandlers
      BY <2>2, <3>2 DEF Types, TxType, SameHandlers, SameHandler
    <3> QED BY <3>1, <3>2, Unchanged
  <2>4. \E x \in Seq(Loose) : Then(x)
    BY <1>8, <2>2, LooseRuns, LooseForAlls, LooseJoin DEF Send, When
  <2> QED BY <1>8, <2>2, <2>3, <2>4, Unchanged DEF Calm, Send
<1>9. ASSUME Free PROVE Calm
  <2>1. Do("Free")
    BY <1>9 DEF Free
  <2>2. todo # <<>> /\ Head(todo).op \notin LoopOps /\ Types /\ S \in Streams /\ Arg \in 0..9
    BY <2>1, LooseAre, Calmly
  <2>3. SameHandlers
    BY <1>9, <2>2 DEF Free, Types, TxType, SameHandlers, SameHandler
  <2>4. \E x \in Seq(Loose) : Then(x)
    BY <1>9, <2>2, LooseRuns, LooseJoin DEF Free, When
  <2> QED BY <1>9, <2>2, <2>3, <2>4, Unchanged DEF Calm, Free
<1> QED BY <1>1, <1>2, <1>3, <1>4, <1>5, <1>6, <1>7, <1>8, <1>9

\* Of the connection and its filters
LEMMA NetCalm == ASSUME TypeOK, Idle \/ CloseStream \/ Abandon \/ Destroyed \/ Enable \/ ParseLine \/ ParseFields
PROVE  Calm
<1>1. ASSUME Idle PROVE Calm
  <2>1. Do("Idle")
    BY <1>1 DEF Idle
  <2>2. todo # <<>> /\ Head(todo).op \notin LoopOps /\ Types /\ S \in Streams /\ Arg \in 0..9
    BY <2>1, LooseAre, Calmly
  <2>3. \E x \in Seq(Loose) : Then(x)
    BY <1>1, <2>2, LooseJoin DEF Idle, When
  <2> QED BY <1>1, <2>2, <2>3, Unchanged DEF Calm, Idle
<1>2. ASSUME CloseStream PROVE Calm
  <2>1. Do("CloseStream")
    BY <1>2 DEF CloseStream
  <2>2. todo # <<>> /\ Head(todo).op \notin LoopOps /\ Types /\ S \in Streams /\ Arg \in 0..9
    BY <2>1, LooseAre, Calmly
  <2>3. \E x \in Seq(Loose) : Then(x)
    BY <1>2, <2>2, LooseRuns, LooseSets, LooseJoin DEF CloseStream, When
  <2> QED BY <1>2, <2>2, <2>3, Unchanged DEF Calm, CloseStream
<1>3. ASSUME Abandon PROVE Calm
  <2>1. Do("Abandon")
    BY <1>3 DEF Abandon
  <2>2. todo # <<>> /\ Head(todo).op \notin LoopOps /\ Types /\ S \in Streams /\ Arg \in 0..9
    BY <2>1, LooseAre, Calmly
  <2>3. \E x \in Seq(Loose) : Then(x)
    BY <1>3, <2>2, LooseSets, LooseJoin DEF Abandon, When
  <2> QED BY <1>3, <2>2, <2>3, Unchanged DEF Calm, Abandon
<1>4. ASSUME Destroyed PROVE Calm
  <2>1. Do("Destroyed")
    BY <1>4 DEF Destroyed
  <2>2. todo # <<>> /\ Head(todo).op \notin LoopOps /\ Types /\ S \in Streams /\ Arg \in 0..9
    BY <2>1, LooseAre, Calmly
  <2>3. \E x \in Seq(Loose) : Then(x)
    BY <1>4, <2>2, LooseJoin DEF Destroyed, When
  <2> QED BY <1>4, <2>2, <2>3, Unchanged DEF Calm, Destroyed
<1>5. ASSUME Enable PROVE Calm
  <2>1. Do("Enable")
    BY <1>5 DEF Enable
  <2>2. todo # <<>> /\ Head(todo).op \notin LoopOps /\ Types /\ S \in Streams /\ Arg \in 0..9
    BY <2>1, LooseAre, Calmly
  <2>3. \E x \in Seq(Loose) : Then(x)
    BY <1>5, <2>2, LooseJoin DEF Enable, When
  <2> QED BY <1>5, <2>2, <2>3, Unchanged DEF Calm, Enable
<1>6. ASSUME ParseLine PROVE Calm
  <2>1. Do("Line")
    BY <1>6 DEF ParseLine
  <2>2. todo # <<>> /\ Head(todo).op \notin LoopOps /\ Types /\ S \in Streams /\ Arg \in 0..9
    BY <2>1, LooseAre, Calmly
  <2>3. \E x \in Seq(Loose) : Then(x)
    BY <1>6, <2>2, LooseRuns, LooseSets, LooseJoin DEF ParseLine, When
  <2> QED BY <1>6, <2>2, <2>3, Unchanged DEF Calm, ParseLine
<1>7. ASSUME ParseFields PROVE Calm
  <2>1. Do("Fields")
    BY <1>7 DEF ParseFields
  <2>2. todo # <<>> /\ Head(todo).op \notin LoopOps /\ Types /\ S \in Streams /\ Arg \in 0..9
    BY <2>1, LooseAre, Calmly
  <2>3. \E x \in Seq(Loose) : Then(x)
    BY <1>7, <2>2, LooseSets, LooseJoin DEF ParseFields, When
  <2> QED BY <1>7, <2>2, <2>3, Unchanged DEF Calm, ParseFields
<1> QED BY <1>1, <1>2, <1>3, <1>4, <1>5, <1>6, <1>7

-----------------------------------------------------------------------------
(* The parts of a loop *)

PartCalls(s) == Loose \cup {c \in Calls : c.op \in PartOps /\ c.s = s}

LEMMA PartJoin == ASSUME NEW s \in Streams
PROVE  /\ \A x, y \in Seq(PartCalls(s)) : x \o y \in Seq(PartCalls(s))
       /\ \A x \in Seq(Loose) : x \in Seq(PartCalls(s))
       /\ <<Call("Route", s, 0)>> \in Seq(PartCalls(s)) /\ <<Call("Open", s, 0)>> \in Seq(PartCalls(s))
       /\ <<Call("StartHandler", s, 0)>> \in Seq(PartCalls(s))
<1>1. \A x \in Seq(Loose) : x \in Seq(PartCalls(s))
  BY DEF PartCalls
<1>2. \A op \in PartOps : op \in Ops
  BY DEF PartOps, Ops
<1>3. \A op \in PartOps : Call(op, s, 0) \in PartCalls(s)
  <2> TAKE op \in PartOps
  <2>1. Call(op, s, 0) \in Calls
    BY <1>2, 0 \in 0..9, CallType
  <2> QED BY <2>1 DEF PartCalls, Call
<1>4. \A op \in PartOps : <<Call(op, s, 0)>> \in Seq(PartCalls(s))
  BY <1>3
<1> QED BY <1>1, <1>4 DEF PartOps

LEMMA PartStep == ASSUME TypeOK, VInv, todo # <<>>, Head(todo).op \in PartOps, SameStreams,
                         \A s \in Streams \ {S} : SameHandler(s),
                         NEW x \in Seq(PartCalls(S)), Then(x)
                  PROVE  VInv'
<1>1. x \in Seq(Calls) /\ \A i \in 1..Len(x) : x[i] \in Loose \/ (x[i].op \in PartOps /\ x[i].s = S)
  BY DEF PartCalls, Loose
<1>2. Head(todo).op \notin LoopOps
  BY DEF PartOps, LoopOps
<1>3. \A s \in Streams : SameHandler(s) \/ (s = S /\ Head(todo).op \in PartOps)
  OBVIOUS
<1> QED BY <1>1, <1>2, <1>3, SteadyKeeps

LEMMA PartKeeps == ASSUME TypeOK, VInv, Route \/ Open \/ StartHandler
                   PROVE  VInv'
<1>1. todo # <<>> /\ Head(todo).op \in PartOps
  BY DEF Route, Open, StartHandler, Do, PartOps
<1>2. Types /\ S \in Streams
  BY <1>1, TopType DEF TypeOK, Types
<1>3. SameStreams
  BY Unchanged DEF Route, Open, StartHandler
<1>4. ASSUME Route PROVE VInv'
  <2>1. \A s \in Streams \ {S} : SameHandler(s)
    BY <1>2, <1>4 DEF Route, Types, TxType, SameHandler
  <2>2. \E x \in Seq(PartCalls(S)) : Then(x)
    <3>1. Error(S, Soft) \in Seq(PartCalls(S)) /\ <<>> \in Seq(PartCalls(S)) /\ Run("Open") \in Seq(PartCalls(S))
      BY <1>2, LooseSets, LooseJoin, PartJoin DEF Run
    <3> QED BY <1>2, <1>4, <3>1, PartJoin DEF Route, When
  <2> QED BY <1>1, <1>3, <2>1, <2>2, PartStep
<1>5. ASSUME Open PROVE VInv'
  <2>1. \A s \in Streams \ {S} : SameHandler(s)
    BY <1>2, <1>5 DEF Open, Types, TxType, SameHandler
  <2>2. \E x \in Seq(Loose) : Then(x)
    BY <1>2, <1>5, LooseSets, LooseRuns, LooseJoin DEF Open, When
  <2> QED BY <1>1, <1>2, <1>3, <2>1, <2>2, PartStep, PartJoin
<1>6. ASSUME StartHandler PROVE VInv'
  <2>1. \A s \in Streams \ {S} : SameHandler(s)
    BY <1>2, <1>6 DEF StartHandler, Types, TxType, SameHandler
  <2>2. \E x \in Seq(Loose) : Then(x)
    BY <1>2, <1>6, LooseSets, LooseRuns, LooseJoin DEF StartHandler, When
  <2> QED BY <1>1, <1>2, <1>3, <2>1, <2>2, PartStep, PartJoin
<1> QED BY <1>4, <1>5, <1>6

-----------------------------------------------------------------------------
(* The steps of the end of a connection and of a frame *)

BareCalls == {c \in Calls : Bare(c)}

LEMMA BareJoin ==
  /\ \A x, y \in Seq(BareCalls) : x \o y \in Seq(BareCalls)
  /\ <<>> \in Seq(BareCalls)
  /\ \A x \in Seq(Loose) : x \in Seq(BareCalls)
  /\ \A op \in Ops \ (LoopOps \cup PartOps) : ForAll(op) \in Seq(BareCalls)
  /\ S \in Streams => \A op \in Ops \ (LoopOps \cup PartOps) : Run(op) \in Seq(BareCalls)
<1>1. \A x \in Seq(Loose) : x \in Seq(BareCalls)
  BY DEF BareCalls, Bare, Loose
<1>2. \A op \in Ops \ (LoopOps \cup PartOps), s \in Streams : Call(op, s, 0) \in BareCalls
  <2> TAKE op \in Ops \ (LoopOps \cup PartOps), s \in Streams
  <2>1. Call(op, s, 0) \in Calls
    BY 0 \in 0..9, CallType
  <2> QED BY <2>1 DEF BareCalls, Bare, Call
<1>3. N \in Nat
  BY RequestAssumption
<1>4. \A op \in Ops \ (LoopOps \cup PartOps) : [s \in 1..N |-> Call(op, s, 0)] \in Seq(BareCalls)
  BY <1>2, <1>3 DEF Streams
<1> QED BY <1>1, <1>2, <1>4 DEF ForAll, Run, Streams

LEMMA LowSteps == ASSUME TypeOK, VInv, ServiceEnd \/ DestroyNet \/ RemoveStream \/ FrameDone \/ FrameClosed
                  PROVE  VInv'
<1>1. todo # <<>> /\ Head(todo).op \in LowOps
  BY DEF ServiceEnd, DestroyNet, RemoveStream, FrameDone, FrameClosed, Do, LowOps
<1>2. S \in Streams
  BY <1>1, TopType
<1>3. SameStreams /\ SameHandlers
  BY Unchanged DEF ServiceEnd, DestroyNet, RemoveStream, FrameDone, FrameClosed
<1>4. {"CloseStream", "DestroyNet", "Enable", "RemoveStream", "Destroyed", "Abandon", "DestroyStream", "SendReset", "FrameClosed"}
        \subseteq Ops \ (LoopOps \cup PartOps)
  BY DEF Ops, LoopOps, PartOps
<1>5. /\ ForAll("CloseStream") \in Seq(BareCalls) /\ ForAll("RemoveStream") \in Seq(BareCalls)
      /\ Run("DestroyNet") \in Seq(BareCalls) /\ Run("Enable") \in Seq(BareCalls) /\ Run("Destroyed") \in Seq(BareCalls)
      /\ Run("Abandon") \in Seq(BareCalls) /\ Run("DestroyStream") \in Seq(BareCalls)
      /\ Run("SendReset") \in Seq(BareCalls) /\ Run("FrameClosed") \in Seq(BareCalls)
  BY <1>2, <1>4, BareJoin
<1>6. \E x \in Seq(BareCalls) : Then(x)
  <2>1. ASSUME ServiceEnd PROVE \E x \in Seq(BareCalls) : Then(x)
    BY <2>1, <1>5, BareJoin DEF ServiceEnd
  <2>2. ASSUME DestroyNet PROVE \E x \in Seq(BareCalls) : Then(x)
    BY <2>2, <1>5, BareJoin DEF DestroyNet
  <2>3. ASSUME RemoveStream PROVE \E x \in Seq(BareCalls) : Then(x)
    BY <2>3, <1>5, BareJoin DEF RemoveStream, When
  <2>4. ASSUME FrameDone PROVE \E x \in Seq(BareCalls) : Then(x)
    BY <2>4, <1>5, BareJoin DEF FrameDone, When
  <2>5. ASSUME FrameClosed PROVE \E x \in Seq(BareCalls) : Then(x)
    BY <2>5, <1>5, BareJoin DEF FrameClosed, When
  <2> QED BY <2>1, <2>2, <2>3, <2>4, <2>5
<1>7. PICK x \in Seq(BareCalls) : Then(x)
  BY <1>6
<1>8. x \in Seq(Calls) /\ \A i \in 1..Len(x) : Bare(x[i])
  BY DEF BareCalls
<1> QED BY <1>1, <1>3, <1>7, <1>8, LowKeeps

\* httpDestroyStream closes the pipeline.
LEMMA DestroySteps == ASSUME TypeOK, VInv, DestroyStream
                      PROVE  VInv'
<1>1. todo # <<>> /\ Head(todo).op \in LowOps /\ Then(<<>>)
  BY DEF DestroyStream, Do, LowOps
<1>2. S \in Streams /\ Types /\ <<>> \in Seq(Calls)
  BY <1>1, TopType DEF TypeOK, Types
<1>0. \A i \in 1..Len(<<>>) : FALSE
  OBVIOUS
<1>3. CASE stream[S].destroyed
  <2>1. SameStreams /\ SameHandlers
    BY <1>3, Unchanged DEF DestroyStream
  <2> QED BY <1>0, <1>1, <1>2, <2>1, LowKeeps
<1>4. CASE ~stream[S].destroyed
  <2>1. Alone
    BY <1>1, LowTop DEF Alone, NoLoops, Loops
  <2>2. PICK t \in Streams : t = S
    BY <1>2
  <2>3. \A s \in Streams \ {S} : SameStream(s) /\ SameHandler(s)
    BY <1>2, <1>4 DEF DestroyStream, Types, StreamType, TxType, SameStream, SameHandler
  <2>4. /\ ~tx'[t].opened /\ ~tx'[t].working /\ stream'[t].destroyed
        /\ stream'[t].completed = stream[t].completed /\ seen'[t] = seen[t]
    BY <1>2, <1>4, <2>2 DEF DestroyStream, Types, StreamType, TxType
  <2>5. VisitOK(t)'
    BY <2>4 DEF VInv, VisitOK, HandlerOK, ReportOK, PathOK
  <2> QED BY <1>0, <1>1, <1>2, <2>1, <2>2, <2>3, <2>5, TurnKeeps
<1> QED BY <1>3, <1>4

-----------------------------------------------------------------------------
(* The turns *)

\* A turn ends with the call c of its loop, after the calls y.
LEMMA TurnStep ==
  ASSUME TypeOK, VInv, todo # <<>>, Alone, NEW t \in Streams, t = S, VisitOK(t)',
         \A s \in Streams \ {t} : SameStream(s) /\ SameHandler(s),
         NEW y \in Seq(PartCalls(t)), y \in Seq(Loose) \/ stream'[t].state \in {Parsed, Ready},
         NEW c \in Calls, c.op \in LoopOps, c.s = t, TurnOK(c, stream'[t]), Then(y \o <<c>>)
  PROVE  VInv'
<1> DEFINE x == y \o <<c>>
<1>1. y \in Seq(Calls)
  BY DEF PartCalls, Loose
<1>2. x \in Seq(Calls) /\ Len(x) = Len(y) + 1 /\ Len(y) \in Nat /\ x[Len(x)] = c
  BY <1>1
<1>3. ASSUME NEW i \in 1..Len(x)
      PROVE  i = Len(x) \/ (i \in 1..Len(y) /\ x[i] = y[i])
  BY <1>1, <1>2
<1>4. ASSUME NEW i \in 1..Len(y)
      PROVE  /\ y[i].op \notin LoopOps \cup LowOps
             /\ y[i].op \in PartOps => y[i].s = t /\ stream'[t].state \in {Parsed, Ready}
  <2>1. y[i] \in PartCalls(t)
    OBVIOUS
  <2>2. y[i].op \notin LoopOps \cup LowOps /\ (y[i] \notin Loose => y[i].s = t)
    BY <2>1 DEF PartCalls, Loose, PartOps, LoopOps, LowOps
  <2>3. y[i].op \in PartOps => y[i] \notin Loose
    BY DEF Loose
  <2>4. y \in Seq(Loose) => y[i] \in Loose
    OBVIOUS
  <2> QED BY <2>2, <2>3, <2>4
<1> HIDE DEF x
<1>5. \A i \in 1..Len(x) : x[i].op \notin LowOps
  BY <1>2, <1>3, <1>4 DEF LoopOps, LowOps
<1>6. \A i \in 1..Len(x) : x[i].op \in LoopOps => i = Len(x) /\ x[i].s = S /\ TurnOK(x[i], stream'[S])
  <2> TAKE i \in 1..Len(x)
  <2>1. CASE i = Len(x)
    BY <1>2, <2>1
  <2>2. CASE i \in 1..Len(y) /\ x[i] = y[i]
    BY <1>4, <2>2
  <2> QED BY <1>3, <2>1, <2>2
<1>7. \A i \in 1..Len(x) : x[i].op \in PartOps =>
         x[i].s = S /\ stream'[S].state \in {Parsed, Ready} /\ x[Len(x)].op \in LoopOps
  <2> TAKE i \in 1..Len(x)
  <2>1. CASE i = Len(x)
    BY <1>2, <2>1 DEF LoopOps, PartOps
  <2>2. CASE i \in 1..Len(y) /\ x[i] = y[i]
    BY <1>2, <1>4, <2>2
  <2> QED BY <1>3, <2>1, <2>2
<1>8. Then(x)
  BY DEF x
<1> QED BY <1>2, <1>5, <1>6, <1>7, <1>8, TurnKeeps

\* The loop ends: what follows it may be called at any time.
LEMMA LastStep ==
  ASSUME TypeOK, VInv, todo # <<>>, Alone, NEW t \in Streams, t = S, VisitOK(t)',
         \A s \in Streams \ {t} : SameStream(s) /\ SameHandler(s),
         NEW x \in Seq(Loose), Then(x)
  PROVE  VInv'
<1>1. x \in Seq(Calls) /\ \A i \in 1..Len(x) : x[i].op \notin LoopOps \cup LowOps \cup PartOps
  <2>1. \A i \in 1..Len(x) : x[i] \in Loose
    OBVIOUS
  <2> QED BY <2>1 DEF Loose
<1> QED BY <1>1, TurnKeeps

\* What a turn needs to know of the call that it is
LEMMA TurnTop == ASSUME TypeOK, VInv, NEW op \in LoopOps, Do(op)
PROVE  /\ todo # <<>> /\ Types /\ S \in Streams /\ Arg \in 0..9 /\ Alone /\ VisitOK(S)
       /\ Head(todo).op = op /\ Head(todo).s = S /\ Head(todo).n = Arg
       /\ TurnOK(Head(todo), stream[S])
<1>1. todo # <<>> /\ Head(todo).op = op
  BY DEF Do
<1>2. S \in Streams /\ Arg \in 0..9 /\ todo \in Seq(Calls) /\ Types
  BY <1>1, TopType DEF TypeOK, Types
<1>3. 1 \in 1..Len(todo) /\ todo[1] = Head(todo)
  BY <1>1, <1>2
<1>4. WaitOK(1) /\ VisitOK(S)
  BY <1>2, <1>3 DEF VInv
<1>5. Alone
  BY <1>1, AloneTop
<1> QED BY <1>1, <1>2, <1>3, <1>4, <1>5 DEF WaitOK, S, Arg

LEMMA SameVisit == ASSUME VInv, NEW t \in Streams, SameStream(t), SameHandler(t), stream[t].state \notin {Finalized, Complete}
                   PROVE  VisitOK(t)'
<1>1. VisitOK(t)
  BY DEF VInv
<1>2. HandlerOK(t)'
  BY <1>1 DEF VisitOK, HandlerOK, SameStream, SameHandler
<1>3. ReportOK(t)'
  BY <1>1 DEF VisitOK, ReportOK, SameStream
<1>4. PathOK(t)'
  BY <1>1 DEF VisitOK, PathOK, SameStream, Missed
<1> QED BY <1>2, <1>3, <1>4 DEF VisitOK

LEMMA UpdateCall == ASSUME NEW t \in Streams, NEW n \in 0..9, NEW r, r.setting, r.state \in Nat,
                           n <= r.state + 1 \/ (n = Ready /\ r.state = Parsed /\ r.disconnect)
PROVE  /\ Call("Update", t, n) \in Calls /\ Call("Update", t, n).op \in LoopOps /\ Call("Update", t, n).s = t
       /\ TurnOK(Call("Update", t, n), r)
<1>1. Call("Update", t, n) \in Calls
  BY CallType DEF Ops
<1> QED BY <1>1 DEF Call, LoopOps, TurnOK

LEMMA LastOfThree == ASSUME NEW C, NEW y \in Seq(C), NEW a, NEW b, NEW c
                     PROVE  y \o <<a, b, c>> = (y \o <<a, b>>) \o <<c>>
OBVIOUS

LEMMA ProcessTurns == ASSUME TypeOK, VInv, ProcessFirst \/ ProcessParsed \/ ProcessContent \/ ProcessReady
                      PROVE  VInv'
<1> DEFINE Goes(t, y, n) == Then(y \o <<Call("Update", t, n)>>)
<1>1. PICK op \in {"First", "Parsed", "Content", "Ready"} : Do(op)
  BY DEF ProcessFirst, ProcessParsed, ProcessContent, ProcessReady
<1>2. /\ todo # <<>> /\ Types /\ S \in Streams /\ Alone /\ Head(todo).op = op /\ TurnOK(Head(todo), stream[S])
  BY <1>1, TurnTop DEF LoopOps
<1>3. PICK t \in Streams : t = S
  BY <1>2
<1>4. SameStreams /\ SameHandlers /\ stream' = stream
  BY Unchanged DEF ProcessFirst, ProcessParsed, ProcessContent, ProcessReady
<1>5. stream[t].state \in Nat /\ stream[t].setting /\ stream[t].state \in {First, Parsed, Content, Ready}
  BY <1>1, <1>2, <1>3 DEF TurnOK, First, Parsed, Content, Ready
<1>6. VisitOK(t)'
  BY <1>4, <1>5, SameVisit DEF SameStreams, SameHandlers, First, Parsed, Content, Ready, Finalized, Complete
<1>7. ASSUME NEW y \in Seq(PartCalls(t)), y \in Seq(Loose) \/ stream[t].state \in {Parsed, Ready}, NEW n \in 0..9, Goes(t, y, n),
             n <= stream[t].state + 1 \/ (n = Ready /\ stream[t].state = Parsed /\ stream[t].disconnect)
      PROVE  VInv'
  <2>1. /\ Call("Update", t, n) \in Calls /\ Call("Update", t, n).op \in LoopOps /\ Call("Update", t, n).s = t
        /\ TurnOK(Call("Update", t, n), stream[t])
    BY <1>5, <1>7, UpdateCall
  <2>2. \A s \in Streams \ {t} : SameStream(s) /\ SameHandler(s)
    BY <1>4 DEF SameStreams, SameHandlers
  <2> QED BY <1>2, <1>3, <1>4, <1>6, <1>7, <2>1, <2>2, TurnStep
<1>8. <<>> \in Seq(PartCalls(t)) /\ <<>> \in Seq(Loose)
  OBVIOUS
<1>9. \A c : <<c>> = <<>> \o <<c>>
  OBVIOUS
<1> HIDE DEF Goes
<1>10. ASSUME ProcessFirst PROVE VInv'
  <2>1. stream[t].state = First
    BY <1>2, <1>3, <1>10, TurnTop DEF ProcessFirst, TurnOK, Do
  <2>2. Error(t, Close) \in Seq(PartCalls(t)) /\ Error(t, Close) \in Seq(Loose)
    BY LooseSets, PartJoin
  <2>3. Goes(t, Error(t, Close), 0) \/ Goes(t, <<>>, First)
    BY <1>3, <1>9, <1>10 DEF ProcessFirst, Goes
  <2>4. 0 <= stream[t].state + 1 /\ First <= stream[t].state + 1 /\ 0 \in 0..9 /\ First \in 0..9
    BY <2>1 DEF First
  <2> QED BY <1>7, <1>8, <2>2, <2>3, <2>4
<1>11. ASSUME ProcessParsed PROVE VInv'
  <2>1. stream[t].state = Parsed
    BY <1>2, <1>3, <1>11 DEF ProcessParsed, TurnOK, Do
  <2>2. CASE stream[t].disconnect
    <3>1. Goes(t, <<>>, Ready) /\ Ready \in 0..9
      BY <1>3, <1>9, <1>11, <2>2 DEF ProcessParsed, Goes, Ready
    <3> QED BY <1>7, <1>8, <2>1, <2>2, <3>1
  <2>3. CASE ~stream[t].disconnect
    <3>1. PICK badQuery \in BOOLEAN, tooBig \in BOOLEAN :
            Goes(t, When(badQuery, Error(t, Soft)) \o When(rx[t].streaming, Run("Route") \o Run("StartHandler"))
                    \o When(tooBig, Error(t, Close)), Content)
      BY <1>3, <1>11, <2>3, Zenon DEF ProcessParsed, Goes
    <3>2. /\ Error(t, Soft) \in Seq(PartCalls(t)) /\ Error(t, Close) \in Seq(PartCalls(t))
          /\ Run("Route") \in Seq(PartCalls(t)) /\ Run("StartHandler") \in Seq(PartCalls(t))
      BY <1>3, LooseSets, PartJoin DEF Run
    <3>3. /\ When(badQuery, Error(t, Soft)) \in Seq(PartCalls(t)) /\ When(tooBig, Error(t, Close)) \in Seq(PartCalls(t))
          /\ When(rx[t].streaming, Run("Route") \o Run("StartHandler")) \in Seq(PartCalls(t))
      BY <1>8, <3>2, PartJoin DEF When
    <3>4. When(badQuery, Error(t, Soft)) \o When(rx[t].streaming, Run("Route") \o Run("StartHandler"))
            \o When(tooBig, Error(t, Close)) \in Seq(PartCalls(t))
      BY <3>3, PartJoin
    <3>5. Content \in 0..9 /\ Content <= stream[t].state + 1
      BY <2>1 DEF Content, Parsed
    <3> QED BY <1>7, <2>1, <3>1, <3>4, <3>5
  <2> QED BY <2>2, <2>3
<1>12. ASSUME ProcessContent PROVE VInv'
  <2>1. stream[t].state = Content
    BY <1>2, <1>3, <1>12 DEF ProcessContent, TurnOK, Do
  <2>2. Run("InputEnd") \in Seq(PartCalls(t)) /\ Run("InputEnd") \in Seq(Loose)
    BY <1>2, LooseRuns, PartJoin
  <2>3. Goes(t, <<>>, Content) \/ Goes(t, Run("InputEnd"), Ready)
    BY <1>3, <1>9, <1>12 DEF ProcessContent, Goes
  <2>4. Content <= stream[t].state + 1 /\ Ready <= stream[t].state + 1 /\ Content \in 0..9 /\ Ready \in 0..9
    BY <2>1 DEF Content, Ready
  <2> QED BY <1>7, <1>8, <2>2, <2>3, <2>4
<1>13. ASSUME ProcessReady PROVE VInv'
  <2>1. stream[t].state = Ready
    BY <1>2, <1>3, <1>13 DEF ProcessReady, TurnOK, Do
  <2> DEFINE w == When(rx[t].eof, Run("Route") \o Run("StartHandler"))
             a == Call("Service", t, 1)
             b == Call("ReadyHandler", t, 0)
  <2>2. w \in Seq(PartCalls(t))
    BY <1>3, <1>8, PartJoin DEF When, Run
  <2>3. <<a, b>> \in Seq(PartCalls(t))
    <3>1. "Service" \in LooseOps /\ "ReadyHandler" \in LooseOps
      BY LooseAre
    <3>2. a \in Loose /\ b \in Loose
      BY <3>1, 0 \in 0..9, 1 \in 0..9, LooseCall
    <3> QED BY <3>2 DEF PartCalls
  <2>4. Then(w \o <<a, b, Call("Update", t, Running)>>)
    BY <1>3, <1>13 DEF ProcessReady
  <2> HIDE DEF w, a, b
  <2>5. Goes(t, w \o <<a, b>>, Running)
    <3>1. w \o <<a, b, Call("Update", t, Running)>> = (w \o <<a, b>>) \o <<Call("Update", t, Running)>>
      BY <2>2, LastOfThree
    <3> QED BY <2>4, <3>1 DEF Goes
  <2>6. w \o <<a, b>> \in Seq(PartCalls(t))
    BY <2>2, <2>3, PartJoin
  <2>7. Running \in 0..9 /\ Running <= stream[t].state + 1
    BY <2>1 DEF Running, Ready
  <2> QED BY <1>7, <2>1, <2>5, <2>6, <2>7
<1> QED BY <1>10, <1>11, <1>12, <1>13

\* The loop goes on after the pipeline is closed, or from PARSED again.
LEMMA FinalizedTurns == ASSUME TypeOK, VInv, ProcessFinalized
                        PROVE  VInv'
<1>1. /\ todo # <<>> /\ Types /\ S \in Streams /\ Alone /\ TurnOK(Head(todo), stream[S]) /\ VisitOK(S)
      /\ Head(todo).op = "Finalized"
  BY TurnTop DEF ProcessFinalized, LoopOps
<1>2. PICK t \in Streams : t = S
  BY <1>1
<1>3. stream[t].state = Finalized /\ stream[t].setting /\ VisitOK(t)
  BY <1>1, <1>2 DEF TurnOK
<1>4. <<>> \in Seq(PartCalls(t)) /\ <<>> \in Seq(Loose) /\ \A c : <<c>> = <<>> \o <<c>>
  OBVIOUS
<1>5. \A s \in Streams \ {t} : SameStream(s) /\ SameHandler(s)
  BY <1>1, <1>2 DEF ProcessFinalized, Types, StreamType, TxType, SameStream, SameHandler
<1>6. ~tx'[t].opened /\ ~tx'[t].working
  BY <1>1, <1>2 DEF ProcessFinalized, Types, TxType, FreshTx
<1>7. /\ stream'[t].state \in {Parsed, Finalized} /\ stream'[t].setting = stream[t].setting /\ seen'[t] = seen[t]
      /\ stream'[t].completed = stream[t].completed /\ stream'[t].destroyed = stream[t].destroyed
      /\ stream'[t].disconnect = stream[t].disconnect
  <2>1. seen' = seen
    BY DEF ProcessFinalized
  <2>2. \/ stream' = stream
        \/ stream' = [stream EXCEPT ![t].counted = FALSE]
        \/ stream' = [stream EXCEPT ![t].state = Parsed, ![t].target = Begin, ![t].error = FALSE,
                                    ![t].timer = "none", ![t].h2 = "idle"]
    BY <1>2 DEF ProcessFinalized
  <2>3. CASE stream' = stream
    BY <1>3, <2>1, <2>3
  <2>4. CASE stream' = [stream EXCEPT ![t].counted = FALSE]
    BY <1>1, <1>3, <2>1, <2>4 DEF Types, StreamType
  <2>5. CASE stream' = [stream EXCEPT ![t].state = Parsed, ![t].target = Begin, ![t].error = FALSE,
                                     ![t].timer = "none", ![t].h2 = "idle"]
    <3>1. stream \in [Streams -> StreamType]
      BY <1>1 DEF Types
    <3>2. stream'[t] = [stream[t] EXCEPT !.state = Parsed, !.target = Begin, !.error = FALSE, !.timer = "none", !.h2 = "idle"]
      BY <2>5, <3>1
    <3>3. stream[t] \in StreamType
      BY <3>1
    <3> QED BY <2>1, <3>2, <3>3 DEF StreamType
  <2> QED BY <2>2, <2>3, <2>4, <2>5
<1>8. VisitOK(t)'
  <2>1. Missed(t)' \subseteq Missed(t)
    BY <1>3, <1>7 DEF Missed, Begin, Parsed, Finalized
  <2>2. PathOK(t)'
    BY <1>3, <1>7, <2>1 DEF VisitOK, PathOK
  <2>3. ReportOK(t)'
    BY <1>3, <1>7 DEF VisitOK, ReportOK, Parsed, Finalized, Complete
  <2> QED BY <1>6, <2>2, <2>3 DEF VisitOK, HandlerOK
<1>9. ASSUME NEW c \in Calls, c.op \in LoopOps, c.s = t, TurnOK(c, stream'[t]), Then(<<c>>)
      PROVE  VInv'
  <2>1. Then(<<>> \o <<c>>)
    BY <1>4, <1>9
  <2> QED BY <1>1, <1>2, <1>4, <1>5, <1>8, <1>9, <2>1, TurnStep
<1>10. CASE stream'[t].state = Finalized
  <2>1. PICK n \in {Finalized, Complete} : Then(<<Call("Update", t, n)>>)
    BY <1>2, <1>3, <1>10, <1>1 DEF ProcessFinalized, Types, StreamType, Parsed, Finalized
  <2>2. n \in 0..9 /\ n <= stream'[t].state + 1 /\ stream'[t].state \in Nat /\ stream'[t].setting
    BY <1>3, <1>7, <1>10 DEF Finalized, Complete
  <2> QED BY <1>9, <2>1, <2>2, UpdateCall
<1>11. CASE stream'[t].state = Parsed
  <2>1. Then(<<Call("Parsed", t, 0)>>)
    <3>1. CASE stream' = stream
      BY <1>3, <1>11, <3>1 DEF Parsed, Finalized
    <3>2. CASE stream' = [stream EXCEPT ![t].counted = FALSE]
      <4>1. stream'[t].state = stream[t].state
        BY <1>1, <3>2 DEF Types, StreamType
      <4> QED BY <1>3, <1>11, <4>1 DEF Parsed, Finalized
    <3>3. CASE Then(Run("Parsed"))
      BY <1>2, <3>3 DEF Run
    <3> QED BY <1>2, <3>1, <3>2, <3>3 DEF ProcessFinalized
  <2>2. Call("Parsed", t, 0) \in Calls
    BY "Parsed" \in Ops, 0 \in 0..9, CallType DEF Ops
  <2>3. TurnOK(Call("Parsed", t, 0), stream'[t])
    BY <1>3, <1>7, <1>11 DEF TurnOK, Call
  <2>4. Call("Parsed", t, 0).op \in LoopOps /\ Call("Parsed", t, 0).s = t
    BY DEF Call, LoopOps
  <2> QED BY <1>9, <2>1, <2>2, <2>3, <2>4
<1> QED BY <1>7, <1>10, <1>11

-----------------------------------------------------------------------------
(* httpSetState *)

\* What the visit of a state calls ends with the call c of the loop.
VisitEnds(y, c, t, next) ==
  /\ Visit(t, next) = y \o <<c>> /\ c.op \in LoopOps /\ c.s = t
  /\ \A r : r.setting /\ r.state = next => TurnOK(c, r)
  /\ next = Complete => c.op = "Update"
  /\ next = Finalized => c.op = "Finalized" /\ y = <<>>

LEMMA VisitCalls == ASSUME NEW t \in Streams, NEW next \in 1..9
                    PROVE  \E y \in Seq(Loose), c \in Calls : VisitEnds(y, c, t, next)
<1>1. /\ First # Parsed /\ First # Content /\ First # Ready /\ First # Finalized /\ Parsed # Content /\ Parsed # Ready
      /\ Parsed # Finalized /\ Content # Ready /\ Content # Finalized /\ Ready # Finalized
      /\ Complete \notin {First, Parsed, Content, Ready, Finalized} /\ next \in 0..9 /\ next \in Nat
  BY DEF First, Parsed, Content, Ready, Finalized, Complete
<1>2. <<>> \in Seq(Loose) /\ \A c : <<c>> = <<>> \o <<c>>
  OBVIOUS
<1>3. CASE next = Parsed
  <2>1. PICK c \in Calls : c = Call("Headers", t, 0) /\ c.op = "Headers" /\ c.s = t
    BY OpsAre, CallIs
  <2>2. PICK d \in Calls : d = Call("Parsed", t, 0) /\ d.op = "Parsed" /\ d.s = t
    BY OpsAre, CallIs
  <2>3. Visit(t, next) = <<c, d>>
    BY <1>1, <1>3, <2>1, <2>2 DEF Visit
  <2>4. <<c, d>> = <<c>> \o <<d>>
    OBVIOUS
  <2>5. c \in Loose
    BY <2>1 DEF Loose, LoopOps, PartOps, LowOps
  <2>6. VisitEnds(<<c>>, d, t, next)
    BY <1>1, <1>3, <2>2, <2>3, <2>4 DEF VisitEnds, LoopOps, TurnOK
  <2>7. <<c>> \in Seq(Loose)
    BY <2>5
  <2> QED BY <2>6, <2>7
<1>4. CASE next = First
  <2>1. PICK c \in Calls : c = Call("First", t, 0) /\ c.op = "First" /\ c.s = t
    BY OpsAre, CallIs
  <2>2. Visit(t, next) = <<c>>
    BY <1>1, <1>4, <2>1 DEF Visit
  <2>3. VisitEnds(<<>>, c, t, next)
    BY <1>1, <1>2, <1>4, <2>1, <2>2 DEF VisitEnds, LoopOps, TurnOK
  <2> QED BY <1>2, <2>3
<1>5. CASE next = Content
  <2>1. PICK c \in Calls : c = Call("Content", t, 0) /\ c.op = "Content" /\ c.s = t
    BY OpsAre, CallIs
  <2>2. Visit(t, next) = <<c>>
    BY <1>1, <1>5, <2>1 DEF Visit
  <2>3. VisitEnds(<<>>, c, t, next)
    BY <1>1, <1>2, <1>5, <2>1, <2>2 DEF VisitEnds, LoopOps, TurnOK
  <2> QED BY <1>2, <2>3
<1>6. CASE next = Ready
  <2>1. PICK c \in Calls : c = Call("Ready", t, 0) /\ c.op = "Ready" /\ c.s = t
    BY OpsAre, CallIs
  <2>2. Visit(t, next) = <<c>>
    BY <1>1, <1>6, <2>1 DEF Visit
  <2>3. VisitEnds(<<>>, c, t, next)
    BY <1>1, <1>2, <1>6, <2>1, <2>2 DEF VisitEnds, LoopOps, TurnOK
  <2> QED BY <1>2, <2>3
<1>7. CASE next = Finalized
  <2>1. PICK c \in Calls : c = Call("Finalized", t, 0) /\ c.op = "Finalized" /\ c.s = t
    BY OpsAre, CallIs
  <2>2. Visit(t, next) = <<c>>
    BY <1>1, <1>7, <2>1 DEF Visit
  <2>3. VisitEnds(<<>>, c, t, next)
    BY <1>1, <1>2, <1>7, <2>1, <2>2 DEF VisitEnds, LoopOps, TurnOK
  <2> QED BY <1>2, <2>3
<1>8. CASE next \notin {First, Parsed, Content, Ready, Finalized}
  <2>0. "Update" \in Ops /\ next \in 0..9
    BY <1>1, OpsAre
  <2>1. PICK c \in Calls : c = Call("Update", t, next) /\ c.op = "Update" /\ c.s = t /\ c.n = next
    BY <2>0, CallIs
  <2>2. Visit(t, next) = <<c>>
    BY <1>1, <1>8, <2>1 DEF Visit
  <2>3. VisitEnds(<<>>, c, t, next)
    BY <1>1, <1>2, <1>8, <2>1, <2>2 DEF VisitEnds, LoopOps, TurnOK
  <2> QED BY <1>2, <2>3
<1> QED BY <1>3, <1>4, <1>5, <1>6, <1>7, <1>8

LEMMA Between == ASSUME NEW k \in Nat, NEW m \in Nat, NEW v \in 1..k, v # k, v \notin 1..m
                 PROVE  v \in Nat /\ v < k /\ v > m /\ ~(k <= m + 1)
OBVIOUS

LEMMA EnterTurns ==
  ASSUME TypeOK, VInv, todo # <<>>, Head(todo).op # "Finalized", Alone, NEW t \in Streams, t = S,
         NEW target \in 0..9, NEW next \in 1..10, next > stream[t].state,
         next <= stream[t].state + 1 \/ (next = Ready /\ stream[t].state = Parsed /\ stream[t].disconnect),
         Enter(t, next, target), UNCHANGED <<rx, tx, faults>>
  PROVE  VInv'
<1>1. next \in 1..9 /\ Types /\ stream[t].state \in 0..9 /\ next \in Nat /\ todo \in Seq(Calls)
  <2>1. next <= target
    BY DEF Enter
  <2>2. next \in 1..9
    BY <2>1
  <2> QED BY <2>2 DEF TypeOK, Types, StreamType
<1>15. stream[t].state \in Nat
  BY <1>1
<1>0. PICK y \in Seq(Loose), c \in Calls : VisitEnds(y, c, t, next)
  BY <1>1, VisitCalls
<1>2. /\ Visit(t, next) = y \o <<c>> /\ c.op \in LoopOps /\ c.s = t
      /\ \A r : r.setting /\ r.state = next => TurnOK(c, r)
      /\ next = Complete => c.op = "Update"
      /\ next = Finalized => c.op = "Finalized" /\ y = <<>>
  BY <1>0 DEF VisitEnds
<1>3. /\ stream'[t].state = next /\ stream'[t].setting /\ stream'[t].completed = stream[t].completed
      /\ stream'[t].destroyed = stream[t].destroyed /\ stream'[t].disconnect = stream[t].disconnect
  BY <1>1 DEF Enter, Types, StreamType
<1>4. seen'[t].states = seen[t].states \cup {next} /\ seen'[t].done = seen[t].done
  BY <1>1 DEF Enter, Types, SeenType
<1>5. \A s \in Streams \ {t} : SameStream(s) /\ SameHandler(s)
  BY <1>1 DEF Enter, Types, StreamType, SeenType, SameStream, SameHandler
<1>6. Then(y \o <<c>>) /\ TurnOK(c, stream'[t])
  BY <1>2, <1>3 DEF Enter
<1>7. VisitOK(t)
  BY DEF VInv
<1>8. /\ Len(y) \in Nat /\ y \o <<c>> \in Seq(Calls) /\ Len(y) + 1 \in 1..Len(y \o <<c>>)
      /\ (y \o <<c>>)[Len(y) + 1] = c
  <2>1. y \in Seq(Calls)
    BY DEF Loose
  <2> QED BY <2>1
<1>9. Len(y) + 1 \in 1..Len(todo') /\ todo'[Len(y) + 1] = c /\ todo' \in Seq(Calls)
  <2>1. \A i \in 1..Len(y \o <<c>>) : i \in 1..Len(todo') /\ todo'[i] = (y \o <<c>>)[i]
    BY <1>6, <1>8, Pushed
  <2>2. todo' \in Seq(Calls)
    BY <1>1, <1>6, <1>8, Push DEF Then
  <2> QED BY <1>8, <2>1, <2>2
<1>10. HandlerOK(t)'
  <2>1. tx[t].opened \/ tx[t].working => stream[t].state \in Parsed..Running
    BY <1>7 DEF VisitOK, HandlerOK
  <2>2. tx[t].opened \/ tx[t].working => next \in Parsed..Running \/ next = Finalized
    BY <1>1, <2>1 DEF Parsed, Ready, Running, Finalized
  <2>3. next = Finalized => todo' # <<>> /\ Head(todo').op = "Finalized" /\ Head(todo').s = t
    <3> HAVE next = Finalized
    <3>1. y = <<>>
      BY <1>2
    <3>2. Len(y) + 1 = 1
      BY <3>1
    <3>3. todo' # <<>> /\ Head(todo') = c
      BY <1>9, <3>2
    <3> QED BY <1>2, <3>3
  <2> QED BY <1>3, <2>2, <2>3 DEF HandlerOK
<1>11. ReportOK(t)'
  <2>1. next = Complete => \E i \in 1..Len(todo') : todo'[i].op = "Update" /\ todo'[i].s = t
    BY <1>2, <1>9
  <2> QED BY <1>3, <1>4, <1>7, <2>1 DEF VisitOK, ReportOK
<1>12. PathOK(t)'
  <2>1. (Begin..next) \ (seen[t].states \cup {next}) \subseteq Missed(t) \cup (IF stream[t].disconnect THEN {Content} ELSE {})
    <3> SUFFICES ASSUME NEW v \in Begin..next, v # next, v \notin seen[t].states, v \notin Begin..stream[t].state
                 PROVE  stream[t].disconnect /\ v = Content
      BY DEF Missed
    <3>1. stream[t].state \in Nat /\ v \in 1..next /\ v \notin 1..stream[t].state
      BY <1>15 DEF Begin
    <3>2. v \in Nat /\ v < next /\ v > stream[t].state /\ ~(next <= stream[t].state + 1)
      BY <1>1, <3>1, Between
    <3> QED BY <3>2 DEF Ready, Parsed, Content
  <2>2. PathOK(t)
    BY <1>7 DEF VisitOK
  <2> QED BY <1>3, <1>4, <2>1, <2>2 DEF PathOK, Missed
<1>13. VisitOK(t)'
  BY <1>10, <1>11, <1>12 DEF VisitOK
<1>14. y \in Seq(PartCalls(t))
  BY PartJoin
<1> QED BY <1>2, <1>5, <1>6, <1>13, <1>14, TurnStep

LEMMA LeaveTurns ==
  ASSUME TypeOK, VInv, todo # <<>>, Head(todo).op # "Finalized", Alone, NEW t \in Streams, t = S,
         NEW next, NEW target \in 0..9, Leave(t, next, target), UNCHANGED <<rx, tx, faults>>
  PROVE  VInv'
<1>1. Types /\ VisitOK(t)
  BY DEF TypeOK, Types, VInv
<1>2. /\ stream'[t].state = stream[t].state /\ stream'[t].destroyed = stream[t].destroyed
      /\ stream'[t].disconnect = stream[t].disconnect
      /\ stream'[t].completed = (stream[t].completed \/ stream[t].state = Complete)
  BY <1>1 DEF Leave, Types, StreamType
<1>3. /\ seen'[t].states = seen[t].states
      /\ seen'[t].done = IF stream[t].state = Complete /\ ~stream[t].completed THEN seen[t].done + 1 ELSE seen[t].done
  BY <1>1 DEF Leave, Types, SeenType
<1>4. \A s \in Streams \ {t} : SameStream(s) /\ SameHandler(s)
  BY <1>1 DEF Leave, Types, StreamType, SeenType, SameStream, SameHandler
<1>5. \E x \in Seq(Loose) : Then(x)
  <2>1. "Service" \in LooseOps /\ "Kick" \in LooseOps
    BY LooseAre
  <2>2. <<Call("Service", t, 1)>> \in Seq(Loose) /\ <<Call("Kick", t, 0)>> \in Seq(Loose)
    BY <2>1, 0 \in 0..9, 1 \in 0..9, LooseCall
  <2> QED BY <2>2, LooseJoin DEF Leave, When
<1>6. HandlerOK(t)'
  <2>1. tx[t].opened \/ tx[t].working => stream[t].state \in Parsed..Running
    BY <1>1 DEF VisitOK, HandlerOK
  <2> QED BY <1>2, <2>1 DEF HandlerOK
<1>7. ReportOK(t)'
  <2>1. seen[t].done = IF stream[t].completed THEN 1 ELSE 0
    BY <1>1 DEF VisitOK, ReportOK
  <2>2. CASE stream[t].completed
    BY <1>2, <1>3, <2>1, <2>2 DEF ReportOK
  <2>3. CASE ~stream[t].completed /\ stream[t].state = Complete
    <3>1. stream'[t].completed /\ seen[t].done = 0 /\ seen'[t].done = 0 + 1
      BY <1>2, <1>3, <2>1, <2>3
    <3> QED BY <3>1 DEF ReportOK
  <2>4. CASE ~stream[t].completed /\ stream[t].state # Complete
    BY <1>2, <1>3, <2>1, <2>4 DEF ReportOK
  <2> QED BY <2>2, <2>3, <2>4
<1>8. PathOK(t)'
  BY <1>1, <1>2, <1>3 DEF VisitOK, PathOK, Missed
<1>9. VisitOK(t)'
  BY <1>6, <1>7, <1>8 DEF VisitOK
<1> QED BY <1>4, <1>5, <1>9, LastStep

LEMMA StateTurns == ASSUME TypeOK, VInv, SetState \/ Update
                    PROVE  VInv'
<1>1. ASSUME SetState PROVE VInv'
  <2>1. todo # <<>> /\ Head(todo).op = "SetState"
    BY <1>1 DEF SetState, Do
  <2>2. Types /\ S \in Streams /\ Arg \in 0..9
    BY <2>1, TopType DEF TypeOK, Types
  <2>3. CASE stream[S].setting
    <3>1. Then(<<>>) /\ seen' = seen /\ tx' = tx /\ \E v : stream' = [stream EXCEPT ![S].target = v]
      BY <1>1, <2>3 DEF SetState
    <3>2. SameStreams
      BY <2>2, <3>1 DEF Types, StreamType, SameStreams, SameStream
    <3>3. Calm
      BY <2>1, <3>1, <3>2, Unchanged, LooseJoin DEF Calm, LoopOps
    <3> QED BY <3>3, CalmKeeps
  <2>4. CASE ~stream[S].setting
    <3>1. Alone
      BY <2>1, <2>4, AloneUnset
    <3>2. PICK t \in Streams : t = S
      BY <2>2
    <3>3. stream[t].state \in 0..9 /\ UNCHANGED <<rx, tx, faults>>
      BY <1>1, <2>2 DEF Types, StreamType, SetState
    <3>4. Enter(t, stream[t].state + 1, Arg) \/ Leave(t, stream[t].state + 1, Arg)
      BY <1>1, <2>4, <3>2 DEF SetState
    <3>5. stream[t].state + 1 \in 1..10 /\ stream[t].state + 1 > stream[t].state /\ Head(todo).op # "Finalized"
      BY <2>1, <3>3
    <3> DEFINE next == stream[t].state + 1
               target == Arg
    <3>6. next \in 1..10 /\ next > stream[t].state /\ next <= stream[t].state + 1 /\ target \in 0..9
      BY <2>2, <3>5
    <3>7. Enter(t, next, target) \/ Leave(t, next, target)
      BY <3>4
    <3> HIDE DEF next, target
    <3> QED BY <2>1, <3>1, <3>2, <3>3, <3>5, <3>6, <3>7, EnterTurns, LeaveTurns
  <2> QED BY <2>3, <2>4
<1>2. ASSUME Update PROVE VInv'
  <2>1. /\ todo # <<>> /\ Types /\ S \in Streams /\ Arg \in 0..9 /\ Alone /\ TurnOK(Head(todo), stream[S])
        /\ Head(todo).op = "Update" /\ Head(todo).n = Arg
    BY <1>2, TurnTop DEF Update, LoopOps
  <2>2. PICK t \in Streams : t = S
    BY <2>1
  <2>3. stream[t].state \in 0..9 /\ stream[t].target \in 0..9 /\ UNCHANGED <<rx, tx, faults>>
    BY <1>2, <2>1 DEF Types, StreamType, Update
  <2> DEFINE next == IF Arg > stream[t].state THEN Arg ELSE stream[t].state + 1
             target == Most(stream[t].target, Arg)
  <2>4. target \in 0..9
    BY <2>1, <2>3 DEF Most
  <2>5. next \in 1..10 /\ next > stream[t].state
    BY <2>1, <2>3
  <2>6. next <= stream[t].state + 1 \/ (next = Ready /\ stream[t].state = Parsed /\ stream[t].disconnect)
    BY <2>1, <2>2, <2>3 DEF TurnOK
  <2>7. Enter(t, next, target) \/ Leave(t, next, target)
    BY <1>2, <2>2 DEF Update
  <2>8. Head(todo).op # "Finalized"
    BY <2>1
  <2> HIDE DEF next, target
  <2> QED BY <2>1, <2>2, <2>3, <2>4, <2>5, <2>6, <2>7, <2>8, EnterTurns, LeaveTurns
<1> QED BY <1>1, <1>2

-----------------------------------------------------------------------------
(* Events *)

\* An event begins a stack without a loop.
Fresh == NoLoops /\ todo' \in Seq(BareCalls)

LEMMA BareOne == ASSUME NEW op \in {"Line", "InputEnd", "SendReset", "Service", "ServiceEnd", "Idle", "FrameDone",
                                   "Disconnect", "Enable", "Finalize"},
                        NEW s \in Streams, NEW n \in 0..9
                 PROVE  <<Call(op, s, n)>> \in Seq(BareCalls)
<1>1. op \in Ops /\ op \notin LoopOps \cup PartOps
  BY DEF Ops, LoopOps, PartOps
<1>2. Call(op, s, n) \in Calls
  BY <1>1, CallType
<1>3. Call(op, s, n) \in BareCalls
  BY <1>1, <1>2 DEF BareCalls, Bare, Call
<1> QED BY <1>3

LEMMA BareSets == ASSUME NEW s \in Streams
PROVE  /\ SetTo(s, Begin) \in Seq(BareCalls) /\ SetTo(s, Parsed) \in Seq(BareCalls)
       /\ Error(s, Soft) \in Seq(BareCalls) /\ Error(s, Close) \in Seq(BareCalls)
       /\ <<Call("Line", s, 0)>> \in Seq(BareCalls) /\ <<Call("InputEnd", s, 0)>> \in Seq(BareCalls)
       /\ <<Call("SendReset", s, 0)>> \in Seq(BareCalls) /\ <<Call("Disconnect", s, 0)>> \in Seq(BareCalls)
       /\ <<Call("Enable", s, 0)>> \in Seq(BareCalls) /\ <<Call("Finalize", s, 0)>> \in Seq(BareCalls)
       /\ <<Call("Service", s, 0)>> \in Seq(BareCalls) /\ <<Call("FrameDone", s, 0)>> \in Seq(BareCalls)
<1>1. 0 \in 0..9
  OBVIOUS
<1> QED BY <1>1, LooseSets, BareJoin, BareOne

LEMMA BareFrame == ASSUME NEW s \in Streams
                   PROVE  <<Call("Service", s, 0), Call("FrameDone", s, 0)>> \in Seq(BareCalls)
<1> DEFINE a == Call("Service", s, 0)
           b == Call("FrameDone", s, 0)
<1>1. <<a>> \in Seq(BareCalls) /\ <<b>> \in Seq(BareCalls)
  BY BareSets
<1> HIDE DEF a, b
<1>2. <<a, b>> \in Seq(BareCalls)
  BY <1>1
<1> QED BY <1>2 DEF a, b

LEMMA BareService == ASSUME NEW x \in Seq(BareCalls), IOEvent(x)
                     PROVE  todo' \in Seq(BareCalls)
<1>1. 1 \in Streams /\ 0 \in 0..9
  BY One
<1>2. /\ <<Call("Service", 1, 0)>> \in Seq(BareCalls) /\ <<Call("ServiceEnd", 1, 0)>> \in Seq(BareCalls)
      /\ <<Call("Idle", 1, 0)>> \in Seq(BareCalls)
  BY <1>1, BareOne
<1> DEFINE a == Call("Service", 1, 0)
           b == Call("ServiceEnd", 1, 0)
           c == Call("Idle", 1, 0)
<1>3. <<a>> \in Seq(BareCalls) /\ <<b>> \in Seq(BareCalls) /\ <<c>> \in Seq(BareCalls) /\ ServiceNet = <<a, b, c>>
  BY <1>2 DEF ServiceNet
<1> HIDE DEF a, b, c
<1>4. ServiceNet \in Seq(BareCalls)
  BY <1>3
<1> QED BY <1>4, BareJoin DEF IOEvent

LEMMA FreshKeeps == ASSUME TypeOK, VInv, Fresh, SameStreams, SameHandlers
                    PROVE  VInv'
<1>1. \A i \in 1..Len(todo') : todo'[i] \in BareCalls
  BY DEF Fresh
<1>2. \A i \in 1..Len(todo') : Bare(todo'[i])
  BY <1>1 DEF BareCalls
<1> QED BY <1>2, BareKeeps DEF Fresh

LEMMA QuietFresh == ASSUME Quiet
                    PROVE  NoLoops
<1>1. Len(todo) = 0
  BY DEF Quiet
<1> QED BY <1>1 DEF NoLoops

LEMMA NetEvents == ASSUME TypeOK, VInv, ReadWindow \/ PeerClose \/ Writable \/ Hangup \/ NetTimeout \/ Recall
                   PROVE  VInv'
<1>1. NoLoops
  BY QuietFresh DEF ReadWindow, PeerClose, Writable, Hangup, NetTimeout, Recall, Readable
<1>2. IOEvent(<<>>) \/ todo' = <<Call("Enable", 1, 0)>>
  BY DEF ReadWindow, PeerClose, Writable, Hangup, NetTimeout, Recall
<1>3. todo' \in Seq(BareCalls)
  BY <1>2, One, BareSets, BareJoin, BareService
<1>4. SameStreams /\ SameHandlers
  BY Unchanged DEF ReadWindow, PeerClose, Writable, Hangup, NetTimeout, Recall
<1> QED BY <1>1, <1>3, <1>4, FreshKeeps DEF Fresh

LEMMA ReadEvents == ASSUME TypeOK, VInv, NEW s \in Streams, ReadBody \/ ReadHeaders(s) \/ ReadData(s) \/ ReadReset(s)
                    PROVE  VInv'
<1>1. NoLoops /\ Types
  BY QuietFresh DEF ReadBody, ReadHeaders, ReadData, ReadReset, Readable, TypeOK, Types
<1>2. SameHandlers
  BY Unchanged DEF ReadBody, ReadHeaders, ReadData, ReadReset
<1>3. 1 \in Streams
  BY One
<1>4. ASSUME ReadBody PROVE VInv'
  <2>0. seen' = seen /\ (stream' = stream \/ \E v : stream' = [stream EXCEPT ![1].keep = v])
    BY <1>4 DEF ReadBody
  <2>1. SameStreams
    BY <1>1, <1>3, <2>0, Unchanged, OneField
  <2>2. IOEvent(<<Call("InputEnd", 1, 0)>>) \/ IOEvent(Error(1, Close))
    BY <1>4 DEF ReadBody
  <2>3. todo' \in Seq(BareCalls)
    BY <1>3, <2>2, BareSets, BareService
  <2> QED BY <1>1, <1>2, <2>1, <2>3, FreshKeeps DEF Fresh
<1>5. ASSUME ReadHeaders(s) PROVE VInv'
  <2>0. seen' = seen /\ \E v, w : stream' = [stream EXCEPT ![s].h2 = v, ![s].error = w]
    BY <1>5 DEF ReadHeaders
  <2>1. SameStreams
    BY <1>1, <2>0 DEF Types, StreamType, SameStreams, SameStream
  <2>2. PICK last \in BOOLEAN, rejected \in BOOLEAN :
          IOEvent(SetTo(s, Begin)
                  \o (IF rejected THEN <<Call("SendReset", s, 0)>>
                      ELSE When(last, <<Call("InputEnd", s, 0)>>) \o SetTo(s, Parsed))
                  \o <<Call("Service", s, 0), Call("FrameDone", s, 0)>>)
    BY <1>5 DEF ReadHeaders
  <2> DEFINE x == IF rejected THEN <<Call("SendReset", s, 0)>>
                  ELSE When(last, <<Call("InputEnd", s, 0)>>) \o SetTo(s, Parsed)
             y == <<Call("Service", s, 0), Call("FrameDone", s, 0)>>
  <2>3. x \in Seq(BareCalls)
    BY BareSets, BareJoin DEF When
  <2>4. y \in Seq(BareCalls)
    BY BareFrame
  <2>5. IOEvent(SetTo(s, Begin) \o x \o y)
    BY <2>2
  <2> HIDE DEF x, y
  <2>6. todo' \in Seq(BareCalls)
    BY <2>3, <2>4, <2>5, BareSets, BareJoin, BareService
  <2> QED BY <1>1, <1>2, <2>1, <2>6, FreshKeeps DEF Fresh
<1>6. ASSUME ReadData(s) PROVE VInv'
  <2>1. SameStreams
    BY <1>1, <1>6 DEF ReadData, Types, StreamType, SameStreams, SameStream
  <2> DEFINE y == <<Call("Service", s, 0), Call("FrameDone", s, 0)>>
  <2>2. IOEvent(<<Call("InputEnd", s, 0)>> \o y) \/ IOEvent(Error(s, Close) \o y)
    BY <1>6 DEF ReadData
  <2>3. y \in Seq(BareCalls)
    BY BareFrame
  <2> HIDE DEF y
  <2>4. todo' \in Seq(BareCalls)
    BY <2>2, <2>3, BareSets, BareJoin, BareService
  <2> QED BY <1>1, <1>2, <2>1, <2>4, FreshKeeps DEF Fresh
<1>7. ASSUME ReadReset(s) PROVE VInv'
  <2>1. SameStreams
    BY <1>1, <1>7 DEF ReadReset, Types, StreamType, SameStreams, SameStream
  <2>2. todo' \in Seq(BareCalls)
    BY <1>7, BareFrame, BareService DEF ReadReset
  <2> QED BY <1>1, <1>2, <2>1, <2>2, FreshKeeps DEF Fresh
<1> QED BY <1>4, <1>5, <1>6, <1>7

LEMMA TimerEvents == ASSUME TypeOK, VInv, NEW s \in Streams, HttpTimer(s) \/ StreamTimeout(s)
                     PROVE  VInv'
<1>1. NoLoops /\ Types /\ todo = <<>>
  BY QuietFresh DEF HttpTimer, StreamTimeout, Quiet, TypeOK, Types
<1>2. SameHandlers
  BY Unchanged DEF HttpTimer, StreamTimeout
<1>3. SameStreams
  <2>1. /\ \E v : stream' = [stream EXCEPT ![s].timer = v]
        /\ seen' = seen \/ seen' = [seen EXCEPT ![s].late = TRUE]
    BY DEF HttpTimer, StreamTimeout
  <2>2. \A t \in Streams : seen'[t].done = seen[t].done /\ seen'[t].states = seen[t].states
    <3>1. CASE seen' = seen
      BY <3>1
    <3>2. CASE seen' = [seen EXCEPT ![s].late = TRUE]
      BY <1>1, <3>2 DEF Types, SeenType
    <3> QED BY <2>1, <3>1, <3>2
  <2>3. PICK v : stream' = [stream EXCEPT ![s].timer = v]
    BY <2>1
  <2> QED BY <1>1, <2>2, <2>3 DEF Types, StreamType, SameStreams, SameStream
<1>4. todo' \in Seq(BareCalls)
  BY <1>1, BareSets, BareJoin DEF HttpTimer, StreamTimeout
<1> QED BY <1>1, <1>2, <1>3, <1>4, FreshKeeps DEF Fresh

LEMMA CgiEvents == ASSUME TypeOK, VInv, NEW s \in Streams, CgiOutput(s) \/ CgiEnd(s)
                   PROVE  VInv'
<1>1. NoLoops /\ Types
  BY QuietFresh DEF CgiOutput, CgiEnd, TypeOK, Types
<1>2. SameHandlers
  BY <1>1 DEF CgiOutput, CgiEnd, Types, TxType, SameHandlers, SameHandler
<1>3. SameStreams
  <2>1. seen' = seen /\ (stream' = stream \/ stream' = Spend(s))
    BY DEF CgiOutput, CgiEnd
  <2>2. \E v : Spend(s) = [stream EXCEPT ![s].keep = v]
    BY <1>1 DEF Spend, Types, StreamType
  <2> QED BY <1>1, <2>1, <2>2, Unchanged, OneField
<1>4. \E x \in Seq(BareCalls) : CgiCall(x)
  BY BareSets, BareJoin DEF CgiOutput, CgiEnd, When
<1>5. todo' \in Seq(BareCalls)
  BY <1>4, One, BareSets, BareJoin DEF CgiCall
<1> QED BY <1>1, <1>2, <1>3, <1>5, FreshKeeps DEF Fresh

\* The next request on a connection that has been kept alive starts from nothing.
LEMMA HeaderEvents == ASSUME TypeOK, VInv, ReadHeader
                      PROVE  VInv'
<1>1. NoLoops /\ Types /\ 1 \in Streams
  BY QuietFresh, One DEF ReadHeader, Readable, TypeOK, Types
<1>2. todo' \in Seq(BareCalls)
  <2>1. \/ IOEvent(When(stream[1].state = 0, SetTo(1, Begin)) \o <<Call("Line", 1, 0)>>)
        \/ IOEvent(<<>>)
        \/ IOEvent(SetTo(1, Begin) \o <<Call("Line", 1, 0)>>)
    BY DEF ReadHeader
  <2>2. /\ When(stream[1].state = 0, SetTo(1, Begin)) \o <<Call("Line", 1, 0)>> \in Seq(BareCalls)
        /\ SetTo(1, Begin) \o <<Call("Line", 1, 0)>> \in Seq(BareCalls)
    BY <1>1, BareSets, BareJoin DEF When
  <2> QED BY <2>1, <2>2, BareJoin, BareService
<1>3. CASE UNCHANGED <<stream, tx, seen>>
  BY <1>1, <1>2, <1>3, Unchanged, FreshKeeps DEF Fresh
<1>4. CASE /\ stream' = [stream EXCEPT ![1].state = 0, ![1].target = 0, ![1].error = FALSE, ![1].completed = FALSE,
                                       ![1].timer = "none"]
           /\ tx' = [tx EXCEPT ![1] = FreshTx]
           /\ seen' = [seen EXCEPT ![1] = Unseen]
  <2>1. \A i \in 1..Len(todo') : todo'[i] \in BareCalls
    BY <1>2
  <2>2. \A i \in 1..Len(todo') : Bare(todo'[i])
    BY <2>1 DEF BareCalls
  <2>3. OneLoop'
    BY <2>2 DEF OneLoop, Loops, Bare
  <2>4. \A i \in 1..Len(todo') : WaitOK(i)'
    BY <2>2 DEF WaitOK, Bare
  <2>5. VisitOK(1)'
    <3>1. /\ stream'[1].state = 0 /\ ~stream'[1].completed /\ ~tx'[1].opened /\ ~tx'[1].working
          /\ seen'[1].done = 0
      BY <1>1, <1>4 DEF Types, StreamType, TxType, SeenType, FreshTx, Unseen
    <3> QED BY <3>1 DEF VisitOK, HandlerOK, ReportOK, PathOK, Missed, Begin, Complete
  <2>6. ASSUME NEW s \in Streams, s # 1 PROVE VisitOK(s)'
    <3>1. stream'[s] = stream[s] /\ tx'[s] = tx[s] /\ seen'[s] = seen[s]
      BY <1>1, <1>4, <2>6 DEF Types
    <3>2. VisitOK(s)
      BY DEF VInv
    <3>3. HandlerOK(s)' /\ ReportOK(s)'
      BY <1>1, <3>1, <3>2, NoLoopsRest DEF VisitOK, HandlerOK, ReportOK
    <3>4. PathOK(s)'
      BY <3>1, <3>2 DEF VisitOK, PathOK, Missed
    <3> QED BY <3>3, <3>4 DEF VisitOK
  <2> QED BY <2>3, <2>4, <2>5, <2>6 DEF VInv
<1> QED BY <1>3, <1>4 DEF ReadHeader

-----------------------------------------------------------------------------
(* The theorems *)

LEMMA VisitInit == ASSUME Init
                   PROVE  VInv
<1>1. Len(todo) = 0
  BY DEF Init
<1>2. \A s \in Streams : /\ stream[s].state = 0 /\ ~stream[s].completed /\ ~tx[s].opened /\ ~tx[s].working
                         /\ seen[s].done = 0
  BY DEF Init, FreshStream, FreshTx, Unseen
<1> QED BY <1>1, <1>2 DEF VInv, OneLoop, VisitOK, HandlerOK, ReportOK, PathOK, Missed, Begin, Complete

LEMMA VisitKeeps == ASSUME TypeOK, VInv, [Next]_vars
                    PROVE  VInv'
<1>1. CASE Step
  BY <1>1, CalmKeeps, FinishCalm, ErrorCalm, ProcessCalm, QueueCalm, NetCalm, PartKeeps, LowSteps, DestroySteps,
     ProcessTurns, FinalizedTurns, StateTurns DEF Step
<1>2. CASE Event
  BY <1>2, One, NetEvents, ReadEvents, TimerEvents, CgiEvents, HeaderEvents DEF Event
<1>3. CASE UNCHANGED vars
  BY <1>3 DEF vars, VInv, OneLoop, WaitOK, Loops, TurnOK, VisitOK, HandlerOK, ReportOK, PathOK, Missed
<1> QED BY <1>1, <1>2, <1>3 DEF Next, Done

\* A stream has one loop of httpSetState at a time, the stack shows where it is, and what has been done to the
\* stream fits: its handler, the states that were visited, and the report. (httpSetState, processFinalized)
THEOREM VisitInductive == Spec => []VInv
<1>1. Init => VInv
  BY VisitInit
<1>2. TypeOK /\ VInv /\ [Next]_vars => VInv'
  BY VisitKeeps
<1> QED BY <1>1, <1>2, TypeCorrect, PTL DEF Spec

\* For any number of streams, limits and faults: a handler that was opened is closed before its request is
\* complete, when an error document takes its place, and when its stream is destroyed. (httpClosePipeline)
THEOREM HandlersClosed == Spec => []HandlerClosed
<1>1. VInv => HandlerClosed
  <2> SUFFICES ASSUME VInv, NEW s \in Streams, tx[s].opened \/ tx[s].working
               PROVE  stream[s].state \in Parsed..Finalized
    BY DEF HandlerClosed
  <2>1. HandlerOK(s)
    BY DEF VInv, VisitOK
  <2> QED BY <2>1 DEF HandlerOK, Parsed, Running, Finalized
<1> QED BY <1>1, VisitInductive, PTL

\* For any number of streams, limits and faults: when the dispatcher is at rest a request that is complete has been
\* through all states, in CONTENT unless it was aborted, and was reported DONE exactly once.
\* (the notifier in httpSetState, processComplete)
THEOREM StatesVisited == Spec => []AllVisited
<1>1. VInv => AllVisited
  <2> SUFFICES ASSUME VInv, NEW s \in Streams
               PROVE  /\ seen[s].done <= 1
                      /\ Resting /\ stream[s].state = Complete /\ ~stream[s].destroyed
                           => /\ seen[s].done = 1
                              /\ (Begin..Complete) \ seen[s].states \subseteq (IF stream[s].disconnect THEN {Content} ELSE {})
    BY DEF AllVisited
  <2>1. ReportOK(s) /\ PathOK(s)
    BY DEF VInv, VisitOK
  <2>2. seen[s].done <= 1
    BY <2>1 DEF ReportOK
  <2>3. ASSUME Resting, stream[s].state = Complete, ~stream[s].destroyed
        PROVE  /\ seen[s].done = 1
               /\ (Begin..Complete) \ seen[s].states \subseteq (IF stream[s].disconnect THEN {Content} ELSE {})
    <3>1. Len(todo) = 0
      BY <2>3 DEF Resting
    <3>2. stream[s].completed
      BY <2>1, <2>3, <3>1 DEF ReportOK
    <3> QED BY <2>1, <2>3, <3>2 DEF ReportOK, PathOK, Missed
  <2> QED BY <2>2, <2>3
<1> QED BY <1>1, VisitInductive, PTL

-----------------------------------------------------------------------------
(* What a step does to the stack, whatever it is *)

LEMMA VisitCallsAre == ASSUME NEW t \in Streams, NEW next \in 1..9
                       PROVE  Visit(t, next) \in Seq(Calls)
<1>1. PICK y \in Seq(Loose), c \in Calls : VisitEnds(y, c, t, next)
  BY VisitCalls
<1>2. y \in Seq(Calls) /\ Visit(t, next) = y \o <<c>>
  BY <1>1 DEF VisitEnds, Loose
<1> QED BY <1>2

LEMMA LowStack == ASSUME TypeOK, ServiceEnd \/ DestroyNet \/ RemoveStream \/ FrameDone \/ FrameClosed \/ DestroyStream
                  PROVE  \E x \in Seq(Calls) : Then(x)
<1>1. S \in Streams
  BY TopType DEF ServiceEnd, DestroyNet, RemoveStream, FrameDone, FrameClosed, DestroyStream, Do
<1>2. {"CloseStream", "DestroyNet", "Enable", "RemoveStream", "Destroyed", "Abandon", "DestroyStream", "SendReset", "FrameClosed"}
        \subseteq Ops \ (LoopOps \cup PartOps)
  BY DEF Ops, LoopOps, PartOps
<1>3. /\ ForAll("CloseStream") \in Seq(BareCalls) /\ ForAll("RemoveStream") \in Seq(BareCalls)
      /\ Run("DestroyNet") \in Seq(BareCalls) /\ Run("Enable") \in Seq(BareCalls) /\ Run("Destroyed") \in Seq(BareCalls)
      /\ Run("Abandon") \in Seq(BareCalls) /\ Run("DestroyStream") \in Seq(BareCalls)
      /\ Run("SendReset") \in Seq(BareCalls) /\ Run("FrameClosed") \in Seq(BareCalls)
  BY <1>1, <1>2, BareJoin
<1>4. \A x \in Seq(BareCalls) : x \in Seq(Calls)
  BY DEF BareCalls
<1>5. ASSUME ServiceEnd PROVE \E x \in Seq(BareCalls) : Then(x)
  BY <1>5, <1>3, BareJoin DEF ServiceEnd
<1>6. ASSUME DestroyNet PROVE \E x \in Seq(BareCalls) : Then(x)
  BY <1>6, <1>3, BareJoin DEF DestroyNet
<1>7. ASSUME RemoveStream PROVE \E x \in Seq(BareCalls) : Then(x)
  BY <1>7, <1>3, BareJoin DEF RemoveStream, When
<1>8. ASSUME FrameDone PROVE \E x \in Seq(BareCalls) : Then(x)
  BY <1>8, <1>3, BareJoin DEF FrameDone, When
<1>9. ASSUME FrameClosed PROVE \E x \in Seq(BareCalls) : Then(x)
  BY <1>9, <1>3, BareJoin DEF FrameClosed, When
<1>10. ASSUME DestroyStream PROVE \E x \in Seq(BareCalls) : Then(x)
  BY <1>10, BareJoin DEF DestroyStream
<1> QED BY <1>4, <1>5, <1>6, <1>7, <1>8, <1>9, <1>10

LEMMA TurnStack == ASSUME IInv, SetState \/ Update \/ ProcessFinalized
                   PROVE  \E x \in Seq(Calls) : Then(x)
<1>0. Types /\ S \in Streams /\ Arg \in 0..9
  BY TopType DEF IInv, TypeOK, Types, SetState, Update, ProcessFinalized, Do
<1>1. ASSUME NEW next \in 0..10, NEW target \in 0..9, next > 0, Enter(S, next, target)
      PROVE  \E x \in Seq(Calls) : Then(x)
  <2>1. next \in 1..9
    BY <1>1 DEF Enter
  <2> QED BY <1>0, <1>1, <2>1, VisitCallsAre DEF Enter
<1>2. ASSUME NEW next, NEW target, Leave(S, next, target)
      PROVE  \E x \in Seq(Calls) : Then(x)
  <2>1. "Service" \in LooseOps /\ "Kick" \in LooseOps
    BY LooseAre
  <2>2. <<Call("Service", S, 1)>> \in Seq(Loose) /\ <<Call("Kick", S, 0)>> \in Seq(Loose)
    BY <1>0, <2>1, 0 \in 0..9, 1 \in 0..9, LooseCall
  <2>3. \E x \in Seq(Loose) : Then(x)
    BY <1>2, <2>2, LooseJoin DEF Leave, When
  <2> QED BY <2>3 DEF Loose
<1>3. CASE SetState
  <2>1. stream[S].state + 1 \in 0..10 /\ stream[S].state + 1 > 0
    BY <1>0 DEF Types, StreamType
  <2>2. CASE stream[S].setting
    <3>1. Then(<<>>) /\ <<>> \in Seq(Calls)
      BY <1>3, <2>2 DEF SetState
    <3> QED BY <3>1
  <2>3. CASE ~stream[S].setting
    BY <1>0, <1>1, <1>2, <1>3, <2>1, <2>3 DEF SetState
  <2> QED BY <2>2, <2>3
<1>4. CASE Update
  <2> DEFINE next == IF Arg > stream[S].state THEN Arg ELSE stream[S].state + 1
             target == Most(stream[S].target, Arg)
  <2>1. next \in 0..10 /\ next > 0 /\ target \in 0..9
    BY <1>0 DEF Types, StreamType, Most
  <2>2. Enter(S, next, target) \/ Leave(S, next, target)
    BY <1>4 DEF Update
  <2> HIDE DEF next, target
  <2> QED BY <1>1, <1>2, <2>1, <2>2
<1>5. CASE ProcessFinalized
  <2>1. <<Call("Update", S, Finalized)>> \in Seq(Calls) /\ <<Call("Update", S, Complete)>> \in Seq(Calls)
        /\ Run("Parsed") \in Seq(Calls)
    <3>1. Finalized \in 0..9 /\ Complete \in 0..9 /\ 0 \in 0..9 /\ "Update" \in Ops /\ "Parsed" \in Ops
      BY DEF Finalized, Complete, Ops
    <3> QED BY <1>0, <3>1, CallType DEF Run
  <2> QED BY <1>5, <2>1 DEF ProcessFinalized
<1> QED BY <1>3, <1>4, <1>5

\* A step takes the call from the top of the stack and puts those that it makes in its place.
LEMMA Stacked == ASSUME IInv, Step
                 PROVE  \E x \in Seq(Calls) : Then(x)
<1>0. TypeOK
  BY DEF IInv
<1>1. ASSUME Calm PROVE \E x \in Seq(Calls) : Then(x)
  BY <1>1 DEF Calm, Loose
<1>2. ASSUME Plain PROVE \E x \in Seq(Calls) : Then(x)
  BY <1>2 DEF Plain, Good
<1> QED BY <1>0, <1>1, <1>2, LowStack, TurnStack, FinishCalm, ErrorCalm, ProcessCalm, QueueCalm, NetCalm, ProcessPlain, HandlerPlain
        DEF Step

-----------------------------------------------------------------------------
(* What wakes the dispatcher again *)

\* Why output may be left that no event of the socket is awaited for, or that an event is queued for
Reason == net.closed \/ net.destroyed \/ net.recall \/ \E s \in Streams : seen[s].late

Awaited == Left => "write" \in net.mask

\* The last call of what an event has put on the stack but one
Base == todo[Len(todo) - 1].op

\* Whatever is called on the way, the stack of an event of the socket ends with the service of the connection, which
\* then sets the mask or destroys the connection.
AwaitInv ==
  \/ Reason
  \/ todo = <<>> /\ Awaited
  \/ Len(todo) = 1 /\ todo[1].op = "Idle" /\ Awaited
  \/ Len(todo) = 2 /\ todo[1].op = "Enable" /\ todo[2].op = "Idle" /\ ~net.error /\ ~net.eof
  \/ Len(todo) >= 2 /\ todo[Len(todo)].op = "Idle" /\ Base \in {"ServiceEnd", "DestroyNet", "Destroyed"}

\* The connection as far as Reason tells it apart
SameEnd == net'.closed = net.closed /\ net'.destroyed = net.destroyed /\ net'.recall = net.recall

LEMMA ReasonStays == ASSUME TypeOK, Step, Reason
                     PROVE  Reason'
<1>0. Types
  BY DEF TypeOK, Types
<1>1. CASE \/ Kick \/ ProcessFirst \/ ProcessHeaders \/ ProcessParsed \/ ProcessContent \/ InputEnd \/ ProcessReady
           \/ ProcessFinalized \/ RaiseError \/ Redirect \/ AfterError \/ Fail \/ Finalize \/ FinalizeOutput
           \/ FinalizeInput \/ CheckFinalized \/ SetFinalized \/ FinalizeConnector \/ Disconnect \/ DestroyStream
  <2>1. UNCHANGED <<net, seen>>
    BY <1>1 DEF Kick, ProcessFirst, ProcessHeaders, ProcessParsed, ProcessContent, InputEnd, ProcessReady,
     ProcessFinalized, RaiseError, Redirect, AfterError, Fail, Finalize, FinalizeOutput, FinalizeInput,
     CheckFinalized, SetFinalized, FinalizeConnector, Disconnect, DestroyStream
  <2> QED BY <2>1 DEF Reason
<1>2. CASE \/ Route \/ Open \/ Revert \/ StartHandler \/ Pending \/ ReadyHandler \/ Service \/ PumpIn \/ PumpFile
           \/ Filed \/ PumpOut \/ Free \/ ServiceEnd \/ CloseStream \/ Abandon \/ DestroyNet \/ RemoveStream
           \/ ParseLine \/ ParseFields \/ FrameDone \/ FrameClosed
  <2>1. UNCHANGED <<net, seen>>
    BY <1>2 DEF Route, Open, Revert, StartHandler, Pending, ReadyHandler, Service, PumpIn, PumpFile, Filed, PumpOut,
     Free, ServiceEnd, CloseStream, Abandon, DestroyNet, RemoveStream, ParseLine, ParseFields, FrameDone, FrameClosed
  <2> QED BY <2>1 DEF Reason
<1>3. CASE NetError \/ Hang \/ PumpFilter \/ SendReset \/ Send \/ Idle \/ Destroyed \/ Enable
  <2>1. seen' = seen
    BY <1>3 DEF NetError, Hang, PumpFilter, SendReset, Send, Idle, Destroyed, Enable
  <2>2. (net.closed => net'.closed) /\ (net.destroyed => net'.destroyed) /\ net'.recall = net.recall
    BY <1>0, <1>3 DEF NetError, Hang, PumpFilter, SendReset, Send, Idle, Destroyed, Enable, Types, NetType
  <2> QED BY <2>1, <2>2 DEF Reason
<1>4. CASE SetState \/ Update
  <2>1. S \in Streams
    BY <1>4, TopType DEF SetState, Update, Do
  <2>2. PICK t \in Streams : t = S
    BY <2>1
  <2>3. /\ net' = net \/ \E v : net' = [net EXCEPT !.eof = v]
        /\ seen' = seen \/ (\E v : seen' = [seen EXCEPT ![t].states = v]) \/ (\E v : seen' = [seen EXCEPT ![t].done = v])
    <3>1. ASSUME NEW n, NEW m, Enter(S, n, m)
          PROVE  net' = net /\ \E v : seen' = [seen EXCEPT ![t].states = v]
      BY <2>2, <3>1 DEF Enter
    <3>2. ASSUME NEW n, NEW m, Leave(S, n, m)
          PROVE  (\E v : net' = [net EXCEPT !.eof = v]) /\ \E v : seen' = [seen EXCEPT ![t].done = v]
      BY <2>2, <3>2 DEF Leave
    <3>3. CASE SetState
      BY <3>1, <3>2, <3>3 DEF SetState
    <3>4. CASE Update
      BY <3>1, <3>2, <3>4 DEF Update
    <3> QED BY <1>4, <3>3, <3>4
  <2>4. \A s \in Streams : seen'[s].late = seen[s].late
    BY <1>0, <2>3 DEF Types, SeenType
  <2>5. SameEnd
    BY <1>0, <2>3 DEF Types, NetType, SameEnd
  <2> QED BY <2>4, <2>5 DEF Reason, SameEnd
<1> QED BY <1>1, <1>2, <1>3, <1>4 DEF Step

\* A step takes a call.
LEMMA TopOfStep == ASSUME Step
                   PROVE  todo # <<>>
<1>1. CASE \/ SetState \/ Update \/ Kick \/ ProcessFirst \/ ProcessHeaders \/ ProcessParsed \/ ProcessContent \/ InputEnd
           \/ ProcessReady \/ ProcessFinalized \/ RaiseError \/ Redirect \/ AfterError \/ NetError \/ Fail \/ Finalize
           \/ FinalizeOutput \/ FinalizeInput \/ CheckFinalized \/ SetFinalized \/ FinalizeConnector
  BY <1>1 DEF Do, SetState, Update, Kick, ProcessFirst, ProcessHeaders, ProcessParsed, ProcessContent, InputEnd,
     ProcessReady, ProcessFinalized, RaiseError, Redirect, AfterError, NetError, Fail, Finalize, FinalizeOutput,
     FinalizeInput, CheckFinalized, SetFinalized, FinalizeConnector
<1>2. CASE \/ Disconnect \/ Hang \/ DestroyStream \/ Route \/ Open \/ Revert \/ StartHandler \/ Pending \/ ReadyHandler
           \/ Service \/ PumpIn \/ PumpFile \/ Filed \/ PumpOut \/ PumpFilter \/ SendReset \/ Send \/ Free \/ CloseStream
           \/ Abandon \/ RemoveStream \/ ParseLine \/ ParseFields \/ FrameDone \/ FrameClosed
  BY <1>2 DEF Do, Disconnect, Hang, DestroyStream, Route, Open, Revert, StartHandler, Pending, ReadyHandler, Service,
     PumpIn, PumpFile, Filed, PumpOut, PumpFilter, SendReset, Send, Free, CloseStream, Abandon, RemoveStream,
     ParseLine, ParseFields, FrameDone, FrameClosed
<1>3. CASE ServiceEnd \/ DestroyNet \/ Destroyed \/ Enable \/ Idle
  BY <1>3 DEF Do, ServiceEnd, DestroyNet, Destroyed, Enable, Idle
<1> QED BY <1>1, <1>2, <1>3 DEF Step

\* The call on top says which step is taken.
LEMMA Named == ASSUME Step, NEW op \in {"ServiceEnd", "DestroyNet", "Destroyed", "Enable", "Idle"}, Head(todo).op = op
PROVE  /\ op = "ServiceEnd" => ServiceEnd
       /\ op = "DestroyNet" => DestroyNet
       /\ op = "Destroyed" => Destroyed
       /\ op = "Enable" => Enable
       /\ op = "Idle" => Idle
<1>1. ~(\/ SetState \/ Update \/ Kick \/ ProcessFirst \/ ProcessHeaders \/ ProcessParsed \/ ProcessContent \/ InputEnd
        \/ ProcessReady \/ ProcessFinalized \/ RaiseError \/ Redirect \/ AfterError \/ NetError \/ Fail \/ Finalize
        \/ FinalizeOutput \/ FinalizeInput \/ CheckFinalized \/ SetFinalized \/ FinalizeConnector)
  BY DEF Do, SetState, Update, Kick, ProcessFirst, ProcessHeaders, ProcessParsed, ProcessContent, InputEnd,
     ProcessReady, ProcessFinalized, RaiseError, Redirect, AfterError, NetError, Fail, Finalize, FinalizeOutput,
     FinalizeInput, CheckFinalized, SetFinalized, FinalizeConnector
<1>2. ~(\/ Disconnect \/ Hang \/ DestroyStream \/ Route \/ Open \/ Revert \/ StartHandler \/ Pending \/ ReadyHandler
        \/ Service \/ PumpIn \/ PumpFile \/ Filed \/ PumpOut \/ PumpFilter \/ SendReset \/ Send \/ Free \/ CloseStream
        \/ Abandon \/ RemoveStream \/ ParseLine \/ ParseFields \/ FrameDone \/ FrameClosed)
  BY DEF Do, Disconnect, Hang, DestroyStream, Route, Open, Revert, StartHandler, Pending, ReadyHandler, Service,
     PumpIn, PumpFile, Filed, PumpOut, PumpFilter, SendReset, Send, Free, CloseStream, Abandon, RemoveStream,
     ParseLine, ParseFields, FrameDone, FrameClosed
<1>3. /\ ServiceEnd => op = "ServiceEnd"
      /\ DestroyNet => op = "DestroyNet"
      /\ Destroyed => op = "Destroyed"
      /\ Enable => op = "Enable"
      /\ Idle => op = "Idle"
  BY DEF Do, ServiceEnd, DestroyNet, Destroyed, Enable, Idle
<1> QED BY <1>1, <1>2, <1>3 DEF Step

\* What is at the end of the stack after a step
LEMMA LastTwo == ASSUME TypeOK, todo # <<>>, NEW x \in Seq(Calls), Then(x)
PROVE  /\ Len(todo) \in Nat /\ Len(x) \in Nat /\ todo' \in Seq(Calls) /\ Len(todo') = Len(x) + Len(todo) - 1
       /\ Head(todo) = todo[1]
       /\ Len(todo) >= 3 => todo'[Len(todo')] = todo[Len(todo)] /\ todo'[Len(todo') - 1] = todo[Len(todo) - 1]
       /\ Len(todo) = 2 => todo'[Len(x) + 1] = todo[2]
       /\ \A i \in 1..Len(x) : todo'[i] = x[i]
<1>1. todo \in Seq(Calls) /\ Len(todo) \in Nat /\ Len(x) \in Nat
  BY DEF TypeOK
<1>2. \A i \in 2..Len(todo) : todo'[i - 1 + Len(x)] = todo[i]
  BY <1>1, Pushed
<1>3. todo' = x \o Tail(todo) /\ Len(Tail(todo)) = Len(todo) - 1 /\ Tail(todo) \in Seq(Calls)
  BY <1>1 DEF Then
<1>4. Len(todo') = Len(x) + Len(todo) - 1 /\ todo' \in Seq(Calls)
  BY <1>1, <1>3
<1>5. Len(todo) >= 3 => todo'[Len(todo')] = todo[Len(todo)] /\ todo'[Len(todo') - 1] = todo[Len(todo) - 1]
  <2> HAVE Len(todo) >= 3
  <2>1. Len(todo) \in 2..Len(todo) /\ Len(todo) - 1 \in 2..Len(todo)
    BY <1>1
  <2>2. todo'[Len(todo) - 1 + Len(x)] = todo[Len(todo)] /\ todo'[Len(todo) - 1 - 1 + Len(x)] = todo[Len(todo) - 1]
    BY <1>2, <2>1
  <2>3. Len(todo) - 1 + Len(x) = Len(todo') /\ Len(todo) - 1 - 1 + Len(x) = Len(todo') - 1
    BY <1>1, <1>4
  <2> QED BY <2>2, <2>3
<1>6. Len(todo) = 2 => todo'[Len(x) + 1] = todo[2]
  <2> HAVE Len(todo) = 2
  <2>1. 2 \in 2..Len(todo) /\ 2 - 1 + Len(x) = Len(x) + 1
    BY <1>1
  <2> QED BY <1>2, <2>1
<1>7. \A i \in 1..Len(x) : todo'[i] = x[i]
  BY <1>1, Pushed
<1>8. Head(todo) = todo[1]
  BY <1>1
<1> QED BY <1>1, <1>4, <1>5, <1>6, <1>7, <1>8

\* What is put above the last call ends with a call of its own.
LEMMA AwaitStep == ASSUME IInv, AwaitInv, Step
                   PROVE  AwaitInv'
<1>1. PICK x \in Seq(Calls) : Then(x)
  BY Stacked
<1>2. Types /\ TypeOK /\ todo # <<>>
  BY TopOfStep DEF IInv, TypeOK, Types
<1>3. Len(todo) \in Nat /\ Len(x) \in Nat /\ todo' \in Seq(Calls) /\ Len(todo') = Len(x) + Len(todo) - 1
  BY <1>1, <1>2, LastTwo
<1>4. Head(todo) = todo[1]
  BY <1>1, <1>2, LastTwo
<1>5. CASE Reason
  BY <1>2, <1>5, ReasonStays DEF AwaitInv
<1>6. CASE Len(todo) = 1 /\ todo[1].op = "Idle" /\ Awaited
  <2>1. Head(todo).op = "Idle"
    BY <1>6, <1>4
  <2>2. Idle
    BY <2>1, Named
  <2>3. Then(<<>>) /\ <<>> \in Seq(Calls) /\ Len(<<>>) = 0
    BY <2>2 DEF Idle
  <2>4. Len(todo') = 0 + Len(todo) - 1 /\ todo' \in Seq(Calls)
    BY <1>2, <2>3, LastTwo
  <2>5. todo' = <<>>
    BY <1>6, <2>4
  <2>6. net'.mask = net.mask /\ net'.stalled = net.stalled /\ net'.blocked = net.blocked /\ UNCHANGED <<rx, tx>>
    BY <1>2, <2>2 DEF Idle, Types, NetType
  <2>7. Awaited'
    BY <1>6, <2>6 DEF Awaited, Left, Work, AtSocket
  <2> QED BY <2>5, <2>7 DEF AwaitInv
<1>7. CASE Len(todo) = 2 /\ todo[1].op = "Enable" /\ todo[2].op = "Idle" /\ ~net.error /\ ~net.eof /\ ~Reason
  <2>1. Head(todo).op = "Enable"
    BY <1>7, <1>4
  <2>2. Enable
    BY <2>1, Named
  <2>3. <<>> \in Seq(Calls) /\ Then(<<>>) /\ Len(<<>>) = 0
    BY <2>2 DEF Enable
  <2>4. Len(todo') = 0 + Len(todo) - 1 /\ todo'[0 + 1] = todo[2]
    BY <1>2, <1>7, <2>3, LastTwo
  <2>5. Len(todo') = 1 /\ todo'[1] = todo[2]
    BY <1>7, <2>4
  <2>6. net'.mask = Mask /\ net'.stalled = net.stalled /\ net'.blocked = net.blocked /\ UNCHANGED <<rx, tx>>
    BY <1>2, <1>7, <2>2 DEF Enable, Types, NetType, Reason
  <2>7. Left => "write" \in Mask
    BY <1>7 DEF Mask
  <2>8. Awaited'
    BY <2>6, <2>7 DEF Awaited, Left, Work, AtSocket
  <2> QED BY <1>7, <2>5, <2>8 DEF AwaitInv
<1>8. CASE Len(todo) = 2 /\ todo[2].op = "Idle" /\ todo[1].op \in {"ServiceEnd", "DestroyNet", "Destroyed"}
  <2>1. Head(todo) = todo[1] /\ todo # <<>>
    BY <1>2, <1>4
  <2>2. S \in Streams
    BY <1>2, <2>1, TopType
  <2>3. \A op \in {"DestroyNet", "Enable", "Destroyed"} : Call(op, S, 0) \in Calls
    BY <2>2, 0 \in 0..9, CallType DEF Ops
  <2>4. CASE todo[1].op = "Destroyed"
    <3>1. Destroyed
      BY <2>1, <2>4, Named
    <3>2. net'.destroyed
      BY <1>2, <3>1 DEF Destroyed, Types, NetType
    <3> QED BY <3>2 DEF AwaitInv, Reason
  <2>5. ASSUME NEW f \in Seq(Calls), NEW op \in {"DestroyNet", "Destroyed"}, Then(f \o Run(op))
        PROVE  AwaitInv'
    <3> DEFINE y == f \o Run(op)
    <3>1. y \in Seq(Calls) /\ Len(y) >= 1 /\ y[Len(y)].op = op /\ Len(y) \in Nat
      BY <2>3 DEF Run, Call
    <3>2. Then(y)
      BY <2>5
    <3> HIDE DEF y
    <3>3. /\ Len(todo') = Len(y) + Len(todo) - 1 /\ todo'[Len(y) + 1] = todo[2]
          /\ \A i \in 1..Len(y) : todo'[i] = y[i]
      BY <1>2, <1>8, <3>1, <3>2, LastTwo
    <3>4. Len(todo') = Len(y) + 1 /\ Len(todo') >= 2 /\ Len(todo') - 1 = Len(y) /\ Len(y) \in 1..Len(y)
      BY <1>8, <3>1, <3>3
    <3> QED BY <1>8, <3>1, <3>3, <3>4 DEF AwaitInv, Base
  <2>6. CASE todo[1].op = "DestroyNet"
    <3>1. DestroyNet /\ "RemoveStream" \in Ops
      BY <2>1, <2>6, Named DEF Ops
    <3> QED BY <2>5, <3>1, ForAllType DEF DestroyNet
  <2>7. CASE todo[1].op = "ServiceEnd"
    <3>1. ServiceEnd /\ "CloseStream" \in Ops
      BY <2>1, <2>7, Named DEF Ops
    <3>2. CASE net.error \/ net.eof \/ (net.goaway /\ ~net.blocked)
      BY <2>5, <3>1, <3>2, ForAllType DEF ServiceEnd
    <3>3. CASE ~(net.error \/ net.eof \/ (net.goaway /\ ~net.blocked))
      <4>1. Then(Run("Enable")) /\ net' = net /\ Run("Enable") \in Seq(Calls) /\ Len(Run("Enable")) = 1
            /\ Run("Enable")[1].op = "Enable"
        BY <2>3, <3>1, <3>3 DEF ServiceEnd, Run, Call
      <4> DEFINE y == Run("Enable")
      <4>2. y \in Seq(Calls) /\ Len(y) = 1 /\ y[1].op = "Enable" /\ Then(y)
        BY <4>1
      <4> HIDE DEF y
      <4>3. /\ Len(todo') = Len(y) + Len(todo) - 1 /\ todo'[Len(y) + 1] = todo[2]
            /\ \A i \in 1..Len(y) : todo'[i] = y[i]
        BY <1>2, <1>8, <4>2, LastTwo
      <4>4. Len(todo') = 2 /\ todo'[2] = todo[2] /\ todo'[1].op = "Enable"
        BY <1>8, <4>2, <4>3
      <4> QED BY <1>8, <3>3, <4>1, <4>4 DEF AwaitInv
    <3> QED BY <3>2, <3>3
  <2> QED BY <1>8, <2>4, <2>6, <2>7
<1>9. CASE Len(todo) >= 3 /\ todo[Len(todo)].op = "Idle" /\ Base \in {"ServiceEnd", "DestroyNet", "Destroyed"}
  <2>1. /\ todo'[Len(todo')] = todo[Len(todo)] /\ todo'[Len(todo') - 1] = todo[Len(todo) - 1]
    BY <1>1, <1>2, <1>9, LastTwo
  <2>2. Len(todo') >= 2
    BY <1>9, <1>3
  <2> QED BY <1>9, <2>1, <2>2 DEF AwaitInv, Base
<1>10. CASE Len(todo) = 2 /\ todo[Len(todo)].op = "Idle" /\ Base \in {"ServiceEnd", "DestroyNet", "Destroyed"}
  BY <1>8, <1>10 DEF Base
<1>11. \A n \in Nat : n >= 2 => n = 2 \/ n >= 3
  OBVIOUS
<1>12. Len(todo) >= 2 => Len(todo) = 2 \/ Len(todo) >= 3
  BY <1>3, <1>11
<1> QED BY <1>2, <1>5, <1>6, <1>7, <1>9, <1>10, <1>12 DEF AwaitInv

-----------------------------------------------------------------------------
\* What an event of the socket puts on the stack
LEMMA AwaitService == ASSUME NEW x \in Seq(BareCalls), IOEvent(x)
                      PROVE  AwaitInv'
<1> DEFINE a == Call("Service", 1, 0)
           b == Call("ServiceEnd", 1, 0)
           c == Call("Idle", 1, 0)
<1>1. todo' = x \o <<a, b, c>> /\ b.op = "ServiceEnd" /\ c.op = "Idle"
  BY DEF IOEvent, ServiceNet, Call
<1> HIDE DEF a, b, c
<1>2. Len(todo') = Len(x) + 3 /\ Len(x) \in Nat /\ todo'[Len(x) + 3] = c /\ todo'[Len(x) + 2] = b
  BY <1>1
<1>3. Len(todo') >= 2 /\ Len(todo') - 1 = Len(x) + 2
  BY <1>2
<1> QED BY <1>1, <1>2, <1>3 DEF AwaitInv, Base

LEMMA AwaitEvent == ASSUME TypeOK, AwaitInv, Event
                    PROVE  AwaitInv'
<1>0. Types /\ 1 \in Streams
  BY One DEF TypeOK, Types
<1>1. CASE ReadWindow \/ PeerClose \/ Writable \/ Hangup \/ Recall
  <2>1. IOEvent(<<>>)
    BY <1>1 DEF ReadWindow, PeerClose, Writable, Hangup, Recall
  <2> QED BY <2>1, BareJoin, AwaitService
<1>2. CASE NetTimeout
  <2>1. net'.closed
    BY <1>0, <1>2 DEF NetTimeout, Types, NetType
  <2> QED BY <2>1 DEF AwaitInv, Reason
<1>3. CASE ReadHeader
  <2>1. \/ IOEvent(When(stream[1].state = 0, SetTo(1, Begin)) \o <<Call("Line", 1, 0)>>)
        \/ IOEvent(<<>>)
        \/ IOEvent(SetTo(1, Begin) \o <<Call("Line", 1, 0)>>)
    BY <1>3 DEF ReadHeader
  <2>2. /\ When(stream[1].state = 0, SetTo(1, Begin)) \o <<Call("Line", 1, 0)>> \in Seq(BareCalls)
        /\ SetTo(1, Begin) \o <<Call("Line", 1, 0)>> \in Seq(BareCalls)
    BY <1>0, BareSets, BareJoin DEF When
  <2> QED BY <2>1, <2>2, BareJoin, AwaitService
<1>4. CASE ReadBody
  <2>1. IOEvent(<<Call("InputEnd", 1, 0)>>) \/ IOEvent(Error(1, Close))
    BY <1>4 DEF ReadBody
  <2> QED BY <1>0, <2>1, BareSets, AwaitService
<1>5. ASSUME NEW s \in Streams, ReadHeaders(s) \/ ReadData(s) \/ ReadReset(s)
      PROVE  AwaitInv'
  <2> DEFINE y == <<Call("Service", s, 0), Call("FrameDone", s, 0)>>
  <2>1. y \in Seq(BareCalls)
    BY BareFrame
  <2>2. CASE ReadHeaders(s)
    <3>1. PICK last \in BOOLEAN, rejected \in BOOLEAN :
            IOEvent(SetTo(s, Begin)
                    \o (IF rejected THEN <<Call("SendReset", s, 0)>>
                        ELSE When(last, <<Call("InputEnd", s, 0)>>) \o SetTo(s, Parsed)) \o y)
      BY <2>2 DEF ReadHeaders
    <3> DEFINE x == IF rejected THEN <<Call("SendReset", s, 0)>>
                    ELSE When(last, <<Call("InputEnd", s, 0)>>) \o SetTo(s, Parsed)
    <3>2. x \in Seq(BareCalls)
      BY BareSets, BareJoin DEF When
    <3>3. IOEvent(SetTo(s, Begin) \o x \o y)
      BY <3>1
    <3> HIDE DEF x, y
    <3> QED BY <2>1, <3>2, <3>3, BareSets, BareJoin, AwaitService
  <2>3. CASE ReadData(s)
    <3>1. IOEvent(<<Call("InputEnd", s, 0)>> \o y) \/ IOEvent(Error(s, Close) \o y)
      BY <2>3 DEF ReadData
    <3> HIDE DEF y
    <3> QED BY <2>1, <3>1, BareSets, BareJoin, AwaitService
  <2>4. CASE ReadReset(s)
    BY <2>1, <2>4, AwaitService DEF ReadReset
  <2> QED BY <1>5, <2>2, <2>3, <2>4
<1>6. ASSUME NEW s \in Streams, HttpTimer(s)
      PROVE  AwaitInv'
  <2>1. todo = <<>> /\ todo' = todo /\ UNCHANGED <<net, rx, tx, seen>>
    BY <1>6 DEF HttpTimer, Quiet
  <2>2. Len(todo) = 0
    BY <2>1
  <2>3. Reason \/ Awaited
    BY <2>1, <2>2 DEF AwaitInv
  <2>4. Reason' \/ Awaited'
    BY <2>1, <2>3 DEF Reason, Awaited, Left, Work, AtSocket
  <2> QED BY <2>1, <2>4 DEF AwaitInv
<1>7. ASSUME NEW s \in Streams, StreamTimeout(s)
      PROVE  AwaitInv'
  <2>1. seen'[s].late
    BY <1>0, <1>7 DEF StreamTimeout, Types, SeenType
  <2> QED BY <2>1 DEF AwaitInv, Reason
<1>8. ASSUME NEW s \in Streams, CgiOutput(s) \/ CgiEnd(s)
      PROVE  AwaitInv'
  <2>1. net' = [net EXCEPT !.recall = TRUE]
    BY <1>8 DEF CgiOutput, CgiEnd, CgiCall
  <2>2. net'.recall
    BY <1>0, <2>1 DEF Types, NetType
  <2> QED BY <2>2 DEF AwaitInv, Reason
<1> QED BY <1>1, <1>2, <1>3, <1>4, <1>5, <1>6, <1>7, <1>8 DEF Event

LEMMA AwaitInit == ASSUME Init
                   PROVE  AwaitInv
<1>1. todo = <<>> /\ \A s \in Streams : rx[s].queued = FALSE /\ tx[s] = FreshTx
  <2>1. PICK proto \in Protocols : rx = [s \in Streams |-> FreshRx(proto)]
    BY DEF Init
  <2> QED BY <2>1 DEF Init, FreshRx
<1>2. \A s \in Streams : ~rx[s].queued /\ ~tx[s].file /\ tx[s].end = "none" /\ tx[s].stale = "none"
  BY <1>1 DEF FreshTx
<1>3. ~Left
  BY <1>2 DEF Left, Work, AtSocket
<1> QED BY <1>1, <1>3 DEF AwaitInv, Awaited

\* For any number of streams, limits and faults: when the dispatcher comes to rest with output left, an event is
\* waited for, or the timeout of a request has left it behind. (httpServiceNet, httpGetNetEventMask, streamTimeout)
THEOREM OutputIsAwaited == Spec => []OutputAwaited
<1>1. Init => AwaitInv
  BY AwaitInit
<1>2. IInv /\ AwaitInv /\ [Next]_vars => AwaitInv'
  <2> SUFFICES ASSUME IInv, AwaitInv, [Next]_vars PROVE AwaitInv'
    OBVIOUS
  <2>1. CASE UNCHANGED vars
    BY <2>1 DEF vars, AwaitInv, Reason, Awaited, Base, Left, Work, AtSocket
  <2> QED BY <2>1, AwaitStep, AwaitEvent DEF Next, Done, IInv
<1>3. TypeOK /\ AwaitInv => OutputAwaited
  <2> SUFFICES ASSUME AwaitInv, Resting, ~net.destroyed, ~net.closed, Left
               PROVE  "write" \in net.mask \/ net.recall \/ \E s \in Streams : seen[s].late
    BY DEF OutputAwaited
  <2>1. Len(todo) = 0
    BY DEF Resting
  <2> QED BY <2>1 DEF AwaitInv, Awaited, Reason
<1> QED BY <1>1, <1>2, <1>3, Inductive, TypeCorrect, PTL DEF Spec
=============================================================================
