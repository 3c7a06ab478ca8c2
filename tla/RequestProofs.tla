--------------------------- MODULE RequestProofs ---------------------------
(***************************************************************************)
(* Proofs about Request, for any number of streams, any limits and any     *)
(* number of faults: the types, and the counter of active requests.        *)
(***************************************************************************)
EXTENDS Request, TLAPS, FiniteSetTheorems

-----------------------------------------------------------------------------
(* The stack of calls *)

\* A typed call on a stream is a call.
LEMMA CallType == ASSUME NEW op \in Ops, NEW s \in Streams, NEW n \in 0..9
                  PROVE  Call(op, s, n) \in Calls
BY DEF Call, Calls

\* What is on the stack is taken from it one by one.
LEMMA HeadTail == ASSUME NEW C, NEW q \in Seq(C), q # <<>>
                  PROVE  Head(q) \in C /\ Tail(q) \in Seq(C)
OBVIOUS

\* The call on the top of the stack names a stream.
LEMMA TopType == ASSUME TypeOK, todo # <<>>
                 PROVE  /\ Head(todo) \in Calls /\ S \in Streams /\ Arg \in 0..9 /\ Tail(todo) \in Seq(Calls)
                        /\ Head(todo).op \in Ops
<1>1. todo \in Seq(Calls)
  BY DEF TypeOK
<1>2. Head(todo) \in Calls /\ Tail(todo) \in Seq(Calls)
  BY <1>1, HeadTail
<1> QED BY <1>2 DEF S, Arg, Calls

-----------------------------------------------------------------------------
(* The inductive invariant *)

\* The call c takes the stream out of the count if it still is in it.
Ends(c, s) == c.op = "DestroyNet" \/ (c.op \in {"RemoveStream", "DestroyStream"} /\ c.s = s)
Ending(i, s) == \E j \in 1..Len(todo) : j > i /\ Ends(todo[j], s)
Leaving(i) == \E j \in 1..Len(todo) : j > i /\ todo[j].op = "Destroyed"

\* What holds of a stream between any two calls
StreamOK(s) ==
  /\ stream[s].state \in First..Running => stream[s].counted
  /\ stream[s].counted => stream[s].state >= First
  /\ stream[s].counted /\ stream[s].state = Complete => Ending(0, s)
  /\ stream[s].target = Complete => Ending(0, s) \/ (stream[s].state = Complete /\ ~stream[s].counted)
  /\ stream[s].state = 0 => stream[s].target # Complete
  /\ stream[s].destroyed => stream[s].state = Complete /\ ~stream[s].counted
  /\ Http1 /\ stream[s].destroyed => net.destroyed \/ Leaving(0)

\* What holds of the i-th call of the stack as long as it is there
CallOK(i) ==
  LET c == todo[i] IN
  /\ c.op \in {"Headers", "Parsed", "Content", "Ready"} => stream[c.s].state >= First
  /\ c.op = "Finalized" => i = 1 /\ stream[c.s].counted /\ stream[c.s].state = Finalized
  /\ c.op = "Update" /\ c.n > First => stream[c.s].state >= First
  /\ c.op = "Update" /\ c.n = Complete => ~stream[c.s].counted \/ Ending(0, c.s)
  /\ c.op = "SetState" /\ c.n = Complete => i = 1 /\ Ending(1, c.s) /\ stream[c.s].state > 0
  /\ c.op \in {"Abandon", "CloseStream"} => Ending(i, c.s)
  /\ Http1 /\ c.op \in {"RemoveStream", "DestroyStream"} => Leaving(i)
  /\ Http1 => c.op \notin {"FrameDone", "FrameClosed"}

Counting == active = Cardinality({s \in Streams : stream[s].counted})

IInv ==
  /\ TypeOK
  /\ Counting
  /\ \A s \in Streams : StreamOK(s)
  /\ \A i \in 1..Len(todo) : CallOK(i)
-----------------------------------------------------------------------------
(* Calls that may be made at any time *)

PlainOps == Ops \ {"SetState", "Update", "Headers", "Parsed", "Content", "Ready", "Finalized", "Abandon", "CloseStream",
                   "RemoveStream", "DestroyStream", "FrameDone", "FrameClosed"}

\* The calls for which CallOK asks nothing, wherever they are on the stack, and those that enter a state before
\* FINALIZED once the request is counted
Good == {c \in Calls : \/ c.op \in PlainOps
                       \/ c.op = "SetState" /\ c.n < Complete
                       \/ c.op = "Update" /\ c.n < Complete /\ (c.n > First => stream[c.s].state >= First)}

LEMMA GoodConcat == ASSUME NEW x \in Seq(Good), NEW y \in Seq(Good)
                    PROVE  x \o y \in Seq(Good)
OBVIOUS

LEMMA GoodOne == ASSUME NEW c \in Good
                 PROVE  <<c>> \in Seq(Good)
OBVIOUS

LEMMA GoodWhen == ASSUME NEW b \in BOOLEAN, NEW x \in Seq(Good)
                  PROVE  When(b, x) \in Seq(Good)
BY DEF When

LEMMA GoodNone == <<>> \in Seq(Good)
OBVIOUS

LEMMA GoodCall == ASSUME NEW op \in PlainOps, NEW s \in Streams, NEW n \in 0..9
                  PROVE  Call(op, s, n) \in Good /\ <<Call(op, s, n)>> \in Seq(Good)
<1>1. Call(op, s, n) \in Good
  BY CallType DEF Good, PlainOps, Call
<1> QED BY <1>1, GoodOne

LEMMA GoodRun == ASSUME NEW op \in PlainOps, S \in Streams
                 PROVE  Run(op) \in Seq(Good)
BY GoodCall DEF Run

LEMMA GoodError == ASSUME NEW s \in Streams, NEW kind \in 0..3
                   PROVE  Error(s, kind) \in Seq(Good)
BY GoodCall DEF Error, PlainOps, Ops

LEMMA GoodSetTo == ASSUME NEW s \in Streams, NEW n \in 0..8
                   PROVE  SetTo(s, n) \in Seq(Good)
<1>1. Call("SetState", s, n) \in Calls
  BY "SetState" \in Ops, n \in 0..9, CallType DEF Ops
<1>2. Call("SetState", s, n) \in Good
  BY <1>1 DEF Good, Call, Complete
<1> QED BY <1>2, GoodOne DEF SetTo

LEMMA GoodUpdate == ASSUME NEW s \in Streams, NEW n \in 0..8, n > First => stream[s].state >= First
                    PROVE  <<Call("Update", s, n)>> \in Seq(Good)
<1>1. Call("Update", s, n) \in Calls
  BY "Update" \in Ops, n \in 0..9, CallType DEF Ops
<1>2. Call("Update", s, n) \in Good
  BY <1>1 DEF Good, Call, Complete
<1> QED BY <1>2, GoodOne

LEMMA GoodForAll == ASSUME NEW op \in PlainOps
                    PROVE  ForAll(op) \in Seq(Good)
<1>1. N \in Nat
  BY RequestAssumption
<1>2. \A s \in 1..N : Call(op, s, 0) \in Good
  BY GoodCall DEF Streams
<1>3. ForAll(op) = [s \in 1..N |-> Call(op, s, 0)]
  BY DEF ForAll, Streams
<1> QED BY <1>1, <1>2, <1>3
-----------------------------------------------------------------------------
(* The types of the records, field by field *)

Types ==
  /\ net \in NetType
  /\ stream \in [Streams -> StreamType]
  /\ rx \in [Streams -> RxType] /\ tx \in [Streams -> TxType]
  /\ seen \in [Streams -> SeenType]
  /\ faults \in Nat

Places == {"none", "queued", "filter", "socket", "sent", "dropped"}
H2States == {"idle", "open", "local", "remote", "closed", "error"}

LEMMA NetSet == ASSUME NEW r \in NetType, NEW v \in BOOLEAN
PROVE  /\ [r EXCEPT !.eof = v] \in NetType /\ [r EXCEPT !.error = v] \in NetType
       /\ [r EXCEPT !.active = v] \in NetType /\ [r EXCEPT !.closed = v] \in NetType
       /\ [r EXCEPT !.blocked = v] \in NetType /\ [r EXCEPT !.stalled = v] \in NetType
       /\ [r EXCEPT !.goaway = v] \in NetType /\ [r EXCEPT !.timer = v] \in NetType
       /\ [r EXCEPT !.recall = v] \in NetType /\ [r EXCEPT !.destroyed = v] \in NetType
BY DEF NetType

LEMMA NetMask == ASSUME NEW r \in NetType, NEW m \in SUBSET {"read", "write"}
PROVE  [r EXCEPT !.mask = m] \in NetType
BY DEF NetType

LEMMA RxSet == ASSUME NEW f \in [Streams -> RxType], NEW s \in Streams, NEW v \in BOOLEAN
PROVE  /\ [f EXCEPT ![s].eof = v] \in [Streams -> RxType] /\ [f EXCEPT ![s].inputEnded = v] \in [Streams -> RxType]
       /\ [f EXCEPT ![s].more = v] \in [Streams -> RxType] /\ [f EXCEPT ![s].routed = v] \in [Streams -> RxType]
       /\ [f EXCEPT ![s].streaming = v] \in [Streams -> RxType] /\ [f EXCEPT ![s].queued = v] \in [Streams -> RxType]
       /\ [f EXCEPT ![s].errdoc = v] \in [Streams -> RxType]
BY SMTT(60) DEF RxType

LEMMA TxSet == ASSUME NEW f \in [Streams -> TxType], NEW s \in Streams, NEW v \in BOOLEAN
PROVE  /\ [f EXCEPT ![s].pipeline = v] \in [Streams -> TxType] /\ [f EXCEPT ![s].opened = v] \in [Streams -> TxType]
       /\ [f EXCEPT ![s].started = v] \in [Streams -> TxType] /\ [f EXCEPT ![s].ready = v] \in [Streams -> TxType]
       /\ [f EXCEPT ![s].working = v] \in [Streams -> TxType] /\ [f EXCEPT ![s].file = v] \in [Streams -> TxType]
       /\ [f EXCEPT ![s].pending = v] \in [Streams -> TxType] /\ [f EXCEPT ![s].finIn = v] \in [Streams -> TxType]
       /\ [f EXCEPT ![s].finOut = v] \in [Streams -> TxType] /\ [f EXCEPT ![s].finConn = v] \in [Streams -> TxType]
       /\ [f EXCEPT ![s].finalized = v] \in [Streams -> TxType] /\ [f EXCEPT ![s].headers = v] \in [Streams -> TxType]
       /\ [f EXCEPT ![s].errdoc = v] \in [Streams -> TxType]
BY SMTT(60) DEF TxType

LEMMA TxPlace == ASSUME NEW f \in [Streams -> TxType], NEW s \in Streams
PROVE  /\ f[s].end \in Places /\ f[s].stale \in {"none", "queued", "socket"}
       /\ f[s].handler \in {"none", "pass", "refuse", "file", "cgi"}
       /\ \A v \in Places : [f EXCEPT ![s].end = v] \in [Streams -> TxType]
       /\ \A v \in {"none", "queued", "socket"} : [f EXCEPT ![s].stale = v] \in [Streams -> TxType]
       /\ \A v \in {"none", "pass", "refuse", "file", "cgi"} : [f EXCEPT ![s].handler = v] \in [Streams -> TxType]
BY SMTT(30), ZenonT(60) DEF TxType, Places

LEMMA FaultType == ASSUME Types, NEW c \in BOOLEAN, Fault(c)
PROVE  faults' \in Nat
BY DEF Types, Fault

\* The fields of a stream that the invariant speaks of
Core(f, g) == \A r \in Streams : /\ f[r].state = g[r].state /\ f[r].target = g[r].target
                                 /\ f[r].counted = g[r].counted /\ f[r].destroyed = g[r].destroyed

LEMMA CoreSame == ASSUME NEW f \in [Streams -> StreamType], NEW g, NEW h, Core(f, g), Core(g, h)
PROVE  Core(f, h)
BY DEF Core

LEMMA StreamSet == ASSUME NEW f \in [Streams -> StreamType], NEW s \in Streams, NEW v \in BOOLEAN
PROVE  /\ [f EXCEPT ![s].setting = v] \in [Streams -> StreamType]
       /\ [f EXCEPT ![s].error = v] \in [Streams -> StreamType]
       /\ [f EXCEPT ![s].disconnect = v] \in [Streams -> StreamType]
       /\ [f EXCEPT ![s].completed = v] \in [Streams -> StreamType]
       /\ [f EXCEPT ![s].counted = v] \in [Streams -> StreamType]
       /\ [f EXCEPT ![s].destroyed = v] \in [Streams -> StreamType]
BY DEF StreamType

LEMMA StreamValue == ASSUME NEW f \in [Streams -> StreamType], NEW s \in Streams
PROVE  /\ f[s].h2 \in H2States /\ f[s].keep \in 0..KeepAlive
       /\ \A v \in H2States : [f EXCEPT ![s].h2 = v] \in [Streams -> StreamType]
       /\ \A v \in 0..KeepAlive : [f EXCEPT ![s].keep = v] \in [Streams -> StreamType]
       /\ \A v \in {"none", "queued", "fired"} : [f EXCEPT ![s].timer = v] \in [Streams -> StreamType]
<1>1. f[s].h2 \in H2States /\ f[s].keep \in 0..KeepAlive
  BY DEF StreamType, H2States
<1>2. \A v \in H2States : [f EXCEPT ![s].h2 = v] \in [Streams -> StreamType]
  BY DEF StreamType, H2States
<1>3. \A v \in 0..KeepAlive : [f EXCEPT ![s].keep = v] \in [Streams -> StreamType]
  BY DEF StreamType
<1>4. \A v \in {"none", "queued", "fired"} : [f EXCEPT ![s].timer = v] \in [Streams -> StreamType]
  BY DEF StreamType
<1> QED BY <1>1, <1>2, <1>3, <1>4

LEMMA StreamState == ASSUME NEW f \in [Streams -> StreamType], NEW s \in Streams, NEW v \in 0..9
PROVE  [f EXCEPT ![s].state = v] \in [Streams -> StreamType] /\ [f EXCEPT ![s].target = v] \in [Streams -> StreamType]
BY DEF StreamType

\* The connection may be kept alive for one request less, or not at all.
LEMMA KeepLess == ASSUME NEW k \in 0..KeepAlive
PROVE  0 \in 0..KeepAlive /\ (k > 0 => k - 1 \in 0..KeepAlive)
BY RequestAssumption

LEMMA CoreSet == ASSUME NEW f \in [Streams -> StreamType], NEW s \in Streams, NEW v
PROVE  /\ Core([f EXCEPT ![s].error = v], f) /\ Core([f EXCEPT ![s].disconnect = v], f)
       /\ Core([f EXCEPT ![s].keep = v], f) /\ Core([f EXCEPT ![s].timer = v], f) /\ Core([f EXCEPT ![s].h2 = v], f)
       /\ Core([f EXCEPT ![s].setting = v], f) /\ Core([f EXCEPT ![s].completed = v], f)
BY DEF StreamType, Core

-----------------------------------------------------------------------------
(* The steps that change nothing the invariant speaks of but the stack, and push calls that may be made at any time *)

LEMMA GoodRuns == ASSUME S \in Streams
PROVE  /\ Run("Redirect") \in Seq(Good) /\ Run("AfterError") \in Seq(Good) /\ Run("Finalize") \in Seq(Good)
       /\ Run("FinalizeOutput") \in Seq(Good) /\ Run("FinalizeInput") \in Seq(Good)
       /\ Run("CheckFinalized") \in Seq(Good) /\ Run("FinalizeConnector") \in Seq(Good)
       /\ Run("Disconnect") \in Seq(Good) /\ Run("Hang") \in Seq(Good) /\ Run("NetError") \in Seq(Good)
       /\ Run("InputEnd") \in Seq(Good) /\ Run("Route") \in Seq(Good) /\ Run("Open") \in Seq(Good)
       /\ Run("Revert") \in Seq(Good) /\ Run("StartHandler") \in Seq(Good) /\ Run("Pending") \in Seq(Good)
       /\ Run("Filed") \in Seq(Good) /\ Run("Send") \in Seq(Good) /\ Run("SendReset") \in Seq(Good)
       /\ Run("DestroyNet") \in Seq(Good) /\ Run("Destroyed") \in Seq(Good) /\ Run("Enable") \in Seq(Good)
       /\ Run("Fields") \in Seq(Good)
<1>1. \A op \in PlainOps : Run(op) \in Seq(Good)
  BY GoodRun
<1>2. {"Redirect", "AfterError", "Finalize", "FinalizeOutput", "FinalizeInput", "CheckFinalized", "FinalizeConnector",
       "Disconnect", "Hang", "NetError", "InputEnd", "Route"} \subseteq PlainOps
  BY DEF PlainOps, Ops
<1>3. {"Open", "Revert", "StartHandler", "Pending", "Filed", "Send", "SendReset", "DestroyNet", "Destroyed", "Enable",
       "Fields"} \subseteq PlainOps
  BY DEF PlainOps, Ops
<1>4. QED
  BY <1>1, <1>2, <1>3

LEMMA GoodForAlls ==
       /\ ForAll("Fail") \in Seq(Good) /\ ForAll("PumpIn") \in Seq(Good) /\ ForAll("PumpFile") \in Seq(Good)
       /\ ForAll("Free") \in Seq(Good)
BY GoodForAll DEF PlainOps, Ops

LEMMA GoodErrors == ASSUME NEW s \in Streams
PROVE  /\ Error(s, Soft) \in Seq(Good) /\ Error(s, Close) \in Seq(Good)
       /\ Error(s, Abort) \in Seq(Good) /\ Error(s, Silent) \in Seq(Good)
BY GoodError DEF Soft, Close, Abort, Silent

LEMMA GoodSets == ASSUME NEW s \in Streams
PROVE  /\ SetTo(s, Begin) \in Seq(Good) /\ SetTo(s, First) \in Seq(Good) /\ SetTo(s, Parsed) \in Seq(Good)
       /\ SetTo(s, Ready) \in Seq(Good) /\ SetTo(s, Finalized) \in Seq(Good)
BY GoodSetTo DEF Begin, First, Parsed, Ready, Finalized

LEMMA GoodFirst == ASSUME NEW s \in Streams
PROVE  <<Call("Update", s, 0)>> \in Seq(Good) /\ <<Call("Update", s, First)>> \in Seq(Good)
BY GoodUpdate DEF First

LEMMA GoodUpdates == ASSUME NEW s \in Streams, stream[s].state >= First
PROVE  /\ <<Call("Update", s, Content)>> \in Seq(Good) /\ <<Call("Update", s, Ready)>> \in Seq(Good)
       /\ <<Call("Update", s, Running)>> \in Seq(Good)
BY GoodUpdate DEF Content, Ready, Running

LEMMA SpendType == ASSUME Types, NEW s \in Streams
PROVE  Spend(s) \in [Streams -> StreamType] /\ Core(Spend(s), stream)
<1> DEFINE keep == IF Http1 /\ ~tx[s].headers /\ stream[s].keep > 0 THEN stream[s].keep - 1 ELSE stream[s].keep
<1>1. keep \in 0..KeepAlive
  BY StreamValue, KeepLess DEF Types
<1>2. Spend(s) = [stream EXCEPT ![s].keep = keep]
  BY DEF Spend
<1>3. stream \in [Streams -> StreamType]
  BY DEF Types
<1> HIDE DEF keep
<1>4. [stream EXCEPT ![s].keep = keep] \in [Streams -> StreamType]
  BY <1>1, <1>3, StreamValue
<1>5. Core([stream EXCEPT ![s].keep = keep], stream)
  BY <1>3, CoreSet
<1> QED BY <1>2, <1>4, <1>5, Zenon

LEMMA GoodService == ASSUME NEW s \in Streams
PROVE  Call("Service", s, 1) \in Good /\ Call("ReadyHandler", s, 0) \in Good
BY GoodCall DEF PlainOps, Ops

LEMMA GoodTwo == ASSUME NEW a \in Good, NEW b \in Good
PROVE  <<a, b>> \in Seq(Good)
OBVIOUS

LEMMA GoodThree == ASSUME NEW a \in Good, NEW b \in Good, NEW c, <<c>> \in Seq(Good)
PROVE  <<a, b, c>> \in Seq(Good)
<1>1. c \in Good
  BY Len(<<c>>) = 1, <<c>>[1] = c
<1> QED BY <1>1

LEMMA GoodPumps == [i \in Streams |-> Call("PumpOut", i, 1)] \in Seq(Good)
<1>1. N \in Nat
  BY RequestAssumption
<1>2. \A s \in 1..N : Call("PumpOut", s, 1) \in Good
  BY GoodCall DEF Streams, PlainOps, Ops
<1> QED BY <1>1, <1>2 DEF Streams

LEMMA PushTwo == ASSUME NEW q \in Seq(Calls), q # <<>>, NEW c \in Calls
PROVE  <<c>> \o q = <<c, Head(q)>> \o Tail(q)
OBVIOUS

LEMMA TopOK == ASSUME IInv, todo # <<>>
               PROVE  1 \in 1..Len(todo) /\ todo[1] = Head(todo) /\ CallOK(1)
<1>1. todo \in Seq(Calls)
  BY DEF IInv, TypeOK
<1>2. 1 \in 1..Len(todo) /\ todo[1] = Head(todo)
  BY <1>1
<1> QED BY <1>2 DEF IInv

Same ==
  /\ active' = active /\ net'.proto = net.proto /\ (net.destroyed => net'.destroyed)
  /\ Core(stream', stream)

Stays == todo # <<>> /\ Head(todo).op \notin {"DestroyNet", "RemoveStream", "DestroyStream", "Destroyed"}

Plain ==
  /\ Stays
  /\ Types'
  /\ Same
  /\ \E calls \in Seq(Good) : Then(calls)

\* What the proof of a step begins with
LEMMA Begins == ASSUME IInv, NEW op \in Ops \ {"DestroyNet", "RemoveStream", "DestroyStream", "Destroyed"}, Do(op)
PROVE  Stays /\ Types /\ S \in Streams /\ Arg \in 0..9
BY TopType DEF IInv, TypeOK, Types, Do, Stays

\* The steps of process.c
LEMMA ProcessPlain == ASSUME IInv, Kick \/ ProcessFirst \/ ProcessHeaders \/ ProcessParsed \/ ProcessContent \/ InputEnd \/ ProcessReady
PROVE  Plain
<1>1. CASE Kick
  <2>1. Stays /\ Types /\ S \in Streams /\ Arg \in 0..9
    BY <1>1, "Kick" \in Ops, Begins DEF Kick, Ops
  <2>2. Types'
    BY <1>1, <2>1 DEF Kick, Types
  <2>3. Same
    BY <1>1, <2>1 DEF Kick, Same, Core
  <2>4. \E calls \in Seq(Good) : Then(calls)
    BY <1>1, <2>1, GoodNone, GoodRuns
       DEF Kick, When
  <2> QED BY <2>1, <2>2, <2>3, <2>4 DEF Plain
<1>2. CASE ProcessFirst
  <2>1. Stays /\ Types /\ S \in Streams /\ Arg \in 0..9
    BY <1>2, "First" \in Ops, Begins DEF ProcessFirst, Ops
  <2>2. faults' \in Nat
    BY <1>2, <2>1, FaultType DEF ProcessFirst, Types
  <2>3. Types'
    BY <1>2, <2>1, <2>2 DEF ProcessFirst, Types
  <2>4. Same
    BY <1>2, <2>1 DEF ProcessFirst, Same, Core
  <2>5. \E calls \in Seq(Good) : Then(calls)
    BY <1>2, <2>1, GoodConcat, GoodErrors, GoodFirst, GoodUpdates
       DEF ProcessFirst
  <2> QED BY <2>1, <2>3, <2>4, <2>5 DEF Plain
<1>3. CASE ProcessHeaders
  <2>1. Stays /\ Types /\ S \in Streams /\ Arg \in 0..9
    BY <1>3, "Headers" \in Ops, Begins DEF ProcessHeaders, Ops
  <2>2. stream' \in [Streams -> StreamType]
    <3>1. stream' = stream \/ \E closing \in BOOLEAN : stream' = [stream EXCEPT ![S].keep = IF closing THEN 0 ELSE @]
      BY <1>3, Zenon DEF ProcessHeaders
    <3>2. CASE stream' = stream
      BY <2>1, <3>2 DEF Types
    <3>3. ASSUME NEW closing \in BOOLEAN, stream' = [stream EXCEPT ![S].keep = IF closing THEN 0 ELSE @]
          PROVE  stream' \in [Streams -> StreamType]
      <4>1. (IF closing THEN 0 ELSE stream[S].keep) \in 0..KeepAlive
        BY <2>1, StreamValue, KeepLess DEF Types
      <4> QED BY <2>1, <3>3, <4>1, StreamValue DEF Types
    <3> QED BY <3>1, <3>2, <3>3
  <2>3. rx' \in [Streams -> RxType]
    <3>1. rx' = rx \/ \E more, streaming \in BOOLEAN : rx' = [rx EXCEPT ![S].more = more, ![S].streaming = streaming]
      BY <1>3, Zenon DEF ProcessHeaders
    <3>2. CASE rx' = rx
      BY <2>1, <3>2 DEF Types
    <3>3. ASSUME NEW more \in BOOLEAN, NEW streaming \in BOOLEAN,
                 rx' = [rx EXCEPT ![S].more = more, ![S].streaming = streaming]
          PROVE  rx' \in [Streams -> RxType]
      <4>1. [rx EXCEPT ![S].more = more] \in [Streams -> RxType]
        BY <2>1, RxSet DEF Types
      <4> QED BY <2>1, <3>3, <4>1, RxSet
    <3> QED BY <3>1, <3>2, <3>3
  <2>4. faults' \in Nat
    BY <1>3, <2>1, FaultType DEF ProcessHeaders, Types
  <2>5. Types'
    BY <1>3, <2>1, <2>2, <2>3, <2>4 DEF ProcessHeaders, Types
  <2>6. Same
    <3>1. stream' = stream \/ \E closing \in BOOLEAN : stream' = [stream EXCEPT ![S].keep = IF closing THEN 0 ELSE @]
      BY <1>3, Zenon DEF ProcessHeaders
    <3>2. ASSUME stream' = stream PROVE Core(stream', stream)
      BY <3>2 DEF Core
    <3>3. ASSUME NEW closing \in BOOLEAN, stream' = [stream EXCEPT ![S].keep = IF closing THEN 0 ELSE @]
          PROVE  Core(stream', stream)
      BY <2>1, <3>3, CoreSet DEF Types
    <3>4. Core(stream', stream)
      BY <3>1, <3>2, <3>3
    <3>5. net' = net /\ active' = active
      BY <1>3 DEF ProcessHeaders
    <3> QED BY <3>4, <3>5 DEF Same
  <2>7. \E calls \in Seq(Good) : Then(calls)
    BY <1>3, <2>1, GoodNone, GoodErrors
       DEF ProcessHeaders
  <2> QED BY <2>1, <2>5, <2>6, <2>7 DEF Plain
<1>4. CASE ProcessParsed
  <2>1. Stays /\ Types /\ S \in Streams /\ Arg \in 0..9
    BY <1>4, "Parsed" \in Ops, Begins DEF ProcessParsed, Ops
  <2>2. stream[S].state >= First
    BY <1>4, <2>1, TopOK DEF ProcessParsed, Do, CallOK, S, Stays
  <2>3. faults' \in Nat
    BY <1>4, <2>1, FaultType DEF ProcessParsed, Types
  <2>4. Types'
    BY <1>4, <2>1, <2>3 DEF ProcessParsed, Types
  <2>5. Same
    BY <1>4, <2>1 DEF ProcessParsed, Same, Core
  <2>6. \E calls \in Seq(Good) : Then(calls)
    BY <1>4, <2>1, <2>2, GoodConcat, GoodNone, GoodRuns, GoodErrors, GoodFirst, GoodUpdates
       DEF ProcessParsed, When
  <2> QED BY <2>1, <2>4, <2>5, <2>6 DEF Plain
<1>5. CASE ProcessContent
  <2>1. Stays /\ Types /\ S \in Streams /\ Arg \in 0..9
    BY <1>5, "Content" \in Ops, Begins DEF ProcessContent, Ops
  <2>2. stream[S].state >= First
    BY <1>5, <2>1, TopOK DEF ProcessContent, Do, CallOK, S, Stays
  <2>3. Types'
    BY <1>5, <2>1 DEF ProcessContent, Types
  <2>4. Same
    BY <1>5, <2>1 DEF ProcessContent, Same, Core
  <2>5. \E calls \in Seq(Good) : Then(calls)
    BY <1>5, <2>1, <2>2, GoodConcat, GoodRuns, GoodFirst, GoodUpdates
       DEF ProcessContent
  <2> QED BY <2>1, <2>3, <2>4, <2>5 DEF Plain
<1>6. CASE InputEnd
  <2>1. Stays /\ Types /\ S \in Streams /\ Arg \in 0..9
    BY <1>6, "InputEnd" \in Ops, Begins DEF InputEnd, Ops
  <2>2. rx' \in [Streams -> RxType]
    BY <1>6, <2>1, RxSet DEF InputEnd, Types
  <2>3. Types'
    BY <1>6, <2>1, <2>2 DEF InputEnd, Types
  <2>4. Same
    BY <1>6, <2>1 DEF InputEnd, Same, Core
  <2>5. \E calls \in Seq(Good) : Then(calls)
    BY <1>6, <2>1, GoodNone
       DEF InputEnd
  <2> QED BY <2>1, <2>3, <2>4, <2>5 DEF Plain
<1>7. CASE ProcessReady
  <2>1. Stays /\ Types /\ S \in Streams /\ Arg \in 0..9
    BY <1>7, "Ready" \in Ops, Begins DEF ProcessReady, Ops
  <2>2. stream[S].state >= First
    BY <1>7, <2>1, TopOK DEF ProcessReady, Do, CallOK, S, Stays
  <2>3. Types'
    BY <1>7, <2>1 DEF ProcessReady, Types
  <2>4. Same
    BY <1>7, <2>1 DEF ProcessReady, Same, Core
  <2>5. \E calls \in Seq(Good) : Then(calls)
    <3>1. <<Call("Service", S, 1), Call("ReadyHandler", S, 0), Call("Update", S, Running)>> \in Seq(Good)
      BY <2>1, <2>2, GoodService, GoodUpdates, GoodThree
    <3>2. When(rx[S].eof, Run("Route") \o Run("StartHandler")) \in Seq(Good)
      BY <2>1, GoodRuns, GoodConcat, GoodNone DEF When
    <3> QED BY <1>7, <3>1, <3>2, GoodConcat DEF ProcessReady
  <2> QED BY <2>1, <2>3, <2>4, <2>5 DEF Plain
<1> QED BY <1>1, <1>2, <1>3, <1>4, <1>5, <1>6, <1>7

\* The steps of error.c
LEMMA ErrorPlain == ASSUME IInv, RaiseError \/ Redirect \/ AfterError \/ NetError \/ Fail
PROVE  Plain
<1>1. CASE RaiseError
  <2>1. Stays /\ Types /\ S \in Streams /\ Arg \in 0..9
    BY <1>1, "Error" \in Ops, Begins DEF RaiseError, Ops
  <2>2. stream' \in [Streams -> StreamType]
    <3> DEFINE f == [stream EXCEPT ![S].error = TRUE]
               g == [f EXCEPT ![S].keep = IF Arg \in {Close, Abort} THEN 0 ELSE @]
               kind == IF tx[S].headers THEN Abort ELSE Arg
               h == [g EXCEPT ![S].disconnect = @ \/ (~stream[S].error /\ kind = Abort)]
    <3>1. f \in [Streams -> StreamType] /\ Core(f, stream)
      BY <2>1, StreamSet, CoreSet DEF Types
    <3>2. g \in [Streams -> StreamType] /\ Core(g, f)
      <4> HIDE DEF f
      <4> QED BY <2>1, <3>1, StreamValue, KeepLess, CoreSet
    <3>3. h \in [Streams -> StreamType] /\ Core(h, g)
      <4> HIDE DEF g
      <4> QED BY <2>1, <3>2, StreamSet, CoreSet
    <3>4. stream' = h
      BY <1>1 DEF RaiseError
    <3> QED BY <3>3, <3>4
  <2>3. rx' \in [Streams -> RxType]
    BY <1>1, <2>1, RxSet DEF RaiseError, Types
  <2>4. Types'
    BY <1>1, <2>1, <2>2, <2>3 DEF RaiseError, Types
  <2>5. Same
    <3> DEFINE f == [stream EXCEPT ![S].error = TRUE]
               g == [f EXCEPT ![S].keep = IF Arg \in {Close, Abort} THEN 0 ELSE @]
               kind == IF tx[S].headers THEN Abort ELSE Arg
               h == [g EXCEPT ![S].disconnect = @ \/ (~stream[S].error /\ kind = Abort)]
    <3>1. f \in [Streams -> StreamType] /\ Core(f, stream)
      BY <2>1, StreamSet, CoreSet DEF Types
    <3>2. g \in [Streams -> StreamType] /\ Core(g, f)
      <4> HIDE DEF f
      <4> QED BY <2>1, <3>1, StreamValue, KeepLess, CoreSet
    <3>3. Core(h, g)
      <4> HIDE DEF g
      <4> QED BY <2>1, <3>2, CoreSet
    <3>4. stream' = h /\ net' = net /\ active' = active
      BY <1>1 DEF RaiseError
    <3> HIDE DEF f, g, h
    <3> QED BY <3>1, <3>2, <3>3, <3>4 DEF Same, Core
  <2>6. \E calls \in Seq(Good) : Then(calls)
    BY <1>1, <2>1, GoodConcat, GoodNone, GoodRuns
       DEF RaiseError, When
  <2> QED BY <2>1, <2>4, <2>5, <2>6 DEF Plain
<1>2. CASE Redirect
  <2>1. Stays /\ Types /\ S \in Streams /\ Arg \in 0..9
    BY <1>2, "Redirect" \in Ops, Begins DEF Redirect, Ops
  <2>2. tx' \in [Streams -> TxType]
    BY SMTT(30), ZenonT(60), <1>2, <2>1, TxSet, TxPlace DEF Redirect, Types, Places
  <2>3. Types'
    BY <1>2, <2>1, <2>2 DEF Redirect, Types
  <2>4. Same
    BY <1>2, <2>1 DEF Redirect, Same, Core
  <2>5. \E calls \in Seq(Good) : Then(calls)
    BY <1>2, <2>1, GoodSets
       DEF Redirect
  <2> QED BY <2>1, <2>3, <2>4, <2>5 DEF Plain
<1>3. CASE AfterError
  <2>1. Stays /\ Types /\ S \in Streams /\ Arg \in 0..9
    BY <1>3, "AfterError" \in Ops, Begins DEF AfterError, Ops
  <2>2. Types'
    BY <1>3, <2>1 DEF AfterError, Types
  <2>3. Same
    BY <1>3, <2>1 DEF AfterError, Same, Core
  <2>4. \E calls \in Seq(Good) : Then(calls)
    BY <1>3, <2>1, GoodNone, GoodRuns
       DEF AfterError, When
  <2> QED BY <2>1, <2>2, <2>3, <2>4 DEF Plain
<1>4. CASE NetError
  <2>1. Stays /\ Types /\ S \in Streams /\ Arg \in 0..9
    BY <1>4, "NetError" \in Ops, Begins DEF NetError, Ops
  <2>2. net' \in NetType
    BY <1>4, <2>1, NetSet DEF NetError, Types
  <2>3. Types'
    BY <1>4, <2>1, <2>2 DEF NetError, Types
  <2>4. Same
    BY <1>4, <2>1 DEF NetError, Same, Core, Types, NetType
  <2>5. \E calls \in Seq(Good) : Then(calls)
    BY <1>4, <2>1, GoodNone, GoodForAlls
       DEF NetError, When
  <2> QED BY <2>1, <2>3, <2>4, <2>5 DEF Plain
<1>5. CASE Fail
  <2>1. Stays /\ Types /\ S \in Streams /\ Arg \in 0..9
    BY <1>5, "Fail" \in Ops, Begins DEF Fail, Ops
  <2>2. Types'
    BY <1>5, <2>1 DEF Fail, Types
  <2>3. Same
    BY <1>5, <2>1 DEF Fail, Same, Core
  <2>4. \E calls \in Seq(Good) : Then(calls)
    BY <1>5, <2>1, GoodConcat, GoodNone, GoodRuns, GoodErrors
       DEF Fail, When
  <2> QED BY <2>1, <2>2, <2>3, <2>4 DEF Plain
<1> QED BY <1>1, <1>2, <1>3, <1>4, <1>5

\* The steps of tx.c
LEMMA FinishPlain == ASSUME IInv, Finalize \/ FinalizeOutput \/ FinalizeInput \/ CheckFinalized \/ SetFinalized \/ FinalizeConnector \/ Disconnect \/ Hang
PROVE  Plain
<1>1. CASE Finalize
  <2>1. Stays /\ Types /\ S \in Streams /\ Arg \in 0..9
    BY <1>1, "Finalize" \in Ops, Begins DEF Finalize, Ops
  <2>2. Types'
    BY <1>1, <2>1 DEF Finalize, Types
  <2>3. Same
    BY <1>1, <2>1 DEF Finalize, Same, Core
  <2>4. \E calls \in Seq(Good) : Then(calls)
    BY <1>1, <2>1, GoodConcat, GoodRuns
       DEF Finalize
  <2> QED BY <2>1, <2>2, <2>3, <2>4 DEF Plain
<1>2. CASE FinalizeOutput
  <2>1. Stays /\ Types /\ S \in Streams /\ Arg \in 0..9
    BY <1>2, "FinalizeOutput" \in Ops, Begins DEF FinalizeOutput, Ops
  <2>2. tx' \in [Streams -> TxType]
    <3> DEFINE f == [tx EXCEPT ![S].finOut = TRUE]
               g == [f EXCEPT ![S].pending = @ \/ (~tx[S].finOut /\ ~tx[S].pipeline)]
               place == IF ~tx[S].finOut /\ tx[S].pipeline /\ g[S].end = "none" THEN "queued" ELSE g[S].end
    <3>1. f \in [Streams -> TxType]
      BY <2>1, TxSet DEF Types
    <3>2. g \in [Streams -> TxType]
      <4> HIDE DEF f
      <4> QED BY <2>1, <3>1, TxSet
    <3>3. tx' = [g EXCEPT ![S].end = place]
      BY <1>2 DEF FinalizeOutput
    <3>4. place \in Places
      <4> HIDE DEF g
      <4> QED BY <2>1, <3>2, TxPlace DEF Places
    <3> HIDE DEF g, place
    <3> QED BY <2>1, <3>2, <3>3, <3>4, TxPlace
  <2>3. Types'
    BY <1>2, <2>1, <2>2 DEF FinalizeOutput, Types
  <2>4. Same
    BY <1>2, <2>1 DEF FinalizeOutput, Same, Core
  <2>5. \E calls \in Seq(Good) : Then(calls)
    BY <1>2, <2>1, GoodNone, GoodRuns
       DEF FinalizeOutput, When
  <2> QED BY <2>1, <2>3, <2>4, <2>5 DEF Plain
<1>3. CASE FinalizeInput
  <2>1. Stays /\ Types /\ S \in Streams /\ Arg \in 0..9
    BY <1>3, "FinalizeInput" \in Ops, Begins DEF FinalizeInput, Ops
  <2>2. rx' \in [Streams -> RxType]
    BY <1>3, <2>1, RxSet DEF FinalizeInput, Types
  <2>3. tx' \in [Streams -> TxType]
    BY <1>3, <2>1, TxSet, TxPlace DEF FinalizeInput, Types, Places
  <2>4. Types'
    BY <1>3, <2>1, <2>2, <2>3 DEF FinalizeInput, Types
  <2>5. Same
    BY <1>3, <2>1 DEF FinalizeInput, Same, Core
  <2>6. \E calls \in Seq(Good) : Then(calls)
    BY <1>3, <2>1, GoodConcat, GoodNone, GoodRuns, GoodSets
       DEF FinalizeInput, When
  <2> QED BY <2>1, <2>4, <2>5, <2>6 DEF Plain
<1>4. CASE CheckFinalized
  <2>1. Stays /\ Types /\ S \in Streams /\ Arg \in 0..9
    BY <1>4, "CheckFinalized" \in Ops, Begins DEF CheckFinalized, Ops
  <2>2. Types'
    BY <1>4, <2>1 DEF CheckFinalized, Types
  <2>3. Same
    BY <1>4, <2>1 DEF CheckFinalized, Same, Core
  <2>4. \E calls \in Seq(Good) : Then(calls)
    <3>1. \A n \in {0, 1} : <<Call("SetFinalized", S, n)>> \in Seq(Good)
      BY <2>1, GoodCall DEF PlainOps, Ops
    <3>2. SetTo(S, Finalized) \o <<Call("SetFinalized", S, IF rx[S].errdoc THEN 1 ELSE 0)>> \in Seq(Good)
      BY <2>1, <3>1, GoodSets, GoodConcat
    <3> QED BY <1>4, <3>2, GoodNone DEF CheckFinalized, When
  <2> QED BY <2>1, <2>2, <2>3, <2>4 DEF Plain
<1>5. CASE SetFinalized
  <2>1. Stays /\ Types /\ S \in Streams /\ Arg \in 0..9
    BY <1>5, "SetFinalized" \in Ops, Begins DEF SetFinalized, Ops
  <2>2. tx' \in [Streams -> TxType]
    BY <1>5, <2>1, TxSet, TxPlace DEF SetFinalized, Types, Places
  <2>3. Types'
    BY <1>5, <2>1, <2>2 DEF SetFinalized, Types
  <2>4. Same
    BY <1>5, <2>1 DEF SetFinalized, Same, Core
  <2>5. \E calls \in Seq(Good) : Then(calls)
    BY <1>5, <2>1, GoodNone
       DEF SetFinalized
  <2> QED BY <2>1, <2>3, <2>4, <2>5 DEF Plain
<1>6. CASE FinalizeConnector
  <2>1. Stays /\ Types /\ S \in Streams /\ Arg \in 0..9
    BY <1>6, "FinalizeConnector" \in Ops, Begins DEF FinalizeConnector, Ops
  <2>2. tx' \in [Streams -> TxType]
    BY <1>6, <2>1, TxSet, TxPlace DEF FinalizeConnector, Types, Places
  <2>3. Types'
    BY <1>6, <2>1, <2>2 DEF FinalizeConnector, Types
  <2>4. Same
    BY <1>6, <2>1 DEF FinalizeConnector, Same, Core
  <2>5. \E calls \in Seq(Good) : Then(calls)
    BY <1>6, <2>1, GoodRuns
       DEF FinalizeConnector
  <2> QED BY <2>1, <2>3, <2>4, <2>5 DEF Plain
<1>7. CASE Disconnect
  <2>1. Stays /\ Types /\ S \in Streams /\ Arg \in 0..9
    BY <1>7, "Disconnect" \in Ops, Begins DEF Disconnect, Ops
  <2>2. stream' \in [Streams -> StreamType]
    BY <1>7, <2>1, StreamSet, StreamValue, KeepLess DEF Disconnect, Types, H2States
  <2>3. tx' \in [Streams -> TxType]
    BY <1>7, <2>1, TxSet, TxPlace DEF Disconnect, Types, Places
  <2>4. Types'
    BY <1>7, <2>1, <2>2, <2>3 DEF Disconnect, Types
  <2>5. Same
    BY <1>7, <2>1, CoreSet, CoreSame, StreamSet, StreamValue DEF Disconnect, Same, Types, H2States
  <2>6. \E calls \in Seq(Good) : Then(calls)
    BY <1>7, <2>1, GoodConcat, GoodNone, GoodRuns
       DEF Disconnect, When
  <2> QED BY <2>1, <2>4, <2>5, <2>6 DEF Plain
<1>8. CASE Hang
  <2>1. Stays /\ Types /\ S \in Streams /\ Arg \in 0..9
    BY <1>8, "Hang" \in Ops, Begins DEF Hang, Ops
  <2>2. net' \in NetType
    BY <1>8, <2>1, NetSet DEF Hang, Types
  <2>3. Types'
    BY <1>8, <2>1, <2>2 DEF Hang, Types
  <2>4. Same
    BY <1>8, <2>1 DEF Hang, Same, Core, Types, NetType
  <2>5. \E calls \in Seq(Good) : Then(calls)
    BY <1>8, <2>1, GoodNone
       DEF Hang
  <2> QED BY <2>1, <2>3, <2>4, <2>5 DEF Plain
<1> QED BY <1>1, <1>2, <1>3, <1>4, <1>5, <1>6, <1>7, <1>8

\* The steps of pipeline.c
LEMMA HandlerPlain == ASSUME IInv, Route \/ Open \/ Revert \/ StartHandler \/ Pending \/ ReadyHandler
PROVE  Plain
<1>1. CASE Route
  <2>1. Stays /\ Types /\ S \in Streams /\ Arg \in 0..9
    BY <1>1, "Route" \in Ops, Begins DEF Route, Ops
  <2>2. rx' \in [Streams -> RxType]
    <3>1. rx' = rx \/ rx' = [rx EXCEPT ![S].routed = TRUE]
      BY <1>1, Zenon DEF Route
    <3>2. CASE rx' = rx
      BY <2>1, <3>2 DEF Types
    <3>3. CASE rx' = [rx EXCEPT ![S].routed = TRUE]
      BY <2>1, <3>3, RxSet DEF Types
    <3> QED BY <3>1, <3>2, <3>3
  <2>3. tx' \in [Streams -> TxType]
    <3>1. \/ tx' = tx
          \/ tx' = [tx EXCEPT ![S].handler = "pass"]
          \/ \E handler \in {"file", "cgi", "refuse"} :
               tx' = [tx EXCEPT ![S].handler = IF tx[S].finalized \/ tx[S].pending THEN "pass" ELSE handler]
      BY <1>1, Zenon DEF Route
    <3>2. CASE tx' = tx
      BY <2>1, <3>2 DEF Types
    <3>3. CASE tx' = [tx EXCEPT ![S].handler = "pass"]
      BY <2>1, <3>3, TxPlace DEF Types
    <3>4. ASSUME NEW handler \in {"file", "cgi", "refuse"},
                 tx' = [tx EXCEPT ![S].handler = IF tx[S].finalized \/ tx[S].pending THEN "pass" ELSE handler]
          PROVE  tx' \in [Streams -> TxType]
      BY <2>1, <3>4, TxPlace DEF Types
    <3> QED BY <3>1, <3>2, <3>3, <3>4
  <2>4. faults' \in Nat
    BY <1>1, <2>1, FaultType DEF Route, Types
  <2>5. Types'
    BY <1>1, <2>1, <2>2, <2>3, <2>4 DEF Route, Types
  <2>6. Same
    BY <1>1, <2>1 DEF Route, Same, Core
  <2>7. \E calls \in Seq(Good) : Then(calls)
    BY <1>1, <2>1, GoodConcat, GoodNone, GoodRuns, GoodErrors
       DEF Route, When
  <2> QED BY <2>1, <2>5, <2>6, <2>7 DEF Plain
<1>2. CASE Open
  <2>1. Stays /\ Types /\ S \in Streams /\ Arg \in 0..9
    BY <1>2, "Open" \in Ops, Begins DEF Open, Ops
  <2>2. tx' \in [Streams -> TxType]
    <3> DEFINE f == [tx EXCEPT ![S].pipeline = TRUE]
    <3>1. f \in [Streams -> TxType]
      BY <2>1, TxSet DEF Types
    <3>2. PICK ok \in BOOLEAN :
            tx' = [f EXCEPT ![S].opened = (tx[S].handler = "file" \/ (tx[S].handler = "cgi" /\ ok))]
      BY <1>2 DEF Open
    <3> HIDE DEF f
    <3> QED BY <2>1, <3>1, <3>2, TxSet
  <2>3. faults' \in Nat
    BY <1>2, <2>1, FaultType DEF Open, Types
  <2>4. Types'
    BY <1>2, <2>1, <2>2, <2>3 DEF Open, Types
  <2>5. Same
    BY <1>2, <2>1 DEF Open, Same, Core
  <2>6. \E calls \in Seq(Good) : Then(calls)
    BY <1>2, <2>1, GoodConcat, GoodNone, GoodRuns, GoodErrors
       DEF Open, When
  <2> QED BY <2>1, <2>4, <2>5, <2>6 DEF Plain
<1>3. CASE Revert
  <2>1. Stays /\ Types /\ S \in Streams /\ Arg \in 0..9
    BY <1>3, "Revert" \in Ops, Begins DEF Revert, Ops
  <2>2. tx' \in [Streams -> TxType]
    BY SMTT(30), ZenonT(60), <1>3, <2>1, TxSet, TxPlace DEF Revert, Types, Places
  <2>3. Types'
    BY <1>3, <2>1, <2>2 DEF Revert, Types
  <2>4. Same
    BY <1>3, <2>1 DEF Revert, Same, Core
  <2>5. \E calls \in Seq(Good) : Then(calls)
    BY <1>3, <2>1, GoodNone
       DEF Revert
  <2> QED BY <2>1, <2>3, <2>4, <2>5 DEF Plain
<1>4. CASE StartHandler
  <2>1. Stays /\ Types /\ S \in Streams /\ Arg \in 0..9
    BY <1>4, "StartHandler" \in Ops, Begins DEF StartHandler, Ops
  <2>2. tx' \in [Streams -> TxType]
    <3> DEFINE f == [tx EXCEPT ![S].started = TRUE]
    <3>1. f \in [Streams -> TxType]
      BY <2>1, TxSet DEF Types
    <3>2. \/ tx' = tx \/ tx' = f
          \/ \E body \in BOOLEAN : tx' = [f EXCEPT ![S].file = body]
          \/ \E ok \in BOOLEAN : tx' = [f EXCEPT ![S].working = ok]
      BY <1>4, Zenon DEF StartHandler
    <3> HIDE DEF f
    <3>3. CASE tx' = tx
      BY <2>1, <3>3 DEF Types
    <3>4. CASE tx' = f
      BY <3>1, <3>4
    <3>5. ASSUME NEW body \in BOOLEAN, tx' = [f EXCEPT ![S].file = body]
          PROVE  tx' \in [Streams -> TxType]
      BY <2>1, <3>1, <3>5, TxSet
    <3>6. ASSUME NEW ok \in BOOLEAN, tx' = [f EXCEPT ![S].working = ok]
          PROVE  tx' \in [Streams -> TxType]
      BY <2>1, <3>1, <3>6, TxSet
    <3> QED BY <3>2, <3>3, <3>4, <3>5, <3>6
  <2>3. faults' \in Nat
    BY <1>4, <2>1, FaultType DEF StartHandler, Types
  <2>4. Types'
    BY <1>4, <2>1, <2>2, <2>3 DEF StartHandler, Types
  <2>5. Same
    BY <1>4, <2>1 DEF StartHandler, Same, Core
  <2>6. \E calls \in Seq(Good) : Then(calls)
    BY <1>4, <2>1, GoodConcat, GoodNone, GoodRuns, GoodErrors
       DEF StartHandler, When
  <2> QED BY <2>1, <2>4, <2>5, <2>6 DEF Plain
<1>5. CASE Pending
  <2>1. Stays /\ Types /\ S \in Streams /\ Arg \in 0..9
    BY <1>5, "Pending" \in Ops, Begins DEF Pending, Ops
  <2>2. tx' \in [Streams -> TxType]
    BY <1>5, <2>1, TxSet, TxPlace DEF Pending, Types, Places
  <2>3. Types'
    BY <1>5, <2>1, <2>2 DEF Pending, Types
  <2>4. Same
    BY <1>5, <2>1 DEF Pending, Same, Core
  <2>5. \E calls \in Seq(Good) : Then(calls)
    BY <1>5, <2>1, GoodNone, GoodRuns
       DEF Pending, When
  <2> QED BY <2>1, <2>3, <2>4, <2>5 DEF Plain
<1>6. CASE ReadyHandler
  <2>1. Stays /\ Types /\ S \in Streams /\ Arg \in 0..9
    BY <1>6, "ReadyHandler" \in Ops, Begins DEF ReadyHandler, Ops
  <2>2. tx' \in [Streams -> TxType]
    BY <1>6, <2>1, TxSet, TxPlace DEF ReadyHandler, Types, Places
  <2>3. Types'
    BY <1>6, <2>1, <2>2 DEF ReadyHandler, Types
  <2>4. Same
    BY <1>6, <2>1 DEF ReadyHandler, Same, Core
  <2>5. \E calls \in Seq(Good) : Then(calls)
    BY <1>6, <2>1, GoodConcat, GoodNone, GoodRuns, GoodErrors
       DEF ReadyHandler, When
  <2> QED BY <2>1, <2>3, <2>4, <2>5 DEF Plain
<1> QED BY <1>1, <1>2, <1>3, <1>4, <1>5, <1>6

\* The steps of the queues
LEMMA QueuePlain == ASSUME IInv, Service \/ PumpIn \/ PumpFile \/ Filed \/ PumpOut \/ PumpFilter \/ SendReset \/ Send \/ Free
PROVE  Plain
<1>1. CASE Service
  <2>1. Stays /\ Types /\ S \in Streams /\ Arg \in 0..9
    BY <1>1, "Service" \in Ops, Begins DEF Service, Ops
  <2>2. Types'
    BY <1>1, <2>1 DEF Service, Types
  <2>3. Same
    BY <1>1, <2>1 DEF Service, Same, Core
  <2>4. \E calls \in Seq(Good) : Then(calls)
    <3>1. CASE Then(<<>>)
      BY <3>1, GoodNone
    <3>2. CASE Arg = 0 /\ \E work \in Work : todo' = <<work>> \o todo
      <4>1. PICK work \in Work : todo' = <<work>> \o todo
        BY <3>2
      <4>2. work \in Good
        BY <4>1, GoodCall DEF Work, PlainOps, Ops
      <4>3. Head(todo) \in Good
        <5>1. Head(todo) \in Calls
          BY <2>1, TopType DEF Stays, IInv
        <5>2. Head(todo).op = "Service"
          BY <1>1 DEF Service, Do
        <5> QED BY <5>1, <5>2 DEF Good, PlainOps, Ops
      <4>4. todo' = <<work, Head(todo)>> \o Tail(todo)
        <5>1. todo \in Seq(Calls) /\ todo # <<>>
          BY <2>1 DEF IInv, TypeOK, Stays
        <5>2. work \in Calls /\ Good \subseteq Calls
          BY <4>2 DEF Good
        <5> QED BY <4>1, <5>1, <5>2, PushTwo
      <4> QED BY <4>2, <4>3, <4>4, GoodTwo DEF Then
    <3>3. CASE Then(ForAll("PumpIn") \o ForAll("PumpFile") \o [i \in Streams |-> Call("PumpOut", i, 1)])
      BY <3>3, GoodForAlls, GoodPumps, GoodConcat
    <3> QED BY <1>1, <3>1, <3>2, <3>3, Zenon DEF Service
  <2> QED BY <2>1, <2>2, <2>3, <2>4 DEF Plain
<1>2. CASE PumpIn
  <2>1. Stays /\ Types /\ S \in Streams /\ Arg \in 0..9
    BY <1>2, "PumpIn" \in Ops, Begins DEF PumpIn, Ops
  <2>2. rx' \in [Streams -> RxType]
    BY <1>2, <2>1, RxSet DEF PumpIn, Types
  <2>3. Types'
    BY <1>2, <2>1, <2>2 DEF PumpIn, Types
  <2>4. Same
    BY <1>2, <2>1 DEF PumpIn, Same, Core
  <2>5. \E calls \in Seq(Good) : Then(calls)
    BY <1>2, <2>1, GoodNone, GoodRuns
       DEF PumpIn, When
  <2> QED BY <2>1, <2>3, <2>4, <2>5 DEF Plain
<1>3. CASE PumpFile
  <2>1. Stays /\ Types /\ S \in Streams /\ Arg \in 0..9
    BY <1>3, "PumpFile" \in Ops, Begins DEF PumpFile, Ops
  <2>2. tx' \in [Streams -> TxType]
    <3> DEFINE f == [tx EXCEPT ![S].file = FALSE]
    <3>1. f \in [Streams -> TxType]
      BY <2>1, TxSet DEF Types
    <3>2. PICK ok \in BOOLEAN :
            tx' = [f EXCEPT ![S].end = IF (tx[S].file /\ stream[S].state < Complete) /\ ok /\ ~tx[S].finOut
                                          /\ tx[S].end = "none"
                                       THEN "queued" ELSE tx[S].end]
      BY <1>3, Zenon DEF PumpFile
    <3>3. tx[S].end \in Places /\ "queued" \in Places
      BY <2>1, TxPlace DEF Types, Places
    <3>4. (IF (tx[S].file /\ stream[S].state < Complete) /\ ok /\ ~tx[S].finOut /\ tx[S].end = "none"
           THEN "queued" ELSE tx[S].end) \in Places
      BY <3>3
    <3> HIDE DEF f
    <3> QED BY <2>1, <3>1, <3>2, <3>4, TxPlace
  <2>3. faults' \in Nat
    BY <1>3, <2>1, FaultType DEF PumpFile, Types
  <2>4. Types'
    BY <1>3, <2>1, <2>2, <2>3 DEF PumpFile, Types
  <2>5. Same
    BY <1>3, <2>1 DEF PumpFile, Same, Core
  <2>6. \E calls \in Seq(Good) : Then(calls)
    BY <1>3, <2>1, GoodConcat, GoodNone, GoodRuns, GoodErrors
       DEF PumpFile, When
  <2> QED BY <2>1, <2>4, <2>5, <2>6 DEF Plain
<1>4. CASE Filed
  <2>1. Stays /\ Types /\ S \in Streams /\ Arg \in 0..9
    BY <1>4, "Filed" \in Ops, Begins DEF Filed, Ops
  <2>2. Types'
    BY <1>4, <2>1 DEF Filed, Types
  <2>3. Same
    BY <1>4, <2>1 DEF Filed, Same, Core
  <2>4. \E calls \in Seq(Good) : Then(calls)
    BY <1>4, <2>1, GoodNone, GoodRuns
       DEF Filed, When
  <2> QED BY <2>1, <2>2, <2>3, <2>4 DEF Plain
<1>5. CASE PumpOut
  <2>1. Stays /\ Types /\ S \in Streams /\ Arg \in 0..9
    BY <1>5, "PumpOut" \in Ops, Begins DEF PumpOut, Ops
  <2>2. stream' \in [Streams -> StreamType]
    <3>1. stream' = stream \/ stream' = Spend(S)
      BY <1>5, Zenon DEF PumpOut
    <3>2. stream \in [Streams -> StreamType] /\ Spend(S) \in [Streams -> StreamType]
      BY <2>1, SpendType DEF Types
    <3> QED BY <3>1, <3>2
  <2>3. tx' \in [Streams -> TxType]
    <3> DEFINE f == [tx EXCEPT ![S].headers = TRUE]
    <3>1. f \in [Streams -> TxType]
      BY <2>1, TxSet DEF Types
    <3>2. \/ tx' = tx
          \/ tx' = [f EXCEPT ![S].end = IF Http1 THEN "socket" ELSE "filter"]
          \/ tx' = [f EXCEPT ![S].stale = "socket"]
      BY <1>5, Zenon DEF PumpOut
    <3> HIDE DEF f
    <3>3. CASE tx' = tx
      BY <2>1, <3>3 DEF Types
    <3>4. CASE tx' = [f EXCEPT ![S].end = IF Http1 THEN "socket" ELSE "filter"]
      BY <2>1, <3>1, <3>4, TxPlace DEF Places
    <3>5. CASE tx' = [f EXCEPT ![S].stale = "socket"]
      BY <2>1, <3>1, <3>5, TxPlace
    <3> QED BY <3>2, <3>3, <3>4, <3>5
  <2>4. Types'
    BY <1>5, <2>1, <2>2, <2>3 DEF PumpOut, Types
  <2>5. Same
    <3>1. stream' = stream \/ stream' = Spend(S)
      BY <1>5, Zenon DEF PumpOut
    <3>2. Core(stream, stream) /\ Core(Spend(S), stream)
      BY <2>1, SpendType DEF Core
    <3>3. net' = net /\ active' = active
      BY <1>5 DEF PumpOut
    <3> QED BY <3>1, <3>2, <3>3 DEF Same
  <2>6. \E calls \in Seq(Good) : Then(calls)
    BY <1>5, <2>1, GoodNone, GoodRuns
       DEF PumpOut, When
  <2> QED BY <2>1, <2>4, <2>5, <2>6 DEF Plain
<1>6. CASE PumpFilter
  <2>1. Stays /\ Types /\ S \in Streams /\ Arg \in 0..9
    BY <1>6, "PumpFilter" \in Ops, Begins DEF PumpFilter, Ops
  <2>2. net' \in NetType
    BY <1>6, <2>1, NetSet DEF PumpFilter, Types
  <2>3. stream' \in [Streams -> StreamType]
    <3>1. \/ stream' = stream \/ stream' = [stream EXCEPT ![S].h2 = "error"]
          \/ stream' = [stream EXCEPT ![S].h2 = IF @ = "remote" THEN "closed" ELSE "local"]
      BY <1>6, Zenon DEF PumpFilter
    <3>2. CASE stream' = stream
      BY <2>1, <3>2 DEF Types
    <3>3. CASE stream' = [stream EXCEPT ![S].h2 = "error"]
      BY <2>1, <3>3, StreamValue DEF Types, H2States
    <3>4. CASE stream' = [stream EXCEPT ![S].h2 = IF @ = "remote" THEN "closed" ELSE "local"]
      BY <2>1, <3>4, StreamValue DEF Types, H2States
    <3> QED BY <3>1, <3>2, <3>3, <3>4
  <2>4. tx' \in [Streams -> TxType]
    <3>1. tx' = tx \/ tx' = [tx EXCEPT ![S].end = "dropped"] \/ tx' = [tx EXCEPT ![S].end = "socket"]
      BY <1>6, Zenon DEF PumpFilter
    <3>2. CASE tx' = tx
      BY <2>1, <3>2 DEF Types
    <3>3. CASE tx' = [tx EXCEPT ![S].end = "dropped"]
      BY <2>1, <3>3, TxPlace DEF Types, Places
    <3>4. CASE tx' = [tx EXCEPT ![S].end = "socket"]
      BY <2>1, <3>4, TxPlace DEF Types, Places
    <3> QED BY <3>1, <3>2, <3>3, <3>4
  <2>5. faults' \in Nat
    BY <1>6, <2>1, FaultType DEF PumpFilter, Types
  <2>6. Types'
    BY <1>6, <2>1, <2>2, <2>3, <2>4, <2>5 DEF PumpFilter, Types
  <2>7. Same
    <3>1. \/ stream' = stream \/ stream' = [stream EXCEPT ![S].h2 = "error"]
          \/ stream' = [stream EXCEPT ![S].h2 = IF @ = "remote" THEN "closed" ELSE "local"]
      BY <1>6, Zenon DEF PumpFilter
    <3>2. ASSUME stream' = stream PROVE Core(stream', stream)
      BY <3>2 DEF Core
    <3>3. ASSUME stream' = [stream EXCEPT ![S].h2 = "error"] PROVE Core(stream', stream)
      BY <2>1, <3>3, CoreSet DEF Types
    <3>4. ASSUME stream' = [stream EXCEPT ![S].h2 = IF @ = "remote" THEN "closed" ELSE "local"] PROVE Core(stream', stream)
      BY <2>1, <3>4, CoreSet DEF Types
    <3>5. Core(stream', stream)
      BY <3>1, <3>2, <3>3, <3>4
    <3>6. net' = net \/ net' = [net EXCEPT !.stalled = TRUE] \/ net' = [net EXCEPT !.goaway = TRUE]
      BY <1>6, Zenon DEF PumpFilter
    <3>7. net'.proto = net.proto /\ net'.destroyed = net.destroyed /\ active' = active
      BY <1>6, <2>1, <3>6 DEF PumpFilter, Types, NetType
    <3> QED BY <3>5, <3>7 DEF Same
  <2>8. \E calls \in Seq(Good) : Then(calls)
    BY <1>6, <2>1, GoodNone, GoodRuns
       DEF PumpFilter
  <2> QED BY <2>1, <2>6, <2>7, <2>8 DEF Plain
<1>7. CASE SendReset
  <2>1. Stays /\ Types /\ S \in Streams /\ Arg \in 0..9
    BY <1>7, "SendReset" \in Ops, Begins DEF SendReset, Ops
  <2>2. net' \in NetType
    BY <1>7, <2>1, NetSet DEF SendReset, Types
  <2>3. stream' \in [Streams -> StreamType]
    <3>1. stream' = stream \/ stream' = [stream EXCEPT ![S].h2 = "closed"]
      BY <1>7, Zenon DEF SendReset
    <3>2. CASE stream' = stream
      BY <2>1, <3>2 DEF Types
    <3>3. CASE stream' = [stream EXCEPT ![S].h2 = "closed"]
      BY <2>1, <3>3, StreamValue DEF Types, H2States
    <3> QED BY <3>1, <3>2, <3>3
  <2>4. Types'
    BY <1>7, <2>1, <2>2, <2>3 DEF SendReset, Types
  <2>5. Same
    <3>1. stream' = stream \/ stream' = [stream EXCEPT ![S].h2 = "closed"]
      BY <1>7, Zenon DEF SendReset
    <3>2. ASSUME stream' = stream PROVE Core(stream', stream)
      BY <3>2 DEF Core
    <3>3. ASSUME stream' = [stream EXCEPT ![S].h2 = "closed"] PROVE Core(stream', stream)
      BY <2>1, <3>3, CoreSet DEF Types
    <3>4. Core(stream', stream)
      BY <3>1, <3>2, <3>3
    <3>5. net' = net \/ net' = [net EXCEPT !.goaway = TRUE]
      BY <1>7, Zenon DEF SendReset
    <3>6. net'.proto = net.proto /\ net'.destroyed = net.destroyed /\ active' = active
      BY <1>7, <2>1, <3>5 DEF SendReset, Types, NetType
    <3> QED BY <3>4, <3>6 DEF Same
  <2>6. \E calls \in Seq(Good) : Then(calls)
    BY <1>7, <2>1, GoodNone, GoodErrors
       DEF SendReset
  <2> QED BY <2>1, <2>4, <2>5, <2>6 DEF Plain
<1>8. CASE Send
  <2>1. Stays /\ Types /\ S \in Streams /\ Arg \in 0..9
    BY <1>8, "Send" \in Ops, Begins DEF Send, Ops
  <2>2. net' \in NetType
    BY <1>8, <2>1, NetSet DEF Send, Types
  <2>3. tx' \in [Streams -> TxType]
    <3> DEFINE f == [tx EXCEPT ![S].stale = IF @ = "socket" THEN "none" ELSE @]
               g == [f EXCEPT ![S].end = IF tx[S].stale # "socket" THEN "sent" ELSE tx[S].end]
    <3>1. f \in [Streams -> TxType]
      BY <2>1, TxPlace DEF Types
    <3>2. g \in [Streams -> TxType]
      <4>1. (IF tx[S].stale # "socket" THEN "sent" ELSE tx[S].end) \in Places
        BY <2>1, TxPlace DEF Types, Places
      <4> HIDE DEF f
      <4> QED BY <2>1, <3>1, <4>1, TxPlace
    <3>3. tx' = tx \/ tx' = g
      BY <1>8, Zenon DEF Send
    <3> HIDE DEF g
    <3> QED BY <2>1, <3>2, <3>3 DEF Types
  <2>4. faults' \in Nat
    BY <1>8, <2>1, FaultType DEF Send, Types
  <2>5. Types'
    BY <1>8, <2>1, <2>2, <2>3, <2>4 DEF Send, Types
  <2>6. Same
    BY <1>8, <2>1 DEF Send, Same, Core, Types, NetType
  <2>7. \E calls \in Seq(Good) : Then(calls)
    BY <1>8, <2>1, GoodConcat, GoodNone, GoodRuns, GoodForAlls
       DEF Send, When
  <2> QED BY <2>1, <2>5, <2>6, <2>7 DEF Plain
<1>9. CASE Free
  <2>1. Stays /\ Types /\ S \in Streams /\ Arg \in 0..9
    BY <1>9, "Free" \in Ops, Begins DEF Free, Ops
  <2>2. tx' \in [Streams -> TxType]
    <3> DEFINE f == [tx EXCEPT ![S].end = IF @ = "socket" THEN "dropped" ELSE @]
    <3>1. f \in [Streams -> TxType]
      BY SMTT(30), ZenonT(60), <2>1, TxPlace DEF Types, Places
    <3>2. tx' = [f EXCEPT ![S].stale = IF @ = "socket" THEN "none" ELSE @]
      BY <1>9 DEF Free
    <3> HIDE DEF f
    <3> QED BY <2>1, <3>1, <3>2, TxPlace
  <2>3. Types'
    BY <1>9, <2>1, <2>2 DEF Free, Types
  <2>4. Same
    BY <1>9, <2>1 DEF Free, Same, Core
  <2>5. \E calls \in Seq(Good) : Then(calls)
    BY <1>9, <2>1, GoodNone, GoodRuns
       DEF Free, When
  <2> QED BY <2>1, <2>3, <2>4, <2>5 DEF Plain
<1> QED BY <1>1, <1>2, <1>3, <1>4, <1>5, <1>6, <1>7, <1>8, <1>9

\* The steps of netConnector.c and http1Filter.c
LEMMA NetPlain == ASSUME IInv, Idle \/ Enable \/ ParseLine \/ ParseFields
PROVE  Plain
<1>1. CASE Idle
  <2>1. Stays /\ Types /\ S \in Streams /\ Arg \in 0..9
    BY <1>1, "Idle" \in Ops, Begins DEF Idle, Ops
  <2>2. net' \in NetType
    BY <1>1, <2>1, NetSet DEF Idle, Types
  <2>3. Types'
    BY <1>1, <2>1, <2>2 DEF Idle, Types
  <2>4. Same
    BY <1>1, <2>1 DEF Idle, Same, Core, Types, NetType
  <2>5. \E calls \in Seq(Good) : Then(calls)
    BY <1>1, <2>1, GoodNone
       DEF Idle
  <2> QED BY <2>1, <2>3, <2>4, <2>5 DEF Plain
<1>2. CASE Enable
  <2>1. Stays /\ Types /\ S \in Streams /\ Arg \in 0..9
    BY <1>2, "Enable" \in Ops, Begins DEF Enable, Ops
  <2>2. net' \in NetType
    <3>1. Mask \in SUBSET {"read", "write"} /\ net.mask \in SUBSET {"read", "write"}
      BY <2>1 DEF Mask, Types, NetType
    <3> QED BY <1>2, <2>1, <3>1, NetMask DEF Enable, Types
  <2>3. Types'
    BY <1>2, <2>1, <2>2 DEF Enable, Types
  <2>4. Same
    BY <1>2, <2>1 DEF Enable, Same, Core, Types, NetType
  <2>5. \E calls \in Seq(Good) : Then(calls)
    BY <1>2, <2>1, GoodNone
       DEF Enable
  <2> QED BY <2>1, <2>3, <2>4, <2>5 DEF Plain
<1>3. CASE ParseLine
  <2>1. Stays /\ Types /\ S \in Streams /\ Arg \in 0..9
    BY <1>3, "Line" \in Ops, Begins DEF ParseLine, Ops
  <2>2. faults' \in Nat
    BY <1>3, <2>1, FaultType DEF ParseLine, Types
  <2>3. Types'
    BY <1>3, <2>1, <2>2 DEF ParseLine, Types
  <2>4. Same
    BY <1>3, <2>1 DEF ParseLine, Same, Core
  <2>5. \E calls \in Seq(Good) : Then(calls)
    BY <1>3, <2>1, GoodConcat, GoodNone, GoodRuns, GoodErrors, GoodSets
       DEF ParseLine
  <2> QED BY <2>1, <2>3, <2>4, <2>5 DEF Plain
<1>4. CASE ParseFields
  <2>1. Stays /\ Types /\ S \in Streams /\ Arg \in 0..9
    BY <1>4, "Fields" \in Ops, Begins DEF ParseFields, Ops
  <2>2. faults' \in Nat
    BY <1>4, <2>1, FaultType DEF ParseFields, Types
  <2>3. Types'
    BY <1>4, <2>1, <2>2 DEF ParseFields, Types
  <2>4. Same
    BY <1>4, <2>1 DEF ParseFields, Same, Core
  <2>5. \E calls \in Seq(Good) : Then(calls)
    BY <1>4, <2>1, GoodErrors, GoodSets
       DEF ParseFields
  <2> QED BY <2>1, <2>3, <2>4, <2>5 DEF Plain
<1> QED BY <1>1, <1>2, <1>3, <1>4
-----------------------------------------------------------------------------
(* What a step does to the stack *)

LEMMA Push == ASSUME NEW C, NEW q \in Seq(C), q # <<>>, NEW x \in Seq(C), NEW r, r = x \o Tail(q)
PROVE  /\ r \in Seq(C)
       /\ \A i \in 1..Len(x) : i \in 1..Len(r) /\ r[i] = x[i]
       /\ \A i \in 2..Len(q) : (i - 1 + Len(x)) \in 1..Len(r) /\ r[i - 1 + Len(x)] = q[i]
       /\ \A i \in 1..Len(r) : i > Len(x) => (i + 1 - Len(x)) \in 2..Len(q) /\ r[i] = q[i + 1 - Len(x)]
<1>1. Tail(q) \in Seq(C) /\ Len(Tail(q)) = Len(q) - 1 /\ Len(q) \in Nat /\ Len(q) > 0 /\ Len(x) \in Nat
  OBVIOUS
<1>2. \A i \in 1..(Len(q) - 1) : Tail(q)[i] = q[i + 1]
  OBVIOUS
<1>3. r \in Seq(C) /\ Len(r) = Len(x) + Len(q) - 1
  BY <1>1
<1>4. \A i \in 1..Len(r) : r[i] = IF i <= Len(x) THEN x[i] ELSE Tail(q)[i - Len(x)]
  BY <1>1, <1>3
<1>5. \A i \in 2..Len(q) : (i - 1 + Len(x)) \in 1..Len(r) /\ r[i - 1 + Len(x)] = q[i]
  <2> TAKE i \in 2..Len(q)
  <2>1. (i - 1 + Len(x)) \in 1..Len(r) /\ ~((i - 1 + Len(x)) <= Len(x)) /\ i - 1 + Len(x) - Len(x) = i - 1
    BY <1>1, <1>3
  <2>2. i - 1 \in 1..(Len(q) - 1) /\ i - 1 + 1 = i
    BY <1>1
  <2> QED BY <1>2, <1>4, <2>1, <2>2
<1>6. \A i \in 1..Len(r) : i > Len(x) => (i + 1 - Len(x)) \in 2..Len(q) /\ r[i] = q[i + 1 - Len(x)]
  <2> TAKE i \in 1..Len(r)
  <2> HAVE i > Len(x)
  <2>1. (i + 1 - Len(x)) \in 2..Len(q) /\ i - Len(x) \in 1..(Len(q) - 1) /\ i - Len(x) + 1 = i + 1 - Len(x)
    BY <1>1, <1>3
  <2>2. r[i] = Tail(q)[i - Len(x)]
    BY <1>1, <1>4
  <2> QED BY <1>2, <2>1, <2>2
<1> QED BY <1>1, <1>3, <1>4, <1>5, <1>6

\* What waits under the top of the stack still waits there.
LEMMA Under == ASSUME todo \in Seq(Calls), todo # <<>>, NEW x \in Seq(Calls), Then(x), NEW i \in 1..Len(todo)
PROVE  /\ \A s \in Streams : Ending(i, s) => \A k \in 0..(i - 1 + Len(x)) : Ending(k, s)'
       /\ Leaving(i) => \A k \in 0..(i - 1 + Len(x)) : Leaving(k)'
<1>1. \A j \in 2..Len(todo) : (j - 1 + Len(x)) \in 1..Len(todo') /\ todo'[j - 1 + Len(x)] = todo[j]
  BY Push DEF Then
<1>2. Len(todo) \in Nat /\ Len(x) \in Nat
  OBVIOUS
<1>3. ASSUME NEW s \in Streams, Ending(i, s), NEW k \in 0..(i - 1 + Len(x))
      PROVE  Ending(k, s)'
  <2>1. PICK j \in 1..Len(todo) : j > i /\ Ends(todo[j], s)
    BY <1>3 DEF Ending
  <2>2. j \in 2..Len(todo) /\ j - 1 + Len(x) > k
    BY <1>2, <2>1
  <2> QED BY <1>1, <2>1, <2>2 DEF Ending
<1>4. ASSUME Leaving(i), NEW k \in 0..(i - 1 + Len(x))
      PROVE  Leaving(k)'
  <2>1. PICK j \in 1..Len(todo) : j > i /\ todo[j].op = "Destroyed"
    BY <1>4 DEF Leaving
  <2>2. j \in 2..Len(todo) /\ j - 1 + Len(x) > k
    BY <1>2, <2>1
  <2> QED BY <1>1, <2>1, <2>2 DEF Leaving
<1> QED BY <1>3, <1>4

\* What is not the top is under it.
LEMMA NotTop == ASSUME todo \in Seq(Calls), todo # <<>>
PROVE  /\ 1 \in 1..Len(todo)
       /\ \A s \in Streams : Ending(0, s) /\ ~Ends(Head(todo), s) => Ending(1, s)
       /\ Leaving(0) /\ Head(todo).op # "Destroyed" => Leaving(1)
<1>1. Len(todo) \in Nat /\ 1 \in 1..Len(todo) /\ todo[1] = Head(todo)
  OBVIOUS
<1>2. ASSUME NEW s \in Streams, Ending(0, s), ~Ends(Head(todo), s)
      PROVE  Ending(1, s)
  <2>1. PICK j \in 1..Len(todo) : j > 0 /\ Ends(todo[j], s)
    BY <1>2 DEF Ending
  <2>2. j > 1
    BY <1>1, <1>2, <2>1
  <2> QED BY <2>1, <2>2 DEF Ending
<1>3. ASSUME Leaving(0), Head(todo).op # "Destroyed"
      PROVE  Leaving(1)
  <2>1. PICK j \in 1..Len(todo) : j > 0 /\ todo[j].op = "Destroyed"
    BY <1>3 DEF Leaving
  <2>2. j > 1
    BY <1>1, <1>3, <2>1
  <2> QED BY <2>1, <2>2 DEF Leaving
<1> QED BY <1>1, <1>2, <1>3

\* The calls under the top stay as they have to be.
LEMMA StackOK ==
  ASSUME IInv, todo # <<>>, NEW x \in Seq(Calls), Then(x), net'.proto = net.proto,
         \A s \in Streams : /\ stream[s].state >= First => stream'[s].state >= First
                            /\ ~stream[s].counted /\ stream[s].state >= First => ~stream'[s].counted
                            /\ Ending(0, s) => Ending(0, s)' \/ ~stream'[s].counted,
         \A i \in 1..Len(x) : CallOK(i)'
  PROVE  \A i \in 1..Len(todo') : CallOK(i)'
<1>1. todo \in Seq(Calls) /\ Len(todo) \in Nat /\ Len(x) \in Nat
  BY DEF IInv, TypeOK
<1> TAKE i \in 1..Len(todo')
<1>2. CASE i <= Len(x)
  BY <1>1, <1>2
<1>3. CASE i > Len(x)
  <2>0. (i + 1 - Len(x)) \in 2..Len(todo) /\ todo'[i] = todo[i + 1 - Len(x)]
    BY <1>1, <1>3, Push DEF Then
  <2>1. PICK j \in 2..Len(todo) : todo'[i] = todo[j] /\ i = j - 1 + Len(x)
    BY <1>1, <2>0
  <2>2. j \in 1..Len(todo) /\ j # 1 /\ i \in 0..(j - 1 + Len(x))
    BY <1>1, <2>1
  <2>3. PICK c \in Calls : c = todo[j]
    BY <1>1, <2>2
  <2>20. c.s \in Streams
    BY <2>3 DEF Calls
  <2>4. CallOK(j)
    BY <2>2 DEF IInv
  <2>5. Ending(j, c.s) => Ending(i, c.s)'
    BY <1>1, <2>2, <2>20, Under
  <2>6. Leaving(j) => Leaving(i)'
    BY <1>1, <2>2, Under
  <2>7. Http1' = Http1
    BY DEF Http1
  <2>8. todo'[i] = c
    BY <2>1, <2>3
  <2>9. c.op \in {"Headers", "Parsed", "Content", "Ready"} => stream'[c.s].state >= First
    BY <2>3, <2>4, <2>20 DEF CallOK
  <2>10. c.op # "Finalized" /\ ~(c.op = "SetState" /\ c.n = Complete)
    BY <2>2, <2>3, <2>4 DEF CallOK
  <2>11. /\ c.op = "Update" /\ c.n > First => stream'[c.s].state >= First
         /\ c.op = "Update" /\ c.n = Complete => ~stream'[c.s].counted \/ Ending(0, c.s)'
    <3>1. c.op = "Update" /\ c.n > First => stream[c.s].state >= First
      BY <2>3, <2>4 DEF CallOK
    <3>2. c.op = "Update" /\ c.n = Complete => ~stream[c.s].counted \/ Ending(0, c.s)
      BY <2>3, <2>4 DEF CallOK
    <3> QED BY <2>20, <3>1, <3>2 DEF Complete, First
  <2>12. c.op \in {"Abandon", "CloseStream"} => Ending(i, c.s)'
    BY <2>3, <2>4, <2>5 DEF CallOK
  <2>13. Http1 /\ c.op \in {"RemoveStream", "DestroyStream"} => Leaving(i)'
    BY <2>3, <2>4, <2>6 DEF CallOK
  <2>14. Http1 => c.op \notin {"FrameDone", "FrameClosed"}
    BY <2>3, <2>4 DEF CallOK
  <2> QED BY <2>7, <2>8, <2>9, <2>10, <2>11, <2>12, <2>13, <2>14 DEF CallOK
<1> QED BY <1>1, <1>2, <1>3

LEMMA CoreCounting == ASSUME IInv, Core(stream', stream), active' = active
PROVE  Counting'
<1>1. {s \in Streams : stream'[s].counted} = {s \in Streams : stream[s].counted}
  BY DEF Core
<1> QED BY <1>1 DEF IInv, Counting

\* A step that leaves the fields of the streams alone that the invariant speaks of
LEMMA SameKeeps ==
  ASSUME IInv, Types', Same, todo # <<>>, NEW x \in Seq(Calls), Then(x),
         \A s \in Streams : Ending(0, s) => \/ Ending(0, s)' \/ stream[s].state = 0
                                            \/ stream[s].state = Complete /\ ~stream[s].counted,
         Leaving(0) => Leaving(0)' \/ net'.destroyed,
         \A i \in 1..Len(x) : CallOK(i)'
  PROVE  IInv'
<1>1. todo \in Seq(Calls) /\ active \in Nat
  BY DEF IInv, TypeOK
<1>2. TypeOK'
  <2>1. todo' \in Seq(Calls)
    BY <1>1, Push DEF Then
  <2> QED BY <1>1, <2>1 DEF TypeOK, Types, Same
<1>3. Counting'
  BY CoreCounting DEF Same
<1>4. \A s \in Streams : StreamOK(s)'
  <2> TAKE s \in Streams
  <2>1. StreamOK(s)
    BY DEF IInv
  <2>2. /\ stream'[s].state = stream[s].state /\ stream'[s].target = stream[s].target
        /\ stream'[s].counted = stream[s].counted /\ stream'[s].destroyed = stream[s].destroyed
        /\ Http1' = Http1 /\ (net.destroyed => net'.destroyed)
    BY DEF Same, Core, Http1
  <2> QED BY <2>1, <2>2 DEF StreamOK, First, Complete
<1>5. \A i \in 1..Len(todo') : CallOK(i)'
  <2>1. ASSUME NEW s \in Streams
        PROVE  /\ stream[s].state >= First => stream'[s].state >= First
               /\ ~stream[s].counted /\ stream[s].state >= First => ~stream'[s].counted
               /\ Ending(0, s) => Ending(0, s)' \/ ~stream'[s].counted
    BY DEF Same, Core, IInv, StreamOK, First
  <2>2. net'.proto = net.proto
    BY DEF Same
  <2> QED BY <2>1, <2>2, StackOK
<1> QED BY <1>2, <1>3, <1>4, <1>5 DEF IInv

\* Nothing is asked of a good call.
LEMMA GoodOK == ASSUME Core(stream', stream), NEW i, todo'[i] \in Good
PROVE  CallOK(i)'
<1> DEFINE c == todo'[i]
<1>1. c \in Calls /\ c.s \in Streams
  BY DEF Good, Calls
<1>2. c.op = "Update" => c.n # Complete /\ (c.n > First => stream'[c.s].state >= First)
  BY <1>1 DEF Good, Core, PlainOps, Complete
<1>3. c.op \notin {"Headers", "Parsed", "Content", "Ready", "Finalized", "Abandon", "CloseStream",
                   "RemoveStream", "DestroyStream", "FrameDone", "FrameClosed"}
      /\ ~(c.op = "SetState" /\ c.n = Complete)
  BY <1>1 DEF Good, PlainOps, Complete
<1> QED BY <1>2, <1>3 DEF CallOK

LEMMA PlainKeeps == ASSUME IInv, Plain
PROVE  IInv'
<1>1. PICK x \in Seq(Good) : Then(x)
  BY DEF Plain
<1>2. x \in Seq(Calls) /\ Types' /\ Same /\ todo # <<>> /\ todo \in Seq(Calls)
  <2>1. Good \subseteq Calls
    BY DEF Good
  <2> QED BY <1>1, <2>1 DEF Plain, Stays, IInv, TypeOK
<1>3. \A i \in 1..Len(x) : CallOK(i)'
  <2> TAKE i \in 1..Len(x)
  <2>1. todo'[i] = x[i]
    BY <1>1, <1>2, Push DEF Then
  <2>2. todo'[i] \in Good
    BY <1>1, <2>1
  <2> QED BY <1>2, <2>2, GoodOK DEF Same
<1>4. \A s \in Streams : Ending(0, s) => Ending(0, s)'
  <2> TAKE s \in Streams
  <2>1. ~Ends(Head(todo), s)
    BY DEF Plain, Stays, Ends
  <2>2. 0 \in 0..(1 - 1 + Len(x))
    BY <1>2
  <2> QED BY <1>1, <1>2, <2>1, <2>2, NotTop, Under
<1>5. Leaving(0) => Leaving(0)'
  <2>1. Head(todo).op # "Destroyed"
    BY DEF Plain, Stays
  <2>2. 0 \in 0..(1 - 1 + Len(x))
    BY <1>2
  <2> QED BY <1>1, <1>2, <2>1, <2>2, NotTop, Under
<1> QED BY <1>1, <1>2, <1>3, <1>4, <1>5, SameKeeps

-----------------------------------------------------------------------------
(* The steps that push calls of the connection's end *)

LEMMA ForAllType == ASSUME NEW op \in Ops
PROVE  ForAll(op) \in Seq(Calls) /\ Len(ForAll(op)) = N /\ \A i \in 1..N : ForAll(op)[i] = Call(op, i, 0)
<1>1. N \in Nat
  BY RequestAssumption
<1>2. \A s \in 1..N : Call(op, s, 0) \in Calls
  BY CallType DEF Streams
<1>3. ForAll(op) = [s \in 1..N |-> Call(op, s, 0)]
  BY DEF ForAll, Streams
<1> QED BY <1>1, <1>2, <1>3

LEMMA CallIs == ASSUME NEW op \in Ops, NEW s \in Streams, NEW n \in 0..9
PROVE  \E c \in Calls : c = Call(op, s, n) /\ c.op = op /\ c.s = s /\ c.n = n
<1>1. Call(op, s, n) \in Calls
  BY CallType
<1>2. Call(op, s, n).op = op /\ Call(op, s, n).s = s /\ Call(op, s, n).n = n
  BY DEF Call
<1> QED BY <1>1, <1>2

LEMMA OpsAre == /\ "Abandon" \in Ops /\ "DestroyStream" \in Ops /\ "FrameClosed" \in Ops /\ "SetState" \in Ops
                /\ "CloseStream" \in Ops /\ "RemoveStream" \in Ops /\ "DestroyNet" \in Ops /\ "Destroyed" \in Ops
                /\ "Update" \in Ops /\ "Finalized" \in Ops /\ "First" \in Ops /\ "Headers" \in Ops /\ "Parsed" \in Ops
                /\ "Content" \in Ops /\ "Ready" \in Ops /\ "FrameDone" \in Ops
BY DEF Ops

\* A call after some others
LEMMA Append1 == ASSUME NEW C, NEW f \in Seq(C), NEW d \in C
PROVE  /\ f \o <<d>> \in Seq(C) /\ Len(f \o <<d>>) = Len(f) + 1 /\ (f \o <<d>>)[Len(f) + 1] = d
       /\ \A i \in 1..Len(f) : (f \o <<d>>)[i] = f[i]
OBVIOUS

\* The top of the stack, and what it may rely on
LEMMA Top == ASSUME IInv, NEW op \in Ops, Do(op)
PROVE  /\ Types /\ todo # <<>> /\ todo \in Seq(Calls) /\ 1 \in 1..Len(todo)
       /\ S \in Streams /\ Arg \in 0..9 /\ Head(todo) \in Calls /\ Head(todo).op = op
       /\ todo[1] = Head(todo) /\ todo[1].s = S /\ todo[1].n = Arg /\ CallOK(1) /\ StreamOK(S)
<1>1. todo # <<>> /\ Head(todo).op = op
  BY DEF Do
<1>2. todo \in Seq(Calls) /\ Types
  BY DEF IInv, TypeOK, Types
<1>3. S \in Streams /\ Arg \in 0..9 /\ Head(todo) \in Calls
  BY <1>1, TopType DEF IInv
<1>4. 1 \in 1..Len(todo) /\ todo[1] = Head(todo) /\ CallOK(1)
  BY <1>1, TopOK
<1> QED BY <1>1, <1>2, <1>3, <1>4 DEF S, Arg, IInv

\* Ending and Leaving are kept by a step whose call is not the one that is waited for.
LEMMA KeepsEnding == ASSUME IInv, todo # <<>>, NEW x \in Seq(Calls), Then(x), NEW s \in Streams, ~Ends(Head(todo), s), Ending(0, s)
PROVE  Ending(0, s)'
<1>1. todo \in Seq(Calls) /\ 0 \in 0..(1 - 1 + Len(x))
  BY DEF IInv, TypeOK
<1>2. 1 \in 1..Len(todo) /\ Ending(1, s)
  BY <1>1, NotTop
<1> QED BY <1>1, <1>2, Under

LEMMA KeepsLeaving == ASSUME IInv, todo # <<>>, NEW x \in Seq(Calls), Then(x), Head(todo).op # "Destroyed", Leaving(0)
PROVE  Leaving(0)'
<1>1. todo \in Seq(Calls) /\ 0 \in 0..(1 - 1 + Len(x))
  BY DEF IInv, TypeOK
<1>2. 1 \in 1..Len(todo) /\ Leaving(1)
  BY <1>1, NotTop
<1> QED BY <1>1, <1>2, Under

LEMMA ServiceEndKeeps == ASSUME IInv, ServiceEnd
PROVE  IInv'
<1>1. Do("ServiceEnd") /\ "ServiceEnd" \in Ops /\ UNCHANGED <<net, stream, rx, tx, active, faults, seen>>
  BY DEF ServiceEnd, Ops
<1>2. /\ Types /\ todo # <<>> /\ todo \in Seq(Calls) /\ S \in Streams /\ Head(todo).op = "ServiceEnd"
  BY <1>1, Top
<1>3. Types' /\ Same
  BY <1>1, <1>2 DEF Types, Same, Core
<1>4. CASE Then(Run("Enable"))
  <2>1. Run("Enable") \in Seq(Good)
    BY <1>2, GoodRuns
  <2> QED BY <1>2, <1>3, <1>4, <2>1, PlainKeeps DEF Plain, Stays
<1>5. CASE Then(ForAll("CloseStream") \o Run("DestroyNet"))
  <2> DEFINE f == ForAll("CloseStream")
             x == f \o Run("DestroyNet")
  <2>1. f \in Seq(Calls) /\ Len(f) = N /\ N \in Nat /\ \A i \in 1..N : f[i] = Call("CloseStream", i, 0)
    BY "CloseStream" \in Ops, ForAllType, RequestAssumption DEF Ops
  <2>2. PICK d \in Calls : d = Call("DestroyNet", S, 0) /\ d.op = "DestroyNet"
    BY <1>2, OpsAre, CallIs
  <2> HIDE DEF f
  <2>3. /\ x \in Seq(Calls) /\ Len(x) = N + 1 /\ x[N + 1] = d
        /\ \A i \in 1..N : x[i] = Call("CloseStream", i, 0)
    <3>1. x = f \o <<d>>
      BY <2>2 DEF Run
    <3>2. /\ f \o <<d>> \in Seq(Calls) /\ Len(f \o <<d>>) = N + 1 /\ (f \o <<d>>)[N + 1] = d
          /\ \A i \in 1..N : (f \o <<d>>)[i] = f[i]
      BY <2>1, <2>2, Append1
    <3> HIDE DEF x
    <3> QED BY <2>1, <3>1, <3>2
  <2>4. Then(x)
    BY <1>5 DEF f
  <2> HIDE DEF x
  <2>5. \A i \in 1..Len(x) : i \in 1..Len(todo') /\ todo'[i] = x[i]
    BY <1>2, <2>3, <2>4, Push DEF Then
  <2>6. \A i \in 1..Len(x) : CallOK(i)'
    <3> TAKE i \in 1..Len(x)
    <3>1. CASE i = N + 1
      BY <2>2, <2>3, <2>5, <3>1 DEF CallOK
    <3>2. CASE i \in 1..N
      <4>1. N + 1 \in 1..Len(todo') /\ todo'[N + 1].op = "DestroyNet" /\ N + 1 > i
        BY <2>1, <2>2, <2>3, <2>5, <3>2
      <4>2. \A s \in Streams : Ending(i, s)'
        BY <4>1 DEF Ending, Ends
      <4>3. todo'[i] = Call("CloseStream", i, 0) /\ i \in Streams
        BY <2>3, <2>5, <3>2 DEF Streams
      <4> QED BY <4>2, <4>3 DEF CallOK, Call
    <3> QED BY <2>1, <2>3, <3>1, <3>2
  <2>7. \A s \in Streams : Ending(0, s) => Ending(0, s)'
    BY <1>2, <2>3, <2>4, KeepsEnding DEF Ends
  <2>8. Leaving(0) => Leaving(0)'
    BY <1>2, <2>3, <2>4, KeepsLeaving
  <2> QED BY <1>2, <1>3, <2>3, <2>4, <2>6, <2>7, <2>8, SameKeeps
<1> QED BY <1>4, <1>5 DEF ServiceEnd

LEMMA CloseStreamKeeps == ASSUME IInv, CloseStream
PROVE  IInv'
<1>1. Do("CloseStream") /\ "CloseStream" \in Ops /\ UNCHANGED <<net, stream, tx, active, faults, seen>>
  BY DEF CloseStream, Ops
<1>2. /\ Types /\ todo # <<>> /\ todo \in Seq(Calls) /\ 1 \in 1..Len(todo) /\ S \in Streams
      /\ Head(todo).op = "CloseStream" /\ todo[1].op = "CloseStream" /\ todo[1].s = S /\ CallOK(1)
  BY <1>1, Top
<1>3. Types' /\ Same
  <2>1. rx' \in [Streams -> RxType]
    BY <1>2, RxSet DEF CloseStream, Types
  <2> QED BY <1>1, <1>2, <2>1 DEF Types, Same, Core
<1>10. PICK a \in Calls : a = Call("Abandon", S, 0) /\ a.op = "Abandon" /\ a.s = S
  BY <1>2, OpsAre, CallIs
<1>4. PICK x : /\ Then(x) /\ x \in Seq(Calls)
               /\ \A i \in 1..Len(x) : x[i] \in Good \/ x[i] = a
  <2> DEFINE e == When(stream[S].state < Parsed \/ ~tx[S].finOut \/ ~tx[S].finIn, Error(S, Silent))
             y == When(Listed(S) /\ stream[S].state > Begin, e \o Run("Abandon"))
  <2>1. Then(y)
    BY DEF CloseStream
  <2>2. e \in Seq(Good)
    BY <1>2, GoodErrors, GoodNone DEF When
  <2>4. Good \subseteq Calls
    BY DEF Good
  <2> HIDE DEF e
  <2>5. e \in Seq(Calls) /\ \A i \in 1..Len(e) : e[i] \in Good
    BY <2>2, <2>4
  <2>6. e \o <<a>> \in Seq(Calls) /\ \A i \in 1..Len(e \o <<a>>) : (e \o <<a>>)[i] \in Good \/ (e \o <<a>>)[i] = a
    <3>1. /\ e \o <<a>> \in Seq(Calls) /\ Len(e \o <<a>>) = Len(e) + 1 /\ (e \o <<a>>)[Len(e) + 1] = a
          /\ \A i \in 1..Len(e) : (e \o <<a>>)[i] = e[i]
      BY <1>10, <2>5, Append1
    <3> QED BY <2>5, <3>1
  <2>7. y \in Seq(Calls) /\ \A i \in 1..Len(y) : y[i] \in Good \/ y[i] = a
    <3>1. ASSUME Listed(S), stream[S].state > Begin
          PROVE  y = e \o <<a>>
      BY <1>10, <3>1 DEF When, Run
    <3>2. ASSUME ~(Listed(S) /\ stream[S].state > Begin)
          PROVE  y = <<>>
      BY <3>2 DEF When
    <3>3. <<>> \in Seq(Calls) /\ Len(<<>>) = 0
      OBVIOUS
    <3> HIDE DEF y
    <3>4. CASE y = e \o <<a>>
      BY <2>6, <3>4
    <3>5. CASE y = <<>>
      BY <3>3, <3>5
    <3> QED BY <3>1, <3>2, <3>4, <3>5
  <2> HIDE DEF y
  <2> QED BY <2>1, <2>7
<1>5. \A i \in 1..Len(x) : i \in 1..Len(todo') /\ todo'[i] = x[i] /\ i \in 0..(1 - 1 + Len(x))
  BY <1>2, <1>4, Push DEF Then
<1>6. Ending(1, S)
  BY <1>2 DEF CallOK
<1>7. \A i \in 1..Len(x) : CallOK(i)'
  <2> TAKE i \in 1..Len(x)
  <2>1. CASE x[i] \in Good
    BY <1>3, <1>5, <2>1, GoodOK DEF Same
  <2>2. CASE x[i] = a
    <3>1. Ending(i, a.s)'
      BY <1>2, <1>4, <1>5, <1>6, <1>10, Under
    <3>2. todo'[i] = a
      BY <1>5, <2>2
    <3> QED BY <1>10, <3>1, <3>2 DEF CallOK
  <2> QED BY <1>4, <2>1, <2>2
<1>8. \A s \in Streams : Ending(0, s) => Ending(0, s)'
  BY <1>2, <1>4, KeepsEnding DEF Ends
<1>9. Leaving(0) => Leaving(0)'
  BY <1>2, <1>4, KeepsLeaving
<1> QED BY <1>2, <1>3, <1>4, <1>7, <1>8, <1>9, SameKeeps

LEMMA AbandonKeeps == ASSUME IInv, Abandon
PROVE  IInv'
<1>1. Do("Abandon") /\ "Abandon" \in Ops /\ UNCHANGED <<net, stream, rx, tx, active, faults, seen>>
  BY DEF Abandon, Ops
<1>2. /\ Types /\ todo # <<>> /\ todo \in Seq(Calls) /\ 1 \in 1..Len(todo) /\ S \in Streams
      /\ Head(todo).op = "Abandon" /\ todo[1].op = "Abandon" /\ todo[1].s = S /\ CallOK(1)
  BY <1>1, Top
<1>3. Types' /\ Same
  BY <1>1, <1>2 DEF Types, Same, Core
<1>4. CASE Then(<<>>)
  BY <1>2, <1>3, <1>4, GoodNone, PlainKeeps DEF Plain, Stays
<1>5. CASE stream[S].state \in (Begin + 1)..(Complete - 1) /\ Then(SetTo(S, Complete))
  <2>1. PICK c \in Calls : c = Call("SetState", S, Complete) /\ c.op = "SetState" /\ c.s = S /\ c.n = Complete
    BY <1>2, OpsAre, CallIs, Complete \in 0..9 DEF Complete
  <2> DEFINE x == <<c>>
  <2>2. Then(x)
    BY <1>5, <2>1 DEF SetTo
  <2>3. x \in Seq(Calls) /\ Len(x) = 1 /\ x[1] = c
    BY <2>1
  <2> HIDE DEF x
  <2>4. todo'[1] = c
    <3>1. todo' = x \o Tail(todo)
      BY <2>2 DEF Then
    <3>2. todo \in Seq(Calls) /\ todo # <<>> /\ x \in Seq(Calls)
      BY <1>2, <2>3
    <3>3. \A i \in 1..Len(x) : todo'[i] = x[i]
      BY <3>1, <3>2, Push
    <3> QED BY <2>3, <3>3
  <2>5. Ending(1, c.s)'
    <3>1. Ending(1, S)
      BY <1>2 DEF CallOK
    <3>2. 1 \in 0..(1 - 1 + Len(x))
      BY <2>3
    <3> QED BY <1>2, <2>1, <2>2, <2>3, <3>1, <3>2, Under
  <2>6. stream'[c.s].state > 0
    BY <1>1, <1>5, <2>1 DEF Begin, Complete
  <2>7. \A i \in 1..Len(x) : CallOK(i)'
    BY <2>1, <2>3, <2>4, <2>5, <2>6 DEF CallOK
  <2>8. \A s \in Streams : Ending(0, s) => Ending(0, s)'
    BY <1>2, <2>2, <2>3, KeepsEnding DEF Ends
  <2>9. Leaving(0) => Leaving(0)'
    BY <1>2, <2>2, <2>3, KeepsLeaving
  <2> QED BY <1>2, <1>3, <2>2, <2>3, <2>7, <2>8, <2>9, SameKeeps
<1> QED BY <1>4, <1>5 DEF Abandon, When

LEMMA DestroyNetKeeps == ASSUME IInv, DestroyNet
PROVE  IInv'
<1>1. Do("DestroyNet") /\ "DestroyNet" \in Ops /\ UNCHANGED <<net, stream, rx, tx, active, faults, seen>>
  BY DEF DestroyNet, Ops
<1>2. Types /\ todo # <<>> /\ todo \in Seq(Calls) /\ S \in Streams /\ Head(todo).op = "DestroyNet"
  BY <1>1, Top
<1>3. Types' /\ Same
  BY <1>1, <1>2 DEF Types, Same, Core
<1> DEFINE f == ForAll("RemoveStream")
           x == f \o Run("Destroyed")
<1>4. f \in Seq(Calls) /\ Len(f) = N /\ N \in Nat /\ \A i \in 1..N : f[i] = Call("RemoveStream", i, 0)
  BY "RemoveStream" \in Ops, ForAllType, RequestAssumption DEF Ops
<1>5. PICK d \in Calls : d = Call("Destroyed", S, 0) /\ d.op = "Destroyed"
  BY <1>2, OpsAre, CallIs
<1>6. Then(x)
  BY DEF DestroyNet
<1> HIDE DEF f
<1>7. /\ x \in Seq(Calls) /\ Len(x) = N + 1 /\ x[N + 1] = d
      /\ \A i \in 1..N : x[i] = Call("RemoveStream", i, 0)
  <2>1. x = f \o <<d>>
    BY <1>5 DEF Run
  <2>2. /\ f \o <<d>> \in Seq(Calls) /\ Len(f \o <<d>>) = N + 1 /\ (f \o <<d>>)[N + 1] = d
        /\ \A i \in 1..N : (f \o <<d>>)[i] = f[i]
    BY <1>4, <1>5, Append1
  <2> HIDE DEF x
  <2> QED BY <1>4, <2>1, <2>2
<1> HIDE DEF x
<1>8. \A i \in 1..Len(x) : i \in 1..Len(todo') /\ todo'[i] = x[i]
  BY <1>2, <1>6, <1>7, Push DEF Then
<1>9. \A i \in 1..Len(x) : CallOK(i)'
  <2> TAKE i \in 1..Len(x)
  <2>1. CASE i = N + 1
    BY <1>5, <1>7, <1>8, <2>1 DEF CallOK
  <2>2. CASE i \in 1..N
    <3>1. N + 1 \in 1..Len(todo') /\ todo'[N + 1].op = "Destroyed" /\ N + 1 > i
      BY <1>4, <1>5, <1>7, <1>8, <2>2
    <3>2. Leaving(i)'
      BY <3>1 DEF Leaving
    <3>3. todo'[i] = Call("RemoveStream", i, 0)
      BY <1>7, <1>8, <2>2
    <3> QED BY <3>2, <3>3 DEF CallOK, Call
  <2> QED BY <1>4, <1>7, <2>1, <2>2
<1>10. \A s \in Streams : Ending(0, s)'
  <2> TAKE s \in Streams
  <2>1. s \in 1..Len(todo') /\ s > 0 /\ todo'[s] = Call("RemoveStream", s, 0)
    BY <1>4, <1>7, <1>8 DEF Streams
  <2> QED BY <2>1 DEF Ending, Ends, Call
<1>11. Leaving(0) => Leaving(0)'
  BY <1>2, <1>6, <1>7, KeepsLeaving
<1> QED BY <1>2, <1>3, <1>6, <1>7, <1>9, <1>10, <1>11, SameKeeps

LEMMA RemoveStreamKeeps == ASSUME IInv, RemoveStream
PROVE  IInv'
<1>1. Do("RemoveStream") /\ "RemoveStream" \in Ops /\ UNCHANGED <<net, stream, rx, tx, active, faults, seen>>
  BY DEF RemoveStream, Ops
<1>2. /\ Types /\ todo # <<>> /\ todo \in Seq(Calls) /\ 1 \in 1..Len(todo) /\ S \in Streams /\ StreamOK(S)
      /\ Head(todo).op = "RemoveStream" /\ todo[1].op = "RemoveStream" /\ todo[1].s = S /\ Head(todo) = todo[1] /\ CallOK(1)
  BY <1>1, Top
<1>3. Types' /\ Same
  BY <1>1, <1>2 DEF Types, Same, Core
<1>4. \A x \in Seq(Calls) : Then(x) => \A s \in Streams : s # S /\ Ending(0, s) => Ending(0, s)'
  BY <1>2, KeepsEnding DEF Ends
<1>5. \A x \in Seq(Calls) : Then(x) /\ Leaving(0) => Leaving(0)'
  BY <1>2, KeepsLeaving
<1>6. CASE ~Listed(S) /\ Then(<<>>)
  <2>1. <<>> \in Seq(Calls) /\ \A i \in 1..Len(<<>>) : CallOK(i)'
    OBVIOUS
  <2>2. stream[S].state = 0 \/ (stream[S].state = Complete /\ ~stream[S].counted)
    <3>1. stream[S].state \in 0..9
      BY <1>2 DEF Types, StreamType
    <3>2. ~(stream[S].state > 0) \/ stream[S].destroyed
      BY <1>6 DEF Listed
    <3> QED BY <1>2, <3>1, <3>2 DEF StreamOK
  <2>3. \A s \in Streams : Ending(0, s) => \/ Ending(0, s)' \/ stream[s].state = 0
                                           \/ stream[s].state = Complete /\ ~stream[s].counted
    BY <1>4, <1>6, <2>1, <2>2
  <2> QED BY <1>2, <1>3, <1>5, <1>6, <2>1, <2>3, SameKeeps
<1>7. CASE Then(Run("Abandon") \o Run("DestroyStream"))
  <2>10. PICK a \in Calls : a = Call("Abandon", S, 0) /\ a.op = "Abandon" /\ a.s = S
    BY <1>2, OpsAre, CallIs
  <2>11. PICK d \in Calls : d = Call("DestroyStream", S, 0) /\ d.op = "DestroyStream" /\ d.s = S
    BY <1>2, OpsAre, CallIs
  <2>1. a.op = "Abandon" /\ a.s = S /\ d.op = "DestroyStream" /\ d.s = S
    BY <2>10, <2>11
  <2> DEFINE x == <<a>> \o <<d>>
  <2>2. Then(x)
    <3>1. Run("Abandon") = <<a>> /\ Run("DestroyStream") = <<d>>
      BY <2>10, <2>11 DEF Run
    <3> QED BY <1>7, <3>1
  <2>3. x \in Seq(Calls) /\ Len(x) = 2 /\ x[1] = a /\ x[2] = d
    <3>1. <<a>> \in Seq(Calls) /\ Len(<<a>>) = 1 /\ <<a>>[1] = a
      OBVIOUS
    <3> QED BY <3>1, Append1
  <2> HIDE DEF x
  <2>4. todo'[1] = a /\ todo'[2] = d /\ 2 \in 1..Len(todo')
    BY <1>2, <2>2, <2>3, Push DEF Then
  <2>5. Ending(1, a.s)' /\ Ending(0, a.s)'
    <3>1. Ends(d, a.s)
      BY <2>1 DEF Ends
    <3>2. 2 \in 1..Len(todo') /\ 2 > 1 /\ 2 > 0 /\ Ends(todo'[2], a.s)
      BY <2>4, <3>1
    <3> QED BY <3>2 DEF Ending
  <2>6. Http1 => Leaving(2)'
    <3>1. Http1 => Leaving(1)
      BY <1>2 DEF CallOK
    <3>2. 2 \in 0..(1 - 1 + Len(x))
      BY <2>3
    <3> QED BY <1>2, <2>2, <2>3, <3>1, <3>2, Under
  <2>7. \A i \in 1..Len(x) : CallOK(i)'
    <3>1. Http1' = Http1
      BY <1>1 DEF Http1
    <3>2. CallOK(1)'
      BY <2>1, <2>4, <2>5 DEF CallOK
    <3>3. CallOK(2)'
      BY <2>1, <2>4, <2>6, <3>1 DEF CallOK
    <3> QED BY <2>3, <3>2, <3>3
  <2>8. \A s \in Streams : Ending(0, s) => Ending(0, s)'
    BY <1>4, <2>1, <2>2, <2>3, <2>5
  <2> QED BY <1>2, <1>3, <1>5, <2>2, <2>3, <2>7, <2>8, SameKeeps
<1> QED BY <1>6, <1>7 DEF RemoveStream, When

LEMMA DestroyedKeeps == ASSUME IInv, Destroyed
PROVE  IInv'
<1>1. /\ Do("Destroyed") /\ "Destroyed" \in Ops /\ UNCHANGED <<stream, rx, tx, active, faults, seen>>
      /\ net' = [net EXCEPT !.destroyed = TRUE] /\ Then(<<>>)
  BY DEF Destroyed, Ops
<1>2. Types /\ todo # <<>> /\ todo \in Seq(Calls) /\ S \in Streams /\ Head(todo).op = "Destroyed"
  BY <1>1, Top
<1>3. net' \in NetType /\ net'.destroyed /\ net'.proto = net.proto
  <2>1. net' \in NetType
    BY <1>1, <1>2, NetSet DEF Types
  <2>2. net'.destroyed = TRUE /\ net'.proto = net.proto
    BY <1>1, <1>2 DEF Types, NetType
  <2> QED BY <2>1, <2>2
<1>4. Types' /\ Same
  BY <1>1, <1>2, <1>3 DEF Types, Same, Core
<1>5. <<>> \in Seq(Calls) /\ \A i \in 1..Len(<<>>) : CallOK(i)'
  OBVIOUS
<1>6. \A s \in Streams : Ending(0, s) => Ending(0, s)'
  BY <1>1, <1>2, <1>5, KeepsEnding DEF Ends
<1> QED BY <1>1, <1>2, <1>3, <1>4, <1>5, <1>6, SameKeeps

LEMMA FrameKeeps == ASSUME IInv, FrameDone \/ FrameClosed
PROVE  IInv'
<1> DEFINE Framed == Good \cup {c \in Calls : c.op \in {"FrameClosed", "DestroyStream"}}
<1>1. /\ Do("FrameDone") \/ Do("FrameClosed")
      /\ "FrameDone" \in Ops /\ "FrameClosed" \in Ops /\ UNCHANGED <<net, stream, rx, tx, active, faults, seen>>
  BY DEF FrameDone, FrameClosed, Ops
<1>2. /\ Types /\ todo # <<>> /\ todo \in Seq(Calls) /\ S \in Streams
      /\ Head(todo).op \in {"FrameDone", "FrameClosed"} /\ Head(todo) = todo[1] /\ CallOK(1)
  BY <1>1, Top
<1>3. Types' /\ Same /\ ~Http1 /\ ~Http1'
  BY <1>1, <1>2 DEF Types, Same, Core, Http1, CallOK
<1>4. PICK x \in Seq(Framed) : Then(x)
  <2>1. Run("SendReset") \in Seq(Framed) /\ <<>> \in Seq(Framed)
    BY <1>2, GoodRuns
  <2>2. Run("FrameClosed") \in Seq(Framed) /\ Run("DestroyStream") \in Seq(Framed)
    <3>1. Call("FrameClosed", S, 0) \in Framed /\ Call("DestroyStream", S, 0) \in Framed
      BY <1>2, OpsAre, CallIs
    <3> QED BY <3>1 DEF Run
  <2> HIDE DEF Framed
  <2>3. \A y \in Seq(Framed) : y \o Run("FrameClosed") \in Seq(Framed)
    BY <2>2
  <2> QED BY <2>1, <2>2, <2>3 DEF FrameDone, FrameClosed, When
<1>5. x \in Seq(Calls)
  <2>1. Framed \subseteq Calls
    BY DEF Good
  <2> QED BY <1>4, <2>1
<1>6. \A i \in 1..Len(x) : todo'[i] = x[i]
  BY <1>2, <1>4, <1>5, Push DEF Then
<1>7. \A i \in 1..Len(x) : CallOK(i)'
  <2> TAKE i \in 1..Len(x)
  <2>1. CASE x[i] \in Good
    BY <1>3, <1>6, <2>1, GoodOK DEF Same
  <2>2. CASE x[i] \in Calls /\ x[i].op \in {"FrameClosed", "DestroyStream"}
    BY <1>3, <1>6, <2>2 DEF CallOK
  <2> QED BY <1>4, <2>1, <2>2
<1>8. \A s \in Streams : Ending(0, s) => Ending(0, s)'
  BY <1>2, <1>4, <1>5, KeepsEnding DEF Ends
<1>9. Leaving(0) => Leaving(0)'
  BY <1>2, <1>4, <1>5, KeepsLeaving
<1> QED BY <1>2, <1>3, <1>4, <1>5, <1>7, <1>8, <1>9, SameKeeps

-----------------------------------------------------------------------------
(* The steps that change the state of a stream *)

\* f is what becomes of the streams when only s changes, and what it has then.
Changed(f, s, state, target, counted, destroyed) ==
  /\ f \in [Streams -> StreamType]
  /\ f[s].state = state /\ f[s].target = target /\ f[s].counted = counted /\ f[s].destroyed = destroyed
  /\ \A r \in Streams : r # s => /\ f[r].state = stream[r].state /\ f[r].target = stream[r].target
                                 /\ f[r].counted = stream[r].counted /\ f[r].destroyed = stream[r].destroyed

LEMMA ChangedNot == ASSUME Types, NEW s \in Streams
PROVE  Changed(stream, s, stream[s].state, stream[s].target, stream[s].counted, stream[s].destroyed)
BY DEF Types, Changed

LEMMA ChangedCore == ASSUME NEW s \in Streams, NEW f, NEW g \in [Streams -> StreamType], NEW state, NEW target, NEW counted,
                            NEW destroyed, Changed(f, s, state, target, counted, destroyed), Core(g, f)
PROVE  Changed(g, s, state, target, counted, destroyed)
BY DEF Changed, Core

LEMMA ChangedState == ASSUME NEW s \in Streams, NEW f, NEW state, NEW target, NEW counted,
                             NEW destroyed, Changed(f, s, state, target, counted, destroyed), NEW v \in 0..9
PROVE  Changed([f EXCEPT ![s].state = v], s, v, target, counted, destroyed)
<1>1. [f EXCEPT ![s].state = v] \in [Streams -> StreamType]
  BY StreamState DEF Changed
<1> QED BY <1>1 DEF Changed, StreamType

LEMMA ChangedTarget == ASSUME NEW s \in Streams, NEW f, NEW state, NEW target, NEW counted,
                              NEW destroyed, Changed(f, s, state, target, counted, destroyed), NEW v \in 0..9
PROVE  Changed([f EXCEPT ![s].target = v], s, state, v, counted, destroyed)
<1>1. [f EXCEPT ![s].target = v] \in [Streams -> StreamType]
  BY StreamState DEF Changed
<1> QED BY <1>1 DEF Changed, StreamType

LEMMA ChangedCounted == ASSUME NEW s \in Streams, NEW f, NEW state, NEW target, NEW counted,
                               NEW destroyed, Changed(f, s, state, target, counted, destroyed), NEW v \in BOOLEAN
PROVE  Changed([f EXCEPT ![s].counted = v], s, state, target, v, destroyed)
<1>1. [f EXCEPT ![s].counted = v] \in [Streams -> StreamType]
  BY StreamSet DEF Changed
<1> QED BY <1>1 DEF Changed, StreamType

LEMMA ChangedDestroyed == ASSUME NEW s \in Streams, NEW f, NEW state, NEW target, NEW counted,
                                 NEW destroyed, Changed(f, s, state, target, counted, destroyed), NEW v \in BOOLEAN
PROVE  Changed([f EXCEPT ![s].destroyed = v], s, state, target, counted, v)
<1>1. [f EXCEPT ![s].destroyed = v] \in [Streams -> StreamType]
  BY StreamSet DEF Changed
<1> QED BY <1>1 DEF Changed, StreamType

\* The streams that count are so many.
Counted == {s \in Streams : stream[s].counted}

LEMMA CountedFinite == IsFiniteSet(Counted) /\ Cardinality(Counted) \in Nat
<1>1. IsFiniteSet(1..N)
  BY RequestAssumption, FS_Interval
<1>2. Counted \subseteq 1..N
  BY DEF Counted, Streams
<1> QED BY <1>1, <1>2, FS_Subset, FS_CardinalityType

LEMMA CountUp == ASSUME Counting, NEW s \in Streams, ~stream[s].counted, stream'[s].counted, active' = active + 1,
                        \A r \in Streams : r # s => stream'[r].counted = stream[r].counted
PROVE  Counting' /\ active' \in Nat
<1>1. Counted' = Counted \cup {s} /\ s \notin Counted
  BY DEF Counted
<1>2. Cardinality(Counted') = Cardinality(Counted) + 1
  BY <1>1, CountedFinite, FS_AddElement
<1> QED BY <1>2, CountedFinite DEF Counting, Counted

LEMMA CountDown == ASSUME Counting, NEW s \in Streams, stream[s].counted, ~stream'[s].counted, active' = active - 1,
                          \A r \in Streams : r # s => stream'[r].counted = stream[r].counted
PROVE  Counting' /\ active' \in Nat
<1>1. Counted' = Counted \ {s} /\ s \in Counted
  BY DEF Counted
<1>2. Cardinality(Counted') = Cardinality(Counted) - 1 /\ Cardinality(Counted') \in Nat
  <2>1. Cardinality(Counted \ {s}) = Cardinality(Counted) - 1
    BY <1>1, CountedFinite, FS_RemoveElement
  <2>2. IsFiniteSet(Counted \ {s})
    BY CountedFinite, FS_RemoveElement
  <2> QED BY <1>1, <2>1, <2>2, FS_CardinalityType
<1> QED BY <1>2, CountedFinite DEF Counting, Counted

LEMMA CountSame == ASSUME Counting, active' = active, active \in Nat, \A r \in Streams : stream'[r].counted = stream[r].counted
PROVE  Counting' /\ active' \in Nat
<1>1. Counted' = Counted
  BY DEF Counted
<1> QED BY <1>1 DEF Counting, Counted

\* A step that changes the stream on the top of the stack alone
LEMMA ChangeKeeps ==
  ASSUME IInv, Types', todo # <<>>, NEW x \in Seq(Calls), Then(x), net'.proto = net.proto, net'.destroyed = net.destroyed,
         Head(todo).op \in {"SetState", "Update", "Finalized", "DestroyStream"}, NEW t \in Streams, t = S,
         NEW state, NEW target, NEW counted, NEW destroyed, Changed(stream', t, state, target, counted, destroyed),
         StreamOK(t)',
         stream[t].state >= First => state >= First,
         ~stream[t].counted /\ stream[t].state >= First => ~counted,
         Head(todo).op = "DestroyStream" => ~counted,
         Counting' /\ active' \in Nat,
         \A i \in 1..Len(x) : CallOK(i)'
  PROVE  IInv'
<1>1. todo \in Seq(Calls)
  BY DEF IInv, TypeOK
<1>2. TypeOK'
  <2>1. todo' \in Seq(Calls)
    BY <1>1, Push DEF Then
  <2> QED BY <2>1 DEF TypeOK, Types
<1>3. ASSUME NEW s \in Streams, s # t \/ Head(todo).op # "DestroyStream", Ending(0, s)
      PROVE  Ending(0, s)'
  <2>1. ~Ends(Head(todo), s)
    BY <1>3 DEF Ends, S
  <2> QED BY <1>3, <2>1, KeepsEnding
<1>4. Leaving(0) => Leaving(0)'
  BY KeepsLeaving
<1>5. \A s \in Streams : StreamOK(s)'
  <2> TAKE s \in Streams
  <2>1. CASE s = t
    BY <2>1
  <2>2. CASE s # t
    <3>1. StreamOK(s) /\ Http1' = Http1
      BY DEF IInv, Http1
    <3>2. /\ stream'[s].state = stream[s].state /\ stream'[s].target = stream[s].target
          /\ stream'[s].counted = stream[s].counted /\ stream'[s].destroyed = stream[s].destroyed
      BY <2>2 DEF Changed
    <3>3. Ending(0, s) => Ending(0, s)'
      BY <1>3, <2>2
    <3> QED BY <1>4, <3>1, <3>2, <3>3 DEF StreamOK
  <2> QED BY <2>1, <2>2
<1>6. \A i \in 1..Len(todo') : CallOK(i)'
  <2>1. ASSUME NEW s \in Streams
        PROVE  /\ stream[s].state >= First => stream'[s].state >= First
               /\ ~stream[s].counted /\ stream[s].state >= First => ~stream'[s].counted
               /\ Ending(0, s) => Ending(0, s)' \/ ~stream'[s].counted
    <3>1. CASE s = t
      BY <1>3, <3>1 DEF Changed
    <3>2. CASE s # t
      BY <1>3, <3>2 DEF Changed
    <3> QED BY <3>1, <3>2
  <2> QED BY <2>1, StackOK
<1> QED BY <1>2, <1>5, <1>6 DEF IInv

\* The calls of a state
VisitCall(c, t, next) ==
  /\ c \in Calls /\ c.s = t
  /\ \/ c.op = "First"
     \/ c.op \in {"Headers", "Parsed", "Content", "Ready"} /\ next \in {Parsed, Content, Ready}
     \/ c.op = "Finalized" /\ next = Finalized
     \/ c.op = "Update" /\ c.n = next

LEMMA VisitIs == ASSUME NEW t \in Streams, NEW next \in 1..9
PROVE  /\ Visit(t, next) \in Seq(Calls)
       /\ \A i \in 1..Len(Visit(t, next)) : VisitCall(Visit(t, next)[i], t, next) /\ (next = Finalized => i = 1)
<1>1. /\ First # Parsed /\ First # Content /\ First # Ready /\ First # Finalized /\ Parsed # Content /\ Parsed # Ready
      /\ Parsed # Finalized /\ Content # Ready /\ Content # Finalized /\ Ready # Finalized /\ next \in 0..9
  BY DEF First, Parsed, Content, Ready, Finalized
<1>2. ASSUME NEW c \in Calls, Visit(t, next) = <<c>>, VisitCall(c, t, next)
      PROVE  /\ Visit(t, next) \in Seq(Calls)
             /\ \A i \in 1..Len(Visit(t, next)) : VisitCall(Visit(t, next)[i], t, next) /\ (next = Finalized => i = 1)
  <2>1. <<c>> \in Seq(Calls) /\ Len(<<c>>) = 1 /\ <<c>>[1] = c
    OBVIOUS
  <2>2. \A i \in 1..1 : i = 1
    OBVIOUS
  <2> QED BY <1>2, <2>1, <2>2
<1>3. CASE next = First
  <2>1. PICK c \in Calls : c = Call("First", t, 0) /\ c.op = "First" /\ c.s = t
    BY OpsAre, CallIs
  <2>2. Visit(t, next) = <<c>> /\ VisitCall(c, t, next)
    BY <1>1, <1>3, <2>1 DEF Visit, VisitCall
  <2> QED BY <1>2, <2>2
<1>4. CASE next = Parsed
  <2>1. PICK c \in Calls : c = Call("Headers", t, 0) /\ c.op = "Headers" /\ c.s = t
    BY OpsAre, CallIs
  <2>2. PICK d \in Calls : d = Call("Parsed", t, 0) /\ d.op = "Parsed" /\ d.s = t
    BY OpsAre, CallIs
  <2>3. Visit(t, next) = <<c, d>> /\ VisitCall(c, t, next) /\ VisitCall(d, t, next)
    BY <1>1, <1>4, <2>1, <2>2 DEF Visit, VisitCall
  <2>4. <<c, d>> \in Seq(Calls) /\ Len(<<c, d>>) = 2 /\ <<c, d>>[1] = c /\ <<c, d>>[2] = d
    OBVIOUS
  <2>5. \A i \in 1..2 : i = 1 \/ i = 2
    OBVIOUS
  <2> QED BY <1>1, <1>4, <2>3, <2>4, <2>5
<1>5. CASE next = Content
  <2>1. PICK c \in Calls : c = Call("Content", t, 0) /\ c.op = "Content" /\ c.s = t
    BY OpsAre, CallIs
  <2>2. Visit(t, next) = <<c>> /\ VisitCall(c, t, next)
    BY <1>1, <1>5, <2>1 DEF Visit, VisitCall
  <2> QED BY <1>2, <2>2
<1>6. CASE next = Ready
  <2>1. PICK c \in Calls : c = Call("Ready", t, 0) /\ c.op = "Ready" /\ c.s = t
    BY OpsAre, CallIs
  <2>2. Visit(t, next) = <<c>> /\ VisitCall(c, t, next)
    BY <1>1, <1>6, <2>1 DEF Visit, VisitCall
  <2> QED BY <1>2, <2>2
<1>7. CASE next = Finalized
  <2>1. PICK c \in Calls : c = Call("Finalized", t, 0) /\ c.op = "Finalized" /\ c.s = t
    BY OpsAre, CallIs
  <2>2. Visit(t, next) = <<c>> /\ VisitCall(c, t, next)
    BY <1>1, <1>7, <2>1 DEF Visit, VisitCall
  <2> QED BY <1>2, <2>2
<1>8. CASE next \notin {First, Parsed, Content, Ready, Finalized}
  <2>1. PICK c \in Calls : c = Call("Update", t, next) /\ c.op = "Update" /\ c.s = t /\ c.n = next
    BY <1>1, OpsAre, CallIs
  <2>2. Visit(t, next) = <<c>> /\ VisitCall(c, t, next)
    BY <1>1, <1>8, <2>1 DEF Visit, VisitCall
  <2> QED BY <1>2, <2>2
<1> QED BY <1>3, <1>4, <1>5, <1>6, <1>7, <1>8

\* Another state is entered, with the calls that go with it.
LEMMA EnterKeeps ==
  ASSUME IInv, Head(todo).op \in {"SetState", "Update"}, todo # <<>>, NEW t \in Streams, t = S,
         NEW next \in 1..10, NEW target \in 0..9, Enter(S, next, target), UNCHANGED <<rx, tx, faults>>,
         next > stream[t].state, next > First => stream[t].state >= First,
         target = Complete => Ending(1, t) \/ (~stream[t].counted /\ stream[t].state >= First)
  PROVE  IInv'
<1> DEFINE counted == stream[t].counted \/ next = First
<1>1. Types /\ StreamOK(t) /\ todo \in Seq(Calls) /\ Counting /\ active \in Nat
  BY DEF IInv, TypeOK, Types
<1>2. /\ next <= target /\ next \in 1..9 /\ UNCHANGED net /\ Then(Visit(t, next))
      /\ stream' = [stream EXCEPT ![t].setting = TRUE, ![t].state = next, ![t].target = target,
                                  ![t].counted = stream[t].counted \/ next = First]
      /\ active' = (IF next = First THEN active + 1 ELSE active)
      /\ seen' = [seen EXCEPT ![t].states = @ \cup {next}]
  BY DEF Enter
<1>3. stream[t].counted \in BOOLEAN /\ counted \in BOOLEAN /\ stream[t].state \in 0..9
  BY <1>1 DEF Types, StreamType
<1>4. Changed(stream', t, next, target, counted, stream[t].destroyed)
  <2> DEFINE f == [stream EXCEPT ![t].setting = TRUE]
             g == [f EXCEPT ![t].state = next]
             h == [g EXCEPT ![t].target = target]
             k == [h EXCEPT ![t].counted = counted]
  <2>0. next \in 0..9
    BY <1>2
  <2>1. Changed(stream, t, stream[t].state, stream[t].target, stream[t].counted, stream[t].destroyed)
    BY <1>1, ChangedNot
  <2>2. Changed(f, t, stream[t].state, stream[t].target, stream[t].counted, stream[t].destroyed)
    <3>1. f \in [Streams -> StreamType] /\ Core(f, stream)
      BY <1>1, StreamSet, CoreSet DEF Types
    <3> QED BY <2>1, <3>1, ChangedCore
  <2> HIDE DEF f
  <2>3. Changed(g, t, next, stream[t].target, stream[t].counted, stream[t].destroyed)
    BY <2>0, <2>2, ChangedState
  <2> HIDE DEF g
  <2>4. Changed(h, t, next, target, stream[t].counted, stream[t].destroyed)
    BY <2>3, ChangedTarget
  <2> HIDE DEF h, counted
  <2>5. Changed(k, t, next, target, counted, stream[t].destroyed)
    BY <1>3, <2>4, ChangedCounted
  <2> USE DEF counted, h, g, f
  <2>6. stream' = k
    BY <1>2
  <2> HIDE DEF k, counted
  <2> QED BY <2>5, <2>6
<1>5. /\ stream'[t].state = next /\ stream'[t].target = target /\ stream'[t].counted = counted
      /\ stream'[t].destroyed = stream[t].destroyed /\ stream' \in [Streams -> StreamType]
      /\ \A r \in Streams : r # t => stream'[r].counted = stream[r].counted
  BY <1>4 DEF Changed
<1>6. stream[t].counted => stream[t].state >= First
  BY <1>1 DEF StreamOK
<1>7. Counting' /\ active' \in Nat
  <2>1. CASE next = First
    <3>1. ~stream[t].counted
      BY <1>3, <1>6, <2>1 DEF First
    <3>2. counted
      BY <2>1
    <3>3. active' = active + 1
      BY <1>2, <2>1
    <3> HIDE DEF counted
    <3>4. stream'[t].counted
      BY <1>5, <3>2
    <3> QED BY <1>1, <1>5, <3>1, <3>3, <3>4, CountUp
  <2>2. CASE next # First
    <3>1. stream'[t].counted = stream[t].counted /\ active' = active
      BY <1>2, <1>3, <1>5, <2>2
    <3>2. \A r \in Streams : stream'[r].counted = stream[r].counted
      BY <1>5, <3>1
    <3> QED BY <1>1, <3>1, <3>2, CountSame
  <2> QED BY <2>1, <2>2
<1>8. Types'
  <2>1. seen' \in [Streams -> SeenType]
    BY SMTT(30), ZenonT(60), <1>1, <1>2 DEF Types, SeenType
  <2> QED BY <1>1, <1>2, <1>5, <2>1 DEF Types
<1>9. PICK x \in Seq(Calls) : x = Visit(t, next) /\ Len(x) \in Nat
  BY SMTT(60), <1>2, VisitIs
<1>10. \A i \in 1..Len(x) : todo'[i] = x[i]
  BY <1>1, <1>2, <1>9, Push DEF Then
<1>11. Ending(1, t) => Ending(0, t)'
  <2>1. 1 \in 1..Len(todo) /\ 0 \in 0..(1 - 1 + Len(x))
    BY <1>1, <1>9
  <2> QED BY <1>1, <1>2, <1>9, <2>1, Under
<1>12. counted /\ next = Complete => Ending(0, t)'
  BY <1>2, <1>3, <1>5, <1>6, <1>11 DEF Complete, First
<1>13. StreamOK(t)'
  <2>1. next \in First..Running => counted
    BY <1>1, <1>3 DEF StreamOK, First, Running
  <2>2. counted => next >= First
    BY <1>3, <1>6 DEF First
  <2>3. target = Complete => Ending(0, t)' \/ (next = Complete /\ ~counted)
    BY SMTT(60), <1>1, <1>2, <1>3, <1>11 DEF StreamOK, First, Running, Complete
  <2>4. ~stream[t].destroyed
    BY <1>1, <1>2 DEF StreamOK, Complete
  <2>5. next # 0 /\ (counted /\ next = Complete => Ending(0, t)')
    BY <1>2, <1>12
  <2> HIDE DEF counted
  <2> QED BY <1>5, <2>1, <2>2, <2>3, <2>4, <2>5 DEF StreamOK
<1>14. \A i \in 1..Len(x) : CallOK(i)'
  <2> TAKE i \in 1..Len(x)
  <2>1. PICK c \in Calls : todo'[i] = c /\ VisitCall(c, t, next) /\ (next = Finalized => i = 1)
    <3>1. next \in 1..9
      BY <1>2
    <3>2. \A j \in 1..Len(x) : VisitCall(x[j], t, next) /\ (next = Finalized => j = 1)
      BY <1>9, <3>1, VisitIs
    <3>3. x[i] \in Calls
      BY <1>9
    <3>4. VisitCall(x[i], t, next) /\ (next = Finalized => i = 1) /\ todo'[i] = x[i]
      BY <1>10, <3>2
    <3> QED BY <3>3, <3>4
  <2>2. next = Finalized => counted
    BY SMTT(30), ZenonT(60), <1>1, <1>2, <1>3 DEF StreamOK, First, Running, Finalized
  <2> HIDE DEF counted
  <2>3. c.op \in {"Headers", "Parsed", "Content", "Ready"} => stream'[c.s].state >= First
    BY <1>5, <2>1 DEF VisitCall, First, Parsed, Content, Ready
  <2>4. c.op = "Finalized" => i = 1 /\ stream'[c.s].counted /\ stream'[c.s].state = Finalized
    BY <1>5, <2>1, <2>2 DEF VisitCall
  <2>5. c.op = "Update" => /\ c.n > First => stream'[c.s].state >= First
                           /\ c.n = Complete => ~stream'[c.s].counted \/ Ending(0, c.s)'
    BY <1>2, <1>5, <1>12, <2>1 DEF VisitCall, First
  <2>6. c.op \notin {"SetState", "Abandon", "CloseStream", "RemoveStream", "DestroyStream", "FrameDone", "FrameClosed"}
    BY <2>1 DEF VisitCall
  <2> QED BY <2>1, <2>3, <2>4, <2>5, <2>6 DEF CallOK
<1>15. stream[t].state >= First => next >= First
  BY <1>3 DEF First
<1>16. ~stream[t].counted /\ stream[t].state >= First => ~counted
  BY <1>3 DEF First
<1> HIDE DEF counted
<1> QED BY <1>2, <1>4, <1>7, <1>8, <1>9, <1>13, <1>14, <1>15, <1>16, ChangeKeeps

\* The loop has reached its target.
LEMMA LeaveKeeps ==
  ASSUME IInv, Head(todo).op \in {"SetState", "Update"}, todo # <<>>, NEW t \in Streams, t = S,
         NEW next \in 1..10, NEW target \in 0..9, Leave(S, next, target), UNCHANGED <<rx, tx, faults>>,
         next > stream[t].state, next = 10 => stream[t].state = Complete,
         target = Complete => Ending(1, t) \/ (~stream[t].counted /\ stream[t].state >= First)
  PROVE  IInv'
<1> DEFINE complete == stream[t].state = Complete
           x == When(~complete /\ tx[t].started, <<Call("Service", t, 1)>>) \o <<Call("Kick", t, 0)>>
<1>1. Types /\ StreamOK(t) /\ todo \in Seq(Calls) /\ Counting /\ active \in Nat /\ CallOK(1)
  BY TopOK DEF IInv, TypeOK, Types
<1>2. /\ next > target /\ active' = active /\ Then(x)
      /\ stream' = [stream EXCEPT ![t].setting = FALSE, ![t].target = target,
                                  ![t].completed = stream[t].completed \/ complete]
      /\ seen' = [seen EXCEPT ![t].done = IF complete /\ ~stream[t].completed THEN @ + 1 ELSE @]
      /\ net' = [net EXCEPT !.eof = @ \/ (complete /\ ~stream[t].completed /\ Http1 /\ stream[t].keep = 0)]
  BY DEF Leave
<1>3. Changed(stream', t, stream[t].state, target, stream[t].counted, stream[t].destroyed)
  <2> DEFINE f == [stream EXCEPT ![t].setting = FALSE]
             g == [f EXCEPT ![t].target = target]
             h == [g EXCEPT ![t].completed = stream[t].completed \/ complete]
  <2>1. Changed(stream, t, stream[t].state, stream[t].target, stream[t].counted, stream[t].destroyed)
    BY <1>1, ChangedNot
  <2>2. Changed(f, t, stream[t].state, stream[t].target, stream[t].counted, stream[t].destroyed)
    <3>1. f \in [Streams -> StreamType] /\ Core(f, stream)
      BY <1>1, StreamSet, CoreSet DEF Types
    <3> QED BY <2>1, <3>1, ChangedCore
  <2> HIDE DEF f
  <2>3. Changed(g, t, stream[t].state, target, stream[t].counted, stream[t].destroyed)
    BY <2>2, ChangedTarget
  <2> HIDE DEF g
  <2>4. Changed(h, t, stream[t].state, target, stream[t].counted, stream[t].destroyed)
    <3>1. g \in [Streams -> StreamType]
      BY <2>3 DEF Changed
    <3>2. h \in [Streams -> StreamType] /\ Core(h, g)
      BY <3>1, StreamSet, CoreSet
    <3> QED BY <2>3, <3>2, ChangedCore
  <2> USE DEF g, f
  <2>5. stream' = h
    BY <1>2
  <2> HIDE DEF h
  <2> QED BY <2>4, <2>5
<1>4. /\ stream'[t].state = stream[t].state /\ stream'[t].target = target /\ stream'[t].counted = stream[t].counted
      /\ stream'[t].destroyed = stream[t].destroyed /\ stream' \in [Streams -> StreamType]
      /\ \A r \in Streams : r # t => stream'[r].counted = stream[r].counted /\ stream'[r].state = stream[r].state
  BY <1>3 DEF Changed
<1>5. Counting' /\ active' \in Nat
  <2>1. \A r \in Streams : stream'[r].counted = stream[r].counted
    BY <1>4
  <2> QED BY <1>1, <1>2, <2>1, CountSame
<1>6. net' \in NetType /\ net'.proto = net.proto /\ net'.destroyed = net.destroyed
  <2>1. PICK b \in BOOLEAN : net' = [net EXCEPT !.eof = b]
    BY <1>2
  <2>2. net' \in NetType
    BY <1>1, <2>1, NetSet DEF Types
  <2>3. net'.proto = net.proto /\ net'.destroyed = net.destroyed
    BY <1>1, <2>1 DEF Types, NetType
  <2> QED BY <2>2, <2>3
<1>7. Types'
  <2>1. seen' \in [Streams -> SeenType]
    <3>1. seen \in [Streams -> SeenType] /\ seen[t].done \in Nat
      BY <1>1 DEF Types, SeenType
    <3>2. PICK v \in Nat : seen' = [seen EXCEPT ![t].done = v]
      <4>1. CASE complete /\ ~stream[t].completed
        <5>1. PICK v \in Nat : v = seen[t].done + 1
          BY <3>1
        <5>2. seen' = [seen EXCEPT ![t].done = v]
          BY <1>2, <4>1, <5>1
        <5> QED BY <5>2
      <4>2. CASE ~(complete /\ ~stream[t].completed)
        BY <1>2, <3>1, <4>2
      <4> QED BY <4>1, <4>2
    <3> QED BY <3>1, <3>2 DEF SeenType
  <2> QED BY <1>1, <1>4, <1>6, <2>1 DEF Types
<1>8. PICK y \in Seq(Good) : Then(y)
  <2>1. <<Call("Service", t, 1)>> \in Seq(Good) /\ <<Call("Kick", t, 0)>> \in Seq(Good)
    BY GoodCall DEF PlainOps, Ops
  <2>2. x \in Seq(Good)
    BY <2>1, GoodConcat, GoodNone DEF When
  <2> QED BY <1>2, <2>2
<1>9. y \in Seq(Calls) /\ Len(y) \in Nat
  BY <1>8 DEF Good
<1>10. \A i \in 1..Len(y) : todo'[i] \in Good
  <2>1. \A i \in 1..Len(y) : todo'[i] = y[i]
    BY <1>1, <1>8, <1>9, Push DEF Then
  <2> QED BY <1>8, <2>1
<1>11. \A i \in 1..Len(y) : CallOK(i)'
  <2> TAKE i \in 1..Len(y)
  <2> DEFINE c == todo'[i]
  <2>1. c \in Calls /\ c.s \in Streams
    BY <1>10 DEF Good, Calls
  <2>2. c.op = "Update" => c.n # Complete /\ (c.n > First => stream'[c.s].state >= First)
    BY <1>4, <1>10, <2>1 DEF Good, PlainOps, Complete
  <2>3. c.op \notin {"Headers", "Parsed", "Content", "Ready", "Finalized", "Abandon", "CloseStream",
                     "RemoveStream", "DestroyStream", "FrameDone", "FrameClosed"}
        /\ ~(c.op = "SetState" /\ c.n = Complete)
    BY <1>10, <2>1 DEF Good, PlainOps, Complete
  <2> QED BY <2>2, <2>3 DEF CallOK
<1>12. /\ Ending(0, t) => Ending(0, t)'
       /\ Ending(1, t) => Ending(0, t)'
  <2>1. ~Ends(Head(todo), t)
    BY DEF Ends
  <2>2. 1 \in 1..Len(todo) /\ 0 \in 0..(1 - 1 + Len(y))
    BY <1>1, <1>9
  <2> QED BY <1>1, <1>8, <1>9, <2>1, <2>2, KeepsEnding, Under
<1>13. StreamOK(t)'
  <2>1. stream[t].state \in 0..9
    BY <1>1 DEF Types, StreamType
  <2>2. target = Complete => stream[t].state = Complete
    BY <1>2, <2>1 DEF Complete
  <2>3. Leaving(0) => Leaving(0)'
    BY <1>8, <1>9, KeepsLeaving
  <2>4. Http1' = Http1
    BY <1>6 DEF Http1
  <2>5. target = Complete => Ending(0, t)' \/ ~stream[t].counted
    BY <1>1, <1>12 DEF StreamOK
  <2> QED BY <1>1, <1>4, <1>6, <1>12, <2>2, <2>3, <2>4, <2>5 DEF StreamOK, Complete
<1> QED BY <1>3, <1>5, <1>6, <1>7, <1>8, <1>9, <1>11, <1>13, ChangeKeeps

\* The stream that the loop of httpSetState is about
LEMMA MostType == ASSUME NEW a \in 0..9, NEW b \in 0..9
PROVE  Most(a, b) \in 0..9 /\ Most(a, b) \in {a, b} /\ Most(a, b) >= a /\ Most(a, b) >= b
BY DEF Most

LEMMA SetStateKeeps == ASSUME IInv, SetState
PROVE  IInv'
<1>1. Do("SetState") /\ "SetState" \in Ops /\ UNCHANGED <<rx, tx, faults>>
  BY DEF SetState, Ops
<1>2. /\ Types /\ todo # <<>> /\ todo \in Seq(Calls) /\ 1 \in 1..Len(todo) /\ Arg \in 0..9
      /\ Head(todo).op = "SetState" /\ Head(todo) = todo[1] /\ todo[1].n = Arg /\ CallOK(1)
  BY <1>1, Top
<1>3. PICK t \in Streams : t = S /\ todo[1].s = t /\ StreamOK(t)
  BY <1>1, Top
<1>4. Arg = Complete => Ending(1, t) /\ stream[t].state > 0
  BY <1>2, <1>3 DEF CallOK
<1>5. stream[t].state \in 0..9 /\ stream[t].target \in 0..9
  BY <1>2 DEF Types, StreamType
<1>6. CASE /\ stream' = [stream EXCEPT ![t].target = Most(stream[t].target, Arg)]
           /\ Then(<<>>) /\ UNCHANGED <<net, active, seen>>
  <2> DEFINE target == Most(stream[t].target, Arg)
  <2>1. target \in 0..9 /\ target \in {stream[t].target, Arg}
    BY <1>2, <1>5, MostType
  <2>2. Changed(stream, t, stream[t].state, stream[t].target, stream[t].counted, stream[t].destroyed)
    BY <1>2, ChangedNot
  <2>3. Changed(stream', t, stream[t].state, target, stream[t].counted, stream[t].destroyed)
    BY <1>6, <2>1, <2>2, ChangedTarget
  <2>4. /\ stream'[t].state = stream[t].state /\ stream'[t].target = target /\ stream'[t].counted = stream[t].counted
        /\ stream'[t].destroyed = stream[t].destroyed /\ stream' \in [Streams -> StreamType]
        /\ \A r \in Streams : stream'[r].counted = stream[r].counted
    BY <2>3 DEF Changed
  <2>5. Types' /\ Counting' /\ active' \in Nat
    BY <1>1, <1>2, <1>6, <2>4, CountSame DEF Types, IInv, TypeOK
  <2>6. <<>> \in Seq(Calls) /\ \A i \in 1..Len(<<>>) : CallOK(i)'
    OBVIOUS
  <2>7. /\ Ending(0, t) => Ending(0, t)'
        /\ Ending(1, t) => Ending(0, t)'
    <3>1. ~Ends(Head(todo), t)
      BY <1>2 DEF Ends
    <3>2. 0 \in 0..(1 - 1 + Len(<<>>))
      OBVIOUS
    <3> QED BY <1>2, <1>6, <2>6, <3>1, <3>2, KeepsEnding, Under
  <2>8. Leaving(0) => Leaving(0)'
    BY <1>2, <1>6, <2>6, KeepsLeaving
  <2>9. StreamOK(t)'
    <3>1. target = Complete => Ending(0, t)' \/ (stream[t].state = Complete /\ ~stream[t].counted)
      BY <1>3, <1>4, <2>1, <2>7 DEF StreamOK
    <3>2. stream[t].state = 0 => target # Complete
      BY <1>3, <1>4, <2>1 DEF StreamOK
    <3>3. Http1' = Http1 /\ net' = net
      BY <1>6 DEF Http1
    <3> HIDE DEF target
    <3> QED BY <1>3, <2>4, <2>7, <2>8, <3>1, <3>2, <3>3 DEF StreamOK
  <2> HIDE DEF target
  <2> QED BY <1>2, <1>3, <1>6, <2>3, <2>5, <2>6, <2>9, ChangeKeeps
<1>7. CASE Enter(S, stream[t].state + 1, Arg) \/ Leave(S, stream[t].state + 1, Arg)
  <2> DEFINE next == stream[t].state + 1
  <2>1. next \in 1..10 /\ next > stream[t].state /\ (next > First => stream[t].state >= First)
        /\ (next = 10 => stream[t].state = Complete)
    BY <1>5 DEF First, Complete
  <2>2. Arg = Complete => Ending(1, t)
    BY <1>4
  <2> HIDE DEF next
  <2>3. CASE Enter(S, next, Arg)
    BY <1>1, <1>2, <1>3, <2>1, <2>2, <2>3, EnterKeeps
  <2>4. CASE Leave(S, next, Arg)
    BY <1>1, <1>2, <1>3, <2>1, <2>2, <2>4, LeaveKeeps
  <2> QED BY <1>7, <2>3, <2>4 DEF next
<1> QED BY <1>3, <1>6, <1>7 DEF SetState

LEMMA UpdateKeeps == ASSUME IInv, Update
PROVE  IInv'
<1>1. Do("Update") /\ "Update" \in Ops /\ UNCHANGED <<rx, tx, faults>>
  BY DEF Update, Ops
<1>2. /\ Types /\ todo # <<>> /\ todo \in Seq(Calls) /\ 1 \in 1..Len(todo) /\ Arg \in 0..9
      /\ Head(todo).op = "Update" /\ Head(todo) = todo[1] /\ todo[1].n = Arg /\ CallOK(1)
  BY <1>1, Top
<1>3. PICK t \in Streams : t = S /\ todo[1].s = t /\ StreamOK(t)
  BY <1>1, Top
<1>4. stream[t].state \in 0..9 /\ stream[t].target \in 0..9
  BY <1>2 DEF Types, StreamType
<1> DEFINE next == IF Arg > stream[t].state THEN Arg ELSE stream[t].state + 1
           target == Most(stream[t].target, Arg)
<1>5. Enter(S, next, target) \/ Leave(S, next, target)
  BY <1>3 DEF Update
<1>6. target \in 0..9 /\ target \in {stream[t].target, Arg}
  BY <1>2, <1>4, MostType
<1>7. Arg > First => stream[t].state >= First
  BY <1>2, <1>3 DEF CallOK
<1>8. next \in 1..10 /\ next > stream[t].state /\ (next > First => stream[t].state >= First)
      /\ (next = 10 => stream[t].state = Complete)
  BY SMTT(60), <1>2, <1>4, <1>7 DEF First, Complete
<1>9. Ending(0, t) => Ending(1, t)
  <2>1. ~Ends(Head(todo), t)
    BY <1>2 DEF Ends
  <2> QED BY <1>2, <2>1, NotTop
<1>10. target = Complete => Ending(1, t) \/ (~stream[t].counted /\ stream[t].state >= First)
  <2>1. CASE target = Arg
    BY <1>2, <1>3, <1>7, <1>9, <2>1 DEF CallOK, Complete, First
  <2>2. CASE target = stream[t].target
    BY <1>3, <1>9, <2>2 DEF StreamOK, Complete, First
  <2> QED BY <1>6, <2>1, <2>2
<1> HIDE DEF next, target
<1>11. CASE Enter(S, next, target)
  BY <1>1, <1>2, <1>3, <1>6, <1>8, <1>10, <1>11, EnterKeeps
<1>12. CASE Leave(S, next, target)
  BY <1>1, <1>2, <1>3, <1>6, <1>8, <1>10, <1>12, LeaveKeeps
<1> QED BY <1>5, <1>11, <1>12

LEMMA OneCall == ASSUME NEW c \in Calls
PROVE  \E x \in Seq(Calls) : x = <<c>> /\ Len(x) = 1 /\ x[1] = c
<1>1. <<c>> \in Seq(Calls) /\ Len(<<c>>) = 1 /\ <<c>>[1] = c
  OBVIOUS
<1> QED BY <1>1

\* Another state at the end of a request, or the request of an error document in the same stream
LEMMA ProcessFinalizedKeeps == ASSUME IInv, ProcessFinalized
PROVE  IInv'
<1>1. Do("Finalized") /\ "Finalized" \in Ops /\ UNCHANGED <<net, faults>>
  BY DEF ProcessFinalized, Ops
<1>2. /\ Types /\ todo # <<>> /\ todo \in Seq(Calls) /\ 1 \in 1..Len(todo) /\ active \in Nat /\ Counting
      /\ Head(todo).op = "Finalized" /\ Head(todo) = todo[1] /\ CallOK(1)
  BY <1>1, Top DEF IInv, TypeOK
<1>3. PICK t \in Streams : t = S /\ todo[1].s = t /\ StreamOK(t)
  BY <1>1, Top
<1>4. stream[t].counted /\ stream[t].state = Finalized
  BY <1>2, <1>3 DEF CallOK
<1>5. stream[t].counted = TRUE /\ ~stream[t].destroyed /\ stream[t].destroyed = FALSE
  BY <1>2, <1>3, <1>4 DEF Types, StreamType, StreamOK
<1>6. tx \in [Streams -> TxType] /\ stream \in [Streams -> StreamType] /\ rx \in [Streams -> RxType]
      /\ seen \in [Streams -> SeenType] /\ net \in NetType /\ net.proto \in {1, 2}
  BY <1>2 DEF Types, NetType
<1>7. Changed(stream, t, stream[t].state, stream[t].target, stream[t].counted, stream[t].destroyed)
  BY <1>2, ChangedNot
<1>8. [[tx EXCEPT ![t].opened = FALSE] EXCEPT ![t].working = FALSE] \in [Streams -> TxType]
  <2> DEFINE f == [tx EXCEPT ![t].opened = FALSE]
  <2>1. f \in [Streams -> TxType]
    BY <1>6, TxSet
  <2> HIDE DEF f
  <2>2. [f EXCEPT ![t].working = FALSE] \in [Streams -> TxType]
    BY <2>1, TxSet
  <2> QED BY <2>2 DEF f
<1>9. CASE /\ tx' = [tx EXCEPT ![t].opened = FALSE, ![t].working = FALSE]
           /\ Then(<<Call("Update", t, Finalized)>>) /\ UNCHANGED <<stream, rx, active, seen>>
  <2>1. tx' \in [Streams -> TxType]
    BY <1>8, <1>9
  <2>2. Types' /\ Same
    BY <1>1, <1>2, <1>6, <1>9, <2>1 DEF Types, Same, Core
  <2>3. <<Call("Update", t, Finalized)>> \in Seq(Good)
    BY <1>4, GoodUpdate DEF Finalized, First
  <2> QED BY <1>2, <1>9, <2>2, <2>3, PlainKeeps DEF Plain, Stays
<1>10. CASE /\ stream' = [stream EXCEPT ![t].state = Parsed, ![t].target = Begin, ![t].error = FALSE,
                                        ![t].timer = "none", ![t].h2 = "idle"]
            /\ rx' = [rx EXCEPT ![t] = [FreshRx(net.proto) EXCEPT !.errdoc = TRUE]]
            /\ tx' = [tx EXCEPT ![t] = [FreshTx EXCEPT !.stale = IF tx[t].end \in {"queued", "socket"} THEN tx[t].end
                                                                 ELSE tx[t].stale]]
            /\ Then(<<Call("Parsed", t, 0)>>) /\ UNCHANGED <<active, seen>>
  <2>1. Changed(stream', t, Parsed, Begin, stream[t].counted, stream[t].destroyed)
    <3> DEFINE f == [stream EXCEPT ![t].state = Parsed]
               g == [f EXCEPT ![t].target = Begin]
               h == [g EXCEPT ![t].error = FALSE]
               k == [h EXCEPT ![t].timer = "none"]
               m == [k EXCEPT ![t].h2 = "idle"]
    <3>1. Parsed \in 0..9 /\ Begin \in 0..9
      BY DEF Parsed, Begin
    <3>2. Changed(f, t, Parsed, stream[t].target, stream[t].counted, stream[t].destroyed)
      BY <1>7, <3>1, ChangedState
    <3> HIDE DEF f
    <3>3. Changed(g, t, Parsed, Begin, stream[t].counted, stream[t].destroyed)
      BY <3>1, <3>2, ChangedTarget
    <3> HIDE DEF g
    <3>4. h \in [Streams -> StreamType] /\ Core(h, g)
      <4>1. g \in [Streams -> StreamType]
        BY <3>3 DEF Changed
      <4> QED BY <4>1, StreamSet, CoreSet
    <3>5. Changed(h, t, Parsed, Begin, stream[t].counted, stream[t].destroyed)
      BY <3>3, <3>4, ChangedCore
    <3> HIDE DEF h
    <3>6. k \in [Streams -> StreamType] /\ Core(k, h)
      BY <3>4, StreamValue, CoreSet
    <3>7. Changed(k, t, Parsed, Begin, stream[t].counted, stream[t].destroyed)
      BY <3>5, <3>6, ChangedCore
    <3> HIDE DEF k
    <3>8. m \in [Streams -> StreamType] /\ Core(m, k)
      BY <3>6, StreamValue, CoreSet DEF H2States
    <3>9. Changed(m, t, Parsed, Begin, stream[t].counted, stream[t].destroyed)
      BY <3>7, <3>8, ChangedCore
    <3> USE DEF f, g, h, k
    <3>10. stream' = m
      BY <1>10
    <3> HIDE DEF m
    <3> QED BY <3>9, <3>10
  <2>2. /\ stream'[t].state = Parsed /\ stream'[t].target = Begin /\ stream'[t].counted = stream[t].counted
        /\ stream'[t].destroyed = stream[t].destroyed /\ stream' \in [Streams -> StreamType]
        /\ \A r \in Streams : stream'[r].counted = stream[r].counted
    BY <2>1 DEF Changed
  <2>3. Counting' /\ active' \in Nat
    BY <1>2, <1>10, <2>2, CountSame
  <2>4. rx' \in [Streams -> RxType]
    <3>1. [FreshRx(net.proto) EXCEPT !.errdoc = TRUE] \in RxType
      BY <1>6 DEF FreshRx, RxType
    <3> QED BY <1>6, <1>10, <3>1
  <2>5. tx' \in [Streams -> TxType]
    <3>1. PICK v \in {"none", "queued", "socket"} : tx' = [tx EXCEPT ![t] = [FreshTx EXCEPT !.stale = v]]
      <4>1. tx[t].stale \in {"none", "queued", "socket"}
        BY <1>6, TxPlace
      <4>2. CASE tx[t].end \in {"queued", "socket"}
        BY <1>10, <4>2
      <4>3. CASE tx[t].end \notin {"queued", "socket"}
        BY <1>10, <4>1, <4>3
      <4> QED BY <4>2, <4>3
    <3>2. [FreshTx EXCEPT !.stale = v] \in TxType
      BY DEF FreshTx, TxType
    <3> QED BY <1>6, <3>1, <3>2
  <2>6. Types'
    BY <1>1, <1>6, <1>2, <1>10, <2>2, <2>4, <2>5 DEF Types
  <2>7. PICK c \in Calls : c = Call("Parsed", t, 0) /\ c.op = "Parsed" /\ c.s = t
    BY OpsAre, CallIs
  <2>8. PICK x \in Seq(Calls) : x = <<c>> /\ Len(x) = 1 /\ x[1] = c
    BY OneCall
  <2>9. Then(x)
    BY <1>10, <2>7, <2>8
  <2>10. todo'[1] = c
    BY <1>2, <2>8, <2>9, Push DEF Then
  <2>11. \A i \in 1..Len(x) : CallOK(i)'
    BY <2>2, <2>7, <2>8, <2>10 DEF CallOK, Parsed, First
  <2>12. StreamOK(t)'
    BY <1>4, <1>5, <2>2 DEF StreamOK, Parsed, First, Complete, Begin
  <2>13. Parsed >= First /\ stream[t].counted
    BY <1>4 DEF Parsed, First
  <2> QED BY <1>1, <1>2, <1>3, <2>1, <2>3, <2>6, <2>8, <2>9, <2>11, <2>12, <2>13, ChangeKeeps
<1>11. CASE /\ tx' = [tx EXCEPT ![t].opened = FALSE, ![t].working = FALSE]
            /\ active' = active - 1
            /\ stream' = [stream EXCEPT ![t].counted = FALSE]
            /\ Then(<<Call("Update", t, Complete)>>)
            /\ UNCHANGED <<rx, seen>>
  <2>1. tx' \in [Streams -> TxType]
    BY <1>8, <1>11
  <2>2. Changed(stream', t, stream[t].state, stream[t].target, FALSE, stream[t].destroyed)
    BY <1>7, <1>11, ChangedCounted
  <2>3. /\ stream'[t].state = stream[t].state /\ stream'[t].target = stream[t].target /\ ~stream'[t].counted
        /\ stream'[t].destroyed = stream[t].destroyed /\ stream' \in [Streams -> StreamType]
        /\ \A r \in Streams : r # t => stream'[r].counted = stream[r].counted
    BY <2>2 DEF Changed
  <2>4. Counting' /\ active' \in Nat
    BY <1>2, <1>4, <1>11, <2>3, CountDown
  <2>5. Types'
    BY <1>1, <1>2, <1>6, <1>11, <2>1, <2>3 DEF Types
  <2>6. PICK c \in Calls : c = Call("Update", t, Complete) /\ c.op = "Update" /\ c.s = t /\ c.n = Complete
    BY OpsAre, CallIs, Complete \in 0..9 DEF Complete
  <2>7. PICK x \in Seq(Calls) : x = <<c>> /\ Len(x) = 1 /\ x[1] = c
    BY OneCall
  <2>8. Then(x)
    BY <1>11, <2>6, <2>7
  <2>9. todo'[1] = c
    BY <1>2, <2>7, <2>8, Push DEF Then
  <2>10. \A i \in 1..Len(x) : CallOK(i)'
    BY <1>4, <2>3, <2>6, <2>7, <2>9 DEF CallOK, Finalized, First
  <2>11. Ending(0, t) => Ending(0, t)'
    <3>1. ~Ends(Head(todo), t)
      BY <1>2 DEF Ends
    <3> QED BY <1>2, <2>8, <3>1, KeepsEnding
  <2>12. StreamOK(t)'
    <3>1. stream[t].target = Complete => Ending(0, t)
      BY <1>3, <1>4 DEF StreamOK, Finalized, Complete
    <3> QED BY <1>4, <1>5, <2>3, <2>11, <3>1 DEF StreamOK, Finalized, Running, First, Complete
  <2> QED BY <1>1, <1>2, <1>3, <1>4, <2>2, <2>4, <2>5, <2>7, <2>8, <2>10, <2>12, ChangeKeeps DEF Finalized, First
<1> QED
  <2>1. Run("Parsed") = <<Call("Parsed", t, 0)>>
    BY <1>3 DEF Run
  <2> QED BY <1>3, <1>9, <1>10, <1>11, <2>1 DEF ProcessFinalized

LEMMA DestroyStreamKeeps == ASSUME IInv, DestroyStream
PROVE  IInv'
<1>1. Do("DestroyStream") /\ "DestroyStream" \in Ops /\ UNCHANGED <<net, rx, faults, seen>> /\ Then(<<>>)
  BY DEF DestroyStream, Ops
<1>2. /\ Types /\ todo # <<>> /\ todo \in Seq(Calls) /\ 1 \in 1..Len(todo) /\ active \in Nat /\ Counting
      /\ Head(todo).op = "DestroyStream" /\ Head(todo) = todo[1] /\ CallOK(1)
  BY <1>1, Top DEF IInv, TypeOK
<1>3. PICK t \in Streams : t = S /\ todo[1].s = t /\ StreamOK(t)
  BY <1>1, Top
<1>4. <<>> \in Seq(Calls) /\ \A i \in 1..Len(<<>>) : CallOK(i)'
  OBVIOUS
<1>5. Leaving(0) => Leaving(0)'
  BY <1>1, <1>2, <1>4, KeepsLeaving
<1>6. CASE stream[t].destroyed /\ UNCHANGED <<stream, tx, active>>
  <2>1. Types' /\ Same
    BY <1>1, <1>2, <1>6 DEF Types, Same, Core
  <2>2. ASSUME NEW s \in Streams, Ending(0, s)
        PROVE  Ending(0, s)' \/ (stream[s].state = Complete /\ ~stream[s].counted)
    <3>1. CASE s = t
      BY <1>3, <1>6, <3>1 DEF StreamOK
    <3>2. CASE s # t
      <4>1. ~Ends(Head(todo), s)
        BY <1>2, <1>3, <3>2 DEF Ends
      <4> QED BY <1>1, <1>2, <1>4, <2>2, <4>1, KeepsEnding
    <3> QED BY <3>1, <3>2
  <2> QED BY <1>1, <1>2, <1>4, <1>5, <2>1, <2>2, SameKeeps
<1>7. CASE /\ tx' = [tx EXCEPT ![t].opened = FALSE, ![t].working = FALSE]
           /\ active' = (IF stream[t].counted THEN active - 1 ELSE active)
           /\ stream' = [stream EXCEPT ![t].counted = FALSE, ![t].state = Complete, ![t].destroyed = TRUE]
  <2>1. tx' \in [Streams -> TxType]
    <3> DEFINE f == [tx EXCEPT ![t].opened = FALSE]
    <3>1. f \in [Streams -> TxType]
      BY <1>2, TxSet DEF Types
    <3> HIDE DEF f
    <3>2. [f EXCEPT ![t].working = FALSE] \in [Streams -> TxType]
      BY <3>1, TxSet
    <3> QED BY <1>7, <3>2 DEF f
  <2>2. Changed(stream', t, Complete, stream[t].target, FALSE, TRUE)
    <3> DEFINE f == [stream EXCEPT ![t].counted = FALSE]
               g == [f EXCEPT ![t].state = Complete]
               h == [g EXCEPT ![t].destroyed = TRUE]
    <3>1. Changed(stream, t, stream[t].state, stream[t].target, stream[t].counted, stream[t].destroyed)
      BY <1>2, ChangedNot
    <3>2. Changed(f, t, stream[t].state, stream[t].target, FALSE, stream[t].destroyed)
      BY <3>1, ChangedCounted
    <3> HIDE DEF f
    <3>3. Changed(g, t, Complete, stream[t].target, FALSE, stream[t].destroyed)
      BY <3>2, Complete \in 0..9, ChangedState DEF Complete
    <3> HIDE DEF g
    <3>4. Changed(h, t, Complete, stream[t].target, FALSE, TRUE)
      BY <3>3, ChangedDestroyed
    <3> USE DEF f, g
    <3>5. stream' = h
      BY <1>7
    <3> HIDE DEF h
    <3> QED BY <3>4, <3>5
  <2>3. /\ stream'[t].state = Complete /\ ~stream'[t].counted /\ stream' \in [Streams -> StreamType]
        /\ \A r \in Streams : r # t => stream'[r].counted = stream[r].counted
    BY <2>2 DEF Changed
  <2>4. Counting' /\ active' \in Nat
    <3>1. CASE stream[t].counted
      BY <1>2, <1>7, <2>3, <3>1, CountDown
    <3>2. CASE ~stream[t].counted
      <4>1. stream'[t].counted = stream[t].counted
        BY <1>2, <2>2, <3>2 DEF Types, StreamType, Changed
      <4>2. \A r \in Streams : stream'[r].counted = stream[r].counted
        BY <2>3, <4>1
      <4> QED BY <1>2, <1>7, <3>2, <4>2, CountSame
    <3> QED BY <3>1, <3>2
  <2>5. Types'
    BY <1>1, <1>2, <2>1, <2>3 DEF Types
  <2>6. Http1' => Leaving(0)'
    <3>1. Http1' = Http1
      BY <1>1 DEF Http1
    <3>2. Http1 => Leaving(1)
      BY <1>2 DEF CallOK
    <3>3. 0 \in 0..(1 - 1 + Len(<<>>))
      OBVIOUS
    <3> QED BY <1>1, <1>2, <1>4, <3>1, <3>2, <3>3, Under
  <2>7. StreamOK(t)'
    BY <2>3, <2>6 DEF StreamOK, Complete, First, Running
  <2>8. Complete >= First /\ ~FALSE
    BY DEF Complete, First
  <2> QED BY <1>1, <1>2, <1>3, <1>4, <2>2, <2>4, <2>5, <2>7, <2>8, ChangeKeeps
<1> QED BY <1>3, <1>6, <1>7 DEF DestroyStream

-----------------------------------------------------------------------------
(* Events: nothing is on the stack, so nothing is ending *)

EventCalls == {c \in Calls : \/ c.op \in PlainOps
                             \/ c.op = "SetState" /\ c.n < Complete
                             \/ c.op = "FrameDone" /\ ~Http1}

\* The connection stays what it is.
Like(r, q) == r \in NetType /\ r.proto = q.proto /\ r.destroyed = q.destroyed

LEMMA LikeSet == ASSUME NEW r, NEW q, Like(r, q), NEW v \in BOOLEAN
PROVE  /\ Like([r EXCEPT !.eof = v], q) /\ Like([r EXCEPT !.error = v], q) /\ Like([r EXCEPT !.active = v], q)
       /\ Like([r EXCEPT !.closed = v], q) /\ Like([r EXCEPT !.blocked = v], q) /\ Like([r EXCEPT !.stalled = v], q)
       /\ Like([r EXCEPT !.timer = v], q) /\ Like([r EXCEPT !.recall = v], q)
BY DEF Like, NetType

LEMMA LikeNet == ASSUME Types
PROVE  Like(net, net)
BY DEF Types, Like

LEMMA EventKeeps ==
  ASSUME IInv, todo = <<>>, Types', todo' \in Seq(EventCalls), active' = active, Like(net', net),
         \A r \in Streams : /\ stream'[r].counted = stream[r].counted /\ stream'[r].destroyed = stream[r].destroyed
                            /\ \/ stream'[r].state = stream[r].state /\ stream'[r].target = stream[r].target
                               \/ /\ Http1 /\ ~net.destroyed /\ stream[r].state = Complete
                                  /\ stream'[r].state = 0 /\ stream'[r].target = 0
  PROVE  IInv'
<1>1. active \in Nat /\ Counting /\ Http1' = Http1
  BY DEF IInv, TypeOK, Like, Http1
<1>2. TypeOK' /\ todo' \in Seq(Calls)
  <2>1. EventCalls \subseteq Calls
    BY DEF EventCalls
  <2>2. todo' \in Seq(Calls)
    BY <2>1
  <2> QED BY <1>1, <2>2 DEF TypeOK, Types
<1>3. Counting'
  BY <1>1, CountSame
<1>4. \A s \in Streams : StreamOK(s)'
  <2> TAKE s \in Streams
  <2>1. ~Ending(0, s) /\ ~Leaving(0)
    <3>1. Len(todo) = 0
      OBVIOUS
    <3> QED BY <3>1 DEF Ending, Leaving
  <2>2. StreamOK(s)
    BY DEF IInv
  <2>3. net'.destroyed = net.destroyed
    BY DEF Like
  <2>4. CASE stream'[s].state = stream[s].state /\ stream'[s].target = stream[s].target
    BY <1>1, <2>1, <2>2, <2>3, <2>4 DEF StreamOK
  <2>5. CASE /\ Http1 /\ ~net.destroyed /\ stream[s].state = Complete
             /\ stream'[s].state = 0 /\ stream'[s].target = 0
    BY <2>1, <2>2, <2>5 DEF StreamOK, Complete, First, Running
  <2> QED BY <2>4, <2>5
<1>5. \A i \in 1..Len(todo') : CallOK(i)'
  <2> TAKE i \in 1..Len(todo')
  <2>1. PICK c \in EventCalls : todo'[i] = c
    OBVIOUS
  <2>2. /\ c.op \notin {"Update", "Headers", "Parsed", "Content", "Ready", "Finalized", "Abandon", "CloseStream",
                        "RemoveStream", "DestroyStream", "FrameClosed"}
        /\ ~(c.op = "SetState" /\ c.n = Complete) /\ (c.op = "FrameDone" => ~Http1)
    BY DEF EventCalls, PlainOps, Complete
  <2> QED BY <1>1, <2>1, <2>2 DEF CallOK
<1> QED BY <1>2, <1>3, <1>4, <1>5 DEF IInv

\* The calls that events make
LEMMA EventCall == ASSUME NEW op \in PlainOps, NEW s \in Streams, NEW n \in 0..9
PROVE  Call(op, s, n) \in EventCalls /\ <<Call(op, s, n)>> \in Seq(EventCalls)
<1>1. Call(op, s, n) \in EventCalls
  BY CallType DEF EventCalls, PlainOps, Call
<1> HIDE DEF EventCalls
<1> QED BY <1>1

LEMMA EventOps == /\ "Line" \in PlainOps /\ "InputEnd" \in PlainOps /\ "Error" \in PlainOps /\ "SendReset" \in PlainOps
                  /\ "Service" \in PlainOps /\ "ServiceEnd" \in PlainOps /\ "Idle" \in PlainOps
                  /\ "Disconnect" \in PlainOps /\ "Enable" \in PlainOps /\ "Finalize" \in PlainOps
BY DEF PlainOps, Ops

LEMMA EventConcat == ASSUME NEW x \in Seq(EventCalls), NEW y \in Seq(EventCalls)
PROVE  x \o y \in Seq(EventCalls)
OBVIOUS

LEMMA EventNone == <<>> \in Seq(EventCalls)
OBVIOUS

LEMMA EventWhen == ASSUME NEW b \in BOOLEAN, NEW x \in Seq(EventCalls)
PROVE  When(b, x) \in Seq(EventCalls)
BY DEF When

LEMMA EventSet == ASSUME NEW s \in Streams
PROVE  SetTo(s, Begin) \in Seq(EventCalls) /\ SetTo(s, Parsed) \in Seq(EventCalls)
<1>1. \A n \in 0..8 : Call("SetState", s, n) \in EventCalls
  <2> TAKE n \in 0..8
  <2>1. Call("SetState", s, n) \in Calls
    BY OpsAre, n \in 0..9, CallType
  <2> QED BY <2>1 DEF EventCalls, Call, Complete
<1> HIDE DEF EventCalls
<1>2. \A n \in 0..8 : <<Call("SetState", s, n)>> \in Seq(EventCalls)
  BY <1>1
<1> QED BY <1>2 DEF SetTo, Begin, Parsed

LEMMA EventError == ASSUME NEW s \in Streams
PROVE  Error(s, Close) \in Seq(EventCalls) /\ Error(s, Soft) \in Seq(EventCalls)
BY EventCall, EventOps DEF Error, Close, Soft

LEMMA EventFrame == ASSUME NEW s \in Streams, ~Http1
PROVE  <<Call("Service", s, 0), Call("FrameDone", s, 0)>> \in Seq(EventCalls)
<1>1. Call("Service", s, 0) \in EventCalls
  BY EventCall, EventOps
<1>2. Call("FrameDone", s, 0) \in EventCalls
  <2>1. Call("FrameDone", s, 0) \in Calls
    BY CallType, OpsAre
  <2> QED BY <2>1 DEF EventCalls, Call
<1> HIDE DEF EventCalls
<1> QED BY <1>1, <1>2

LEMMA One == 1 \in Streams
BY RequestAssumption DEF Streams

LEMMA EventService == ASSUME NEW x \in Seq(EventCalls), IOEvent(x)
PROVE  todo' \in Seq(EventCalls)
<1>1. Call("Service", 1, 0) \in EventCalls /\ Call("ServiceEnd", 1, 0) \in EventCalls /\ Call("Idle", 1, 0) \in EventCalls
  BY One, EventCall, EventOps
<1> HIDE DEF EventCalls
<1>2. ServiceNet \in Seq(EventCalls)
  BY <1>1 DEF ServiceNet
<1> QED BY <1>2 DEF IOEvent

\* What every event begins with
LEMMA Quietly == ASSUME IInv, Quiet
PROVE  Types /\ todo = <<>> /\ ~net.destroyed /\ Like(net, net)
BY LikeNet DEF IInv, TypeOK, Types, Quiet

\* Events that leave the streams as they are
LEMMA NetEventKeeps == ASSUME IInv, ReadWindow \/ PeerClose \/ Writable \/ Hangup \/ NetTimeout \/ Recall
PROVE  IInv'
<1>1. /\ Types /\ todo = <<>> /\ ~net.destroyed /\ Like(net, net) /\ faults' \in Nat
      /\ UNCHANGED <<stream, rx, tx, active, seen>>
  <2>1. Quiet /\ UNCHANGED <<stream, rx, tx, active, seen>> /\ (faults' = faults \/ Fault(TRUE))
    BY DEF ReadWindow, PeerClose, Writable, Hangup, NetTimeout, Recall, Readable
  <2> QED BY <2>1, Quietly, FaultType DEF Types
<1>2. Like(net', net)
  <2>1. CASE ReadWindow
    <3>1. net' = [[net EXCEPT !.stalled = FALSE] EXCEPT !.active = TRUE]
      BY <2>1 DEF ReadWindow
    <3>2. Like([net EXCEPT !.stalled = FALSE], net)
      BY <1>1, LikeSet
    <3> QED BY <3>1, <3>2, LikeSet
  <2>2. CASE PeerClose
    <3>1. net' = [[net EXCEPT !.eof = TRUE] EXCEPT !.active = TRUE]
      BY <2>2 DEF PeerClose
    <3>2. Like([net EXCEPT !.eof = TRUE], net)
      BY <1>1, LikeSet
    <3> QED BY <3>1, <3>2, LikeSet
  <2>3. CASE Writable
    <3>1. net' = [[net EXCEPT !.blocked = FALSE] EXCEPT !.active = TRUE]
      BY <2>3 DEF Writable
    <3>2. Like([net EXCEPT !.blocked = FALSE], net)
      BY <1>1, LikeSet
    <3> QED BY <3>1, <3>2, LikeSet
  <2>4. CASE Hangup
    <3> DEFINE f == [net EXCEPT !.eof = net.eof \/ "read" \in net.mask]
               g == [f EXCEPT !.blocked = FALSE]
    <3>1. net' = [g EXCEPT !.active = TRUE]
      BY <2>4 DEF Hangup
    <3>2. Like(f, net)
      <4>1. PICK b \in BOOLEAN : f = [net EXCEPT !.eof = b]
        OBVIOUS
      <4> HIDE DEF f
      <4> QED BY <1>1, <4>1, LikeSet
    <3> HIDE DEF f
    <3>3. Like(g, net)
      BY <3>2, LikeSet
    <3> HIDE DEF g
    <3> QED BY <3>1, <3>3, LikeSet
  <2>5. CASE NetTimeout
    <3>1. net' = [[net EXCEPT !.timer = TRUE] EXCEPT !.closed = TRUE]
      BY <2>5 DEF NetTimeout
    <3>2. Like([net EXCEPT !.timer = TRUE], net)
      BY <1>1, LikeSet
    <3> QED BY <3>1, <3>2, LikeSet
  <2>6. CASE Recall
    <3>1. net' = [[net EXCEPT !.recall = FALSE] EXCEPT !.active = TRUE]
      BY <2>6 DEF Recall
    <3>2. Like([net EXCEPT !.recall = FALSE], net)
      BY <1>1, LikeSet
    <3> QED BY <3>1, <3>2, LikeSet
  <2> QED BY <2>1, <2>2, <2>3, <2>4, <2>5, <2>6
<1>3. todo' \in Seq(EventCalls)
  <2>1. IOEvent(<<>>) \/ todo' = <<Call("Enable", 1, 0)>>
    BY DEF ReadWindow, PeerClose, Writable, Hangup, NetTimeout, Recall
  <2>2. <<Call("Enable", 1, 0)>> \in Seq(EventCalls)
    BY One, EventCall, EventOps
  <2>3. IOEvent(<<>>) => todo' \in Seq(EventCalls)
    BY EventNone, EventService
  <2> QED BY <2>1, <2>2, <2>3
<1>4. Types'
  BY <1>1, <1>2 DEF Types, Like
<1> QED BY <1>1, <1>2, <1>3, <1>4, EventKeeps

\* Events that change nothing of a stream that the invariant speaks of
LEMMA StreamEventKeeps ==
  ASSUME IInv, Quiet, stream' \in [Streams -> StreamType], Core(stream', stream), rx' \in [Streams -> RxType],
         tx' \in [Streams -> TxType], seen' \in [Streams -> SeenType], faults' \in Nat, active' = active,
         todo' \in Seq(EventCalls), Activate \/ net' = net \/ net' = [net EXCEPT !.recall = TRUE]
  PROVE  IInv'
<1>1. Types /\ todo = <<>> /\ Like(net, net)
  BY Quietly
<1>2. Like(net', net)
  <2>1. CASE Activate
    BY <1>1, <2>1, LikeSet DEF Activate
  <2>2. CASE net' = net
    BY <1>1, <2>2
  <2>3. CASE net' = [net EXCEPT !.recall = TRUE]
    BY <1>1, <2>3, LikeSet
  <2> QED BY <2>1, <2>2, <2>3
<1>3. Types'
  BY <1>2 DEF Types, Like
<1> QED BY <1>1, <1>2, <1>3, EventKeeps DEF Core

LEMMA SameCore == Core(stream, stream)
BY DEF Core

\* The requests that come
LEMMA ReadKeeps == ASSUME IInv, NEW s \in Streams, ReadBody \/ ReadHeaders(s) \/ ReadData(s) \/ ReadReset(s)
PROVE  IInv'
<1>1. Quiet /\ Types
  <2>1. Quiet
    BY DEF ReadBody, ReadHeaders, ReadData, ReadReset, Readable
  <2> QED BY <2>1, Quietly
<1>2. /\ stream \in [Streams -> StreamType] /\ rx \in [Streams -> RxType] /\ tx \in [Streams -> TxType]
      /\ seen \in [Streams -> SeenType] /\ faults \in Nat
  BY <1>1 DEF Types
<1>3. CASE ReadBody
  <2>1. Activate /\ UNCHANGED <<tx, active, seen>>
    BY <1>3 DEF ReadBody
  <2>2. CASE /\ rx' = [rx EXCEPT ![1].more = FALSE]
             /\ \E extra \in BOOLEAN : Fault(extra) /\ stream' = [stream EXCEPT ![1].keep = IF extra THEN 0 ELSE @]
             /\ IOEvent(<<Call("InputEnd", 1, 0)>>)
    <3>1. rx' \in [Streams -> RxType]
      BY <1>2, <2>2, One, RxSet
    <3>2. PICK extra \in BOOLEAN : Fault(extra) /\ stream' = [stream EXCEPT ![1].keep = IF extra THEN 0 ELSE @]
      BY <2>2
    <3>3. PICK v \in 0..KeepAlive : stream' = [stream EXCEPT ![1].keep = v]
      <4>1. 0 \in 0..KeepAlive /\ stream[1].keep \in 0..KeepAlive
        BY <1>2, One, StreamValue, KeepLess
      <4>2. CASE extra
        BY <3>2, <4>1, <4>2
      <4>3. CASE ~extra
        BY <3>2, <4>1, <4>3
      <4> QED BY <4>2, <4>3
    <3>4. stream' \in [Streams -> StreamType] /\ Core(stream', stream)
      BY <1>2, <3>3, One, StreamValue, CoreSet
    <3>5. faults' \in Nat
      BY <1>1, <3>2, FaultType
    <3>6. <<Call("InputEnd", 1, 0)>> \in Seq(EventCalls)
      BY One, EventCall, EventOps
    <3>7. todo' \in Seq(EventCalls)
      BY <2>2, <3>6, EventService
    <3> QED BY <1>1, <1>2, <2>1, <3>1, <3>4, <3>5, <3>7, StreamEventKeeps
  <2>3. CASE Fault(TRUE) /\ IOEvent(Error(1, Close)) /\ UNCHANGED <<stream, rx>>
    <3>1. faults' \in Nat
      BY <1>1, <2>3, FaultType
    <3>2. todo' \in Seq(EventCalls)
      BY <2>3, One, EventError, EventService
    <3> QED BY <1>1, <1>2, <2>1, <2>3, <3>1, <3>2, SameCore, StreamEventKeeps
  <2> QED BY <1>3, <2>2, <2>3 DEF ReadBody
<1>4. CASE ReadHeaders(s)
  <2>1. Activate /\ UNCHANGED <<rx, tx, active, seen>> /\ ~Http1
    BY <1>4 DEF ReadHeaders
  <2>2. PICK last \in BOOLEAN, rejected \in BOOLEAN :
          /\ Fault(rejected)
          /\ stream' = [stream EXCEPT ![s].h2 = IF last THEN "remote" ELSE "open", ![s].error = rejected]
          /\ IOEvent(SetTo(s, Begin)
                     \o (IF rejected THEN <<Call("SendReset", s, 0)>>
                         ELSE When(last, <<Call("InputEnd", s, 0)>>) \o SetTo(s, Parsed))
                     \o <<Call("Service", s, 0), Call("FrameDone", s, 0)>>)
    BY <1>4 DEF ReadHeaders
  <2>3. faults' \in Nat
    BY <1>1, <2>2, FaultType
  <2>4. stream' \in [Streams -> StreamType] /\ Core(stream', stream)
    <3> DEFINE h == IF last THEN "remote" ELSE "open"
               f == [stream EXCEPT ![s].h2 = h]
               g == [f EXCEPT ![s].error = rejected]
    <3>1. h \in H2States
      BY DEF H2States
    <3>2. stream' = g
      BY <2>2
    <3> HIDE DEF h
    <3>3. f \in [Streams -> StreamType] /\ Core(f, stream)
      BY <1>2, <3>1, StreamValue, CoreSet
    <3> HIDE DEF f
    <3>4. g \in [Streams -> StreamType] /\ Core(g, f)
      BY <3>3, StreamSet, CoreSet
    <3>5. Core(g, stream)
      BY <3>3, <3>4, CoreSame
    <3> HIDE DEF g
    <3> QED BY <3>2, <3>4, <3>5
  <2>5. todo' \in Seq(EventCalls)
    <3> DEFINE a == <<Call("SendReset", s, 0)>>
               b == When(last, <<Call("InputEnd", s, 0)>>)
               c == <<Call("Service", s, 0), Call("FrameDone", s, 0)>>
               d == IF rejected THEN a ELSE b \o SetTo(s, Parsed)
    <3>1. a \in Seq(EventCalls) /\ b \in Seq(EventCalls) /\ c \in Seq(EventCalls)
          /\ SetTo(s, Begin) \in Seq(EventCalls) /\ SetTo(s, Parsed) \in Seq(EventCalls)
      <4>1. a \in Seq(EventCalls) /\ <<Call("InputEnd", s, 0)>> \in Seq(EventCalls)
        BY EventCall, EventOps
      <4>2. b \in Seq(EventCalls)
        BY <4>1, EventWhen
      <4> QED BY <2>1, <4>1, <4>2, EventFrame, EventSet
    <3>2. IOEvent(SetTo(s, Begin) \o d \o c)
      BY <2>2
    <3> HIDE DEF a, b, c
    <3>3. d \in Seq(EventCalls)
      BY <3>1, EventConcat
    <3> HIDE DEF d
    <3>4. SetTo(s, Begin) \o d \o c \in Seq(EventCalls)
      BY <3>1, <3>3, EventConcat
    <3> QED BY <3>2, <3>4, EventService
  <2> QED BY <1>1, <1>2, <2>1, <2>3, <2>4, <2>5, StreamEventKeeps
<1>5. CASE ReadData(s)
  <2>1. Activate /\ UNCHANGED <<rx, tx, active, seen>> /\ ~Http1
        /\ stream' = [stream EXCEPT ![s].h2 = IF @ = "open" THEN "remote" ELSE "closed"]
    BY <1>5 DEF ReadData
  <2>2. PICK ok \in BOOLEAN : /\ Fault(~ok)
                              /\ IOEvent((IF ok THEN <<Call("InputEnd", s, 0)>> ELSE Error(s, Close))
                                         \o <<Call("Service", s, 0), Call("FrameDone", s, 0)>>)
    BY <1>5 DEF ReadData
  <2>3. faults' \in Nat
    BY <1>1, <2>2, FaultType
  <2>4. stream' \in [Streams -> StreamType] /\ Core(stream', stream)
    <3>1. PICK v \in H2States : stream' = [stream EXCEPT ![s].h2 = v]
      <4>1. CASE stream[s].h2 = "open"
        BY <2>1, <4>1, "remote" \in H2States DEF H2States
      <4>2. CASE stream[s].h2 # "open"
        BY <2>1, <4>2, "closed" \in H2States DEF H2States
      <4> QED BY <4>1, <4>2
    <3> QED BY <1>2, <3>1, StreamValue, CoreSet
  <2>5. todo' \in Seq(EventCalls)
    <3> DEFINE a == IF ok THEN <<Call("InputEnd", s, 0)>> ELSE Error(s, Close)
               c == <<Call("Service", s, 0), Call("FrameDone", s, 0)>>
    <3>1. a \in Seq(EventCalls) /\ c \in Seq(EventCalls)
      BY <2>1, EventCall, EventOps, EventFrame, EventError
    <3>2. IOEvent(a \o c)
      BY <2>2
    <3> HIDE DEF a, c
    <3> QED BY <3>1, <3>2, EventConcat, EventService
  <2> QED BY <1>1, <1>2, <2>1, <2>3, <2>4, <2>5, StreamEventKeeps
<1>6. CASE ReadReset(s)
  <2>1. /\ Activate /\ UNCHANGED <<rx, tx, active, seen>> /\ ~Http1 /\ Fault(TRUE)
        /\ stream' = [stream EXCEPT ![s].h2 = IF @ = "error" THEN @ ELSE "closed"]
        /\ IOEvent(<<Call("Service", s, 0), Call("FrameDone", s, 0)>>)
    BY <1>6 DEF ReadReset
  <2>2. faults' \in Nat
    BY <1>1, <2>1, FaultType
  <2>3. stream' \in [Streams -> StreamType] /\ Core(stream', stream)
    <3>1. PICK v \in H2States : stream' = [stream EXCEPT ![s].h2 = v]
      <4>1. CASE stream[s].h2 = "error"
        BY <2>1, <4>1, "error" \in H2States DEF H2States
      <4>2. CASE stream[s].h2 # "error"
        BY <2>1, <4>2, "closed" \in H2States DEF H2States
      <4> QED BY <4>1, <4>2
    <3> QED BY <1>2, <3>1, StreamValue, CoreSet
  <2>4. todo' \in Seq(EventCalls)
    BY <2>1, EventFrame, EventService
  <2> QED BY <1>1, <1>2, <2>1, <2>2, <2>3, <2>4, StreamEventKeeps
<1> QED BY <1>3, <1>4, <1>5, <1>6

\* A header of HTTP/1: the stream may be used again for the next request.
LEMMA ReadHeaderKeeps == ASSUME IInv, ReadHeader
PROVE  IInv'
<1>1. Quiet /\ Http1 /\ UNCHANGED <<active, faults>>
  BY DEF ReadHeader, Readable
<1>2. Types /\ todo = <<>> /\ ~net.destroyed /\ Like(net, net)
  BY <1>1, Quietly
<1>3. /\ stream \in [Streams -> StreamType] /\ rx \in [Streams -> RxType] /\ tx \in [Streams -> TxType]
      /\ seen \in [Streams -> SeenType] /\ faults \in Nat
  BY <1>2 DEF Types
<1>4. SetTo(1, Begin) \in Seq(EventCalls) /\ <<Call("Line", 1, 0)>> \in Seq(EventCalls)
  BY One, EventSet, EventCall, EventOps
<1>5. CASE /\ IOEvent(When(stream[1].state = 0, SetTo(1, Begin)) \o <<Call("Line", 1, 0)>>)
           /\ Activate /\ UNCHANGED <<stream, rx, tx, seen>>
  <2>1. When(stream[1].state = 0, SetTo(1, Begin)) \in Seq(EventCalls)
    BY <1>4, EventNone DEF When
  <2>2. todo' \in Seq(EventCalls)
    BY <1>4, <1>5, <2>1, EventConcat, EventService
  <2> QED BY <1>1, <1>3, <1>5, <2>2, SameCore, StreamEventKeeps
<1>6. CASE /\ net' = [net EXCEPT !.error = TRUE, !.active = TRUE]
           /\ IOEvent(<<>>) /\ UNCHANGED <<stream, rx, tx, seen>>
  <2>1. Like(net', net)
    <3>1. Like([net EXCEPT !.error = TRUE], net)
      BY <1>2, LikeSet
    <3>2. net' = [[net EXCEPT !.error = TRUE] EXCEPT !.active = TRUE]
      BY <1>6
    <3> QED BY <3>1, <3>2, LikeSet
  <2>2. todo' \in Seq(EventCalls)
    BY <1>6, EventNone, EventService
  <2>3. Types'
    BY <1>1, <1>3, <1>6, <2>1 DEF Types, Like
  <2> QED BY <1>1, <1>2, <1>6, <2>1, <2>2, <2>3, EventKeeps
<1>7. CASE /\ stream[1].state = Complete
           /\ stream' = [stream EXCEPT ![1].state = 0, ![1].target = 0, ![1].error = FALSE, ![1].completed = FALSE,
                                       ![1].timer = "none"]
           /\ rx' = [rx EXCEPT ![1] = FreshRx(1)]
           /\ tx' = [tx EXCEPT ![1] = FreshTx]
           /\ seen' = [seen EXCEPT ![1] = Unseen]
           /\ IOEvent(SetTo(1, Begin) \o <<Call("Line", 1, 0)>>) /\ Activate
  <2>1. PICK t \in Streams : t = 1
    BY One
  <2>2. Changed(stream', t, 0, 0, stream[t].counted, stream[t].destroyed)
    <3> DEFINE f == [stream EXCEPT ![t].state = 0]
               g == [f EXCEPT ![t].target = 0]
               h == [g EXCEPT ![t].error = FALSE]
               k == [h EXCEPT ![t].completed = FALSE]
               m == [k EXCEPT ![t].timer = "none"]
    <3>1. Changed(stream, t, stream[t].state, stream[t].target, stream[t].counted, stream[t].destroyed)
      BY <1>2, ChangedNot
    <3>2. Changed(f, t, 0, stream[t].target, stream[t].counted, stream[t].destroyed)
      BY <3>1, 0 \in 0..9, ChangedState
    <3> HIDE DEF f
    <3>3. Changed(g, t, 0, 0, stream[t].counted, stream[t].destroyed)
      BY <3>2, 0 \in 0..9, ChangedTarget
    <3>4. g \in [Streams -> StreamType]
      BY <3>3 DEF Changed
    <3> HIDE DEF g
    <3>5. h \in [Streams -> StreamType] /\ Core(h, g)
      BY <3>4, StreamSet, CoreSet
    <3>6. Changed(h, t, 0, 0, stream[t].counted, stream[t].destroyed)
      BY <3>3, <3>5, ChangedCore
    <3> HIDE DEF h
    <3>7. k \in [Streams -> StreamType] /\ Core(k, h)
      BY <3>5, StreamSet, CoreSet
    <3>8. Changed(k, t, 0, 0, stream[t].counted, stream[t].destroyed)
      BY <3>6, <3>7, ChangedCore
    <3> HIDE DEF k
    <3>9. m \in [Streams -> StreamType] /\ Core(m, k)
      BY <3>7, StreamValue, CoreSet
    <3>10. Changed(m, t, 0, 0, stream[t].counted, stream[t].destroyed)
      BY <3>8, <3>9, ChangedCore
    <3> USE DEF f, g, h, k
    <3>11. stream' = m
      BY <1>7, <2>1
    <3> HIDE DEF m
    <3> QED BY <3>10, <3>11
  <2>3. rx' \in [Streams -> RxType] /\ tx' \in [Streams -> TxType] /\ seen' \in [Streams -> SeenType]
    <3>1. FreshRx(1) \in RxType
      BY DEF FreshRx, RxType
    <3>2. FreshTx \in TxType
      BY DEF FreshTx, TxType
    <3>3. Unseen \in SeenType
      BY DEF Unseen, SeenType
    <3> QED BY <1>3, <1>7, <3>1, <3>2, <3>3
  <2>4. Like(net', net)
    BY <1>2, <1>7, LikeSet DEF Activate
  <2>5. Types'
    BY <1>1, <1>3, <2>2, <2>3, <2>4 DEF Types, Like, Changed
  <2>6. todo' \in Seq(EventCalls)
    BY <1>4, <1>7, EventConcat, EventService
  <2> QED BY <1>1, <1>2, <1>7, <2>1, <2>2, <2>4, <2>5, <2>6, EventKeeps DEF Changed
<1> QED BY <1>5, <1>6, <1>7 DEF ReadHeader

\* Timeouts of a request
LEMMA TimerKeeps == ASSUME IInv, NEW s \in Streams, HttpTimer(s) \/ StreamTimeout(s)
PROVE  IInv'
<1>1. Quiet /\ Types /\ todo = <<>> /\ UNCHANGED <<net, rx, tx, active>>
  <2>1. Quiet
    BY DEF HttpTimer, StreamTimeout
  <2> QED BY <2>1, Quietly DEF HttpTimer, StreamTimeout
<1>2. /\ stream \in [Streams -> StreamType] /\ rx \in [Streams -> RxType] /\ tx \in [Streams -> TxType]
      /\ seen \in [Streams -> SeenType] /\ faults \in Nat
  BY <1>1 DEF Types
<1>3. CASE HttpTimer(s)
  <2>1. stream' = [stream EXCEPT ![s].timer = "queued"] /\ Fault(TRUE) /\ UNCHANGED <<todo, seen>>
    BY <1>3 DEF HttpTimer
  <2>2. faults' \in Nat
    BY <1>1, <2>1, FaultType
  <2>3. stream' \in [Streams -> StreamType] /\ Core(stream', stream)
    BY <1>2, <2>1, StreamValue, CoreSet
  <2> QED BY <1>1, <1>2, <2>1, <2>2, <2>3, EventNone, StreamEventKeeps
<1>4. CASE StreamTimeout(s)
  <2>1. /\ stream' = [stream EXCEPT ![s].timer = "fired"] /\ UNCHANGED faults
        /\ seen' = [seen EXCEPT ![s].late = TRUE]
        /\ \/ todo' = <<>>
           \/ todo' = <<Call("Disconnect", s, 0)>>
           \/ todo' = Error(s, Close)
           \/ todo' = Error(s, Soft)
    BY <1>4 DEF StreamTimeout
  <2>2. stream' \in [Streams -> StreamType] /\ Core(stream', stream)
    BY <1>2, <2>1, StreamValue, CoreSet
  <2>3. seen' \in [Streams -> SeenType]
    BY <1>2, <2>1 DEF SeenType
  <2>4. todo' \in Seq(EventCalls)
    <3>1. <<Call("Disconnect", s, 0)>> \in Seq(EventCalls) /\ <<>> \in Seq(EventCalls)
      BY EventNone, EventCall, EventOps
    <3>2. Error(s, Close) \in Seq(EventCalls) /\ Error(s, Soft) \in Seq(EventCalls)
      BY EventError
    <3> HIDE DEF EventCalls
    <3> QED BY <2>1, <3>1, <3>2
  <2> QED BY <1>1, <1>2, <2>1, <2>2, <2>3, <2>4, StreamEventKeeps
<1> QED BY <1>3, <1>4

\* The program that answers a request
LEMMA CgiKeeps == ASSUME IInv, NEW s \in Streams, CgiOutput(s) \/ CgiEnd(s)
PROVE  IInv'
<1>1. Quiet /\ Types /\ UNCHANGED <<rx, active, seen>>
  <2>1. Quiet
    BY DEF CgiOutput, CgiEnd
  <2> QED BY <2>1, Quietly DEF CgiOutput, CgiEnd
<1>2. /\ stream \in [Streams -> StreamType] /\ rx \in [Streams -> RxType] /\ tx \in [Streams -> TxType]
      /\ seen \in [Streams -> SeenType] /\ faults \in Nat
  BY <1>1 DEF Types
<1>3. ASSUME NEW x \in Seq(EventCalls), CgiCall(x)
      PROVE  todo' \in Seq(EventCalls) /\ net' = [net EXCEPT !.recall = TRUE]
  <2>1. <<Call("Service", 1, 0)>> \in Seq(EventCalls)
    BY One, EventCall, EventOps
  <2> QED BY <1>3, <2>1, EventConcat DEF CgiCall
<1>4. <<Call("Finalize", s, 0)>> \in Seq(EventCalls)
  BY EventCall, EventOps
<1>5. CASE /\ tx' = [tx EXCEPT ![s].headers = TRUE] /\ stream' = Spend(s)
           /\ CgiCall(<<>>) /\ UNCHANGED faults
  <2>1. tx' \in [Streams -> TxType]
    BY <1>2, <1>5, TxSet
  <2>2. stream' \in [Streams -> StreamType] /\ Core(stream', stream)
    BY <1>1, <1>5, SpendType
  <2>3. todo' \in Seq(EventCalls) /\ net' = [net EXCEPT !.recall = TRUE]
    BY <1>3, <1>5, EventNone
  <2> QED BY <1>1, <1>2, <1>5, <2>1, <2>2, <2>3, StreamEventKeeps
<1>6. CASE CgiCall(<<Call("Finalize", s, 0)>>) /\ UNCHANGED <<stream, tx, faults>>
  <2>1. todo' \in Seq(EventCalls) /\ net' = [net EXCEPT !.recall = TRUE]
    BY <1>3, <1>4, <1>6
  <2> QED BY <1>1, <1>2, <1>6, <2>1, SameCore, StreamEventKeeps
<1>7. CASE CgiEnd(s)
  <2>1. tx' = [tx EXCEPT ![s].working = FALSE] /\ UNCHANGED stream
    BY <1>7 DEF CgiEnd
  <2>2. PICK ok \in BOOLEAN : Fault(~ok) /\ CgiCall(When(~ok, Error(s, Soft)) \o <<Call("Finalize", s, 0)>>)
    BY <1>7 DEF CgiEnd
  <2>3. tx' \in [Streams -> TxType]
    BY <1>2, <2>1, TxSet
  <2>4. faults' \in Nat
    BY <1>1, <2>2, FaultType
  <2>5. When(~ok, Error(s, Soft)) \in Seq(EventCalls)
    BY EventError, EventWhen
  <2>6. todo' \in Seq(EventCalls) /\ net' = [net EXCEPT !.recall = TRUE]
    BY <1>3, <1>4, <2>2, <2>5, EventConcat
  <2> QED BY <1>1, <1>2, <2>1, <2>3, <2>4, <2>6, SameCore, StreamEventKeeps
<1> QED BY <1>5, <1>6, <1>7 DEF CgiOutput

-----------------------------------------------------------------------------
(* The theorems *)

LEMMA InitHolds == ASSUME Init
PROVE  IInv
<1>1. PICK proto \in Protocols :
        /\ net = [proto |-> proto, eof |-> FALSE, error |-> FALSE, active |-> FALSE, mask |-> {"read"},
                  closed |-> FALSE, blocked |-> FALSE, stalled |-> FALSE, goaway |-> FALSE, timer |-> FALSE,
                  recall |-> FALSE, destroyed |-> FALSE]
        /\ stream = [s \in Streams |-> FreshStream(IF proto = 1 THEN KeepAlive ELSE 0)]
        /\ rx = [s \in Streams |-> FreshRx(proto)]
  BY DEF Init
<1>2. /\ tx = [s \in Streams |-> FreshTx] /\ active = 0 /\ todo = <<>> /\ faults = 0
      /\ seen = [s \in Streams |-> Unseen]
  BY DEF Init
<1>3. net \in NetType
  BY <1>1, RequestAssumption DEF NetType
<1>4. stream \in [Streams -> StreamType]
  <2>1. \A k \in 0..KeepAlive : FreshStream(k) \in StreamType
    BY DEF FreshStream, StreamType
  <2>2. (IF proto = 1 THEN KeepAlive ELSE 0) \in 0..KeepAlive
    BY RequestAssumption
  <2> QED BY <1>1, <2>1, <2>2
<1>5. rx \in [Streams -> RxType] /\ tx \in [Streams -> TxType] /\ seen \in [Streams -> SeenType]
  <2>1. FreshRx(proto) \in RxType
    BY DEF FreshRx, RxType
  <2>2. FreshTx \in TxType
    BY DEF FreshTx, TxType
  <2>3. Unseen \in SeenType
    BY DEF Unseen, SeenType
  <2> QED BY <1>1, <1>2, <2>1, <2>2, <2>3
<1>6. TypeOK
  BY <1>2, <1>3, <1>4, <1>5 DEF TypeOK
<1>7. \A s \in Streams : /\ stream[s].state = 0 /\ stream[s].target = 0 /\ ~stream[s].counted /\ ~stream[s].destroyed
  BY <1>1 DEF FreshStream
<1>8. Counting
  <2>1. {s \in Streams : stream[s].counted} = {}
    BY <1>7
  <2> QED BY <1>2, <2>1, FS_EmptySet DEF Counting
<1>9. \A s \in Streams : StreamOK(s)
  BY <1>7 DEF StreamOK, First, Running, Complete
<1>10. \A i \in 1..Len(todo) : CallOK(i)
  BY <1>2
<1> QED BY <1>6, <1>8, <1>9, <1>10 DEF IInv

LEMMA NextKeeps == ASSUME IInv, [Next]_vars
PROVE  IInv'
<1>1. CASE Step
  BY <1>1, PlainKeeps, ProcessPlain, ErrorPlain, FinishPlain, HandlerPlain, QueuePlain, NetPlain, SetStateKeeps,
     UpdateKeeps, ProcessFinalizedKeeps, DestroyStreamKeeps, ServiceEndKeeps, CloseStreamKeeps, AbandonKeeps,
     DestroyNetKeeps, RemoveStreamKeeps, DestroyedKeeps, FrameKeeps DEF Step
<1>2. CASE Event
  BY <1>2, NetEventKeeps, ReadKeeps, One, ReadHeaderKeeps, TimerKeeps, CgiKeeps DEF Event
<1>3. CASE UNCHANGED vars
  BY SMTT(30), ZenonT(60), <1>3 DEF vars, IInv, TypeOK, Counting, StreamOK, CallOK, Ending, Leaving, Http1
<1> QED BY <1>1, <1>2, <1>3 DEF Next, Done

\* Whatever happens to the requests of a connection, the stack of calls and the states of its streams fit together:
\* no stream leaves the count but at its end, and none stays in it without a call that ends it.
\* (httpSetState, processFinalized, httpDestroyStream, httpDestroyNet)
THEOREM Inductive == Spec => []IInv
<1>1. Init => IInv
  BY InitHolds
<1>2. IInv /\ [Next]_vars => IInv'
  BY NextKeeps
<1> QED BY <1>1, <1>2, PTL DEF Spec

\* The records keep their types, for any number of streams, any limits and any faults.
THEOREM TypeCorrect == Spec => []TypeOK
<1>1. IInv => TypeOK
  BY DEF IInv
<1> QED BY <1>1, Inductive, PTL

LEMMA InvActive == ASSUME IInv
PROVE  ActiveExact
<1>1. active = Cardinality({s \in Streams : stream[s].counted})
  BY DEF IInv, Counting
<1>2. ASSUME NEW s \in Streams
      PROVE  /\ stream[s].state \in First..Running => stream[s].counted
             /\ stream[s].counted /\ Resting => stream[s].state \in First..Finalized
  <2>1. StreamOK(s) /\ stream[s].state \in 0..9
    BY DEF IInv, TypeOK, StreamType
  <2>2. Resting => ~Ending(0, s)
    BY DEF Resting, Ending
  <2> QED BY <2>1, <2>2 DEF StreamOK, First, Finalized, Complete, Running
<1> QED BY <1>1, <1>2 DEF ActiveExact

\* The counter of active requests is exact for any number of streams: each request that has its first line and has
\* not ended counts once, and no other. (processFirst, processFinalized, httpDestroyStream)
THEOREM CountExact == Spec => []ActiveExact
<1>1. IInv => ActiveExact
  BY InvActive
<1> QED BY <1>1, Inductive, PTL
=============================================================================
