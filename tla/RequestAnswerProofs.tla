------------------------ MODULE RequestAnswerProofs -------------------------
(***************************************************************************)
(* Proofs about Request over HTTP/1: which calls wait on the stack of a    *)
(* connection with one stream, in which order, and why each of them is     *)
(* made.  With that a request is answered before its connection may be     *)
(* used again.                                                             *)
(***************************************************************************)
EXTENDS RequestVisitProofs

-----------------------------------------------------------------------------
(* The answer of HTTP/1: the calls of a connection with one stream *)

\* The calls that are made for every stream of a connection, used or not
FanOps == {"Fail", "Free", "PumpIn", "PumpFile", "PumpOut", "CloseStream", "RemoveStream"}

\* What only HTTP/2 calls
FilterOps == {"PumpFilter", "SendReset", "FrameDone", "FrameClosed"}

\* What is only called when the connection is lost
EndOps == {"Fail", "Free", "CloseStream", "Abandon", "DestroyNet", "RemoveStream", "DestroyStream", "Destroyed"}

\* Calls that are made at once: they are on top of the stack or nowhere.
AtOnce(c) ==
  \/ c.op = "SetState" /\ c.n = Finalized
  \/ c.op = "Error" /\ c.n = Soft
  \/ c.op = "Redirect"

\* httpServiceNet: it is not left before the output is on its way.
Serves(c) == c.op = "Service" /\ c.n = 0

\* May the call c be above the call d?
Above(c, d) ==
  /\ ~AtOnce(d)
  /\ c.op \in LoopOps => d.op # "Revert"
  /\ c.op \in PartOps => d.op # "Parsed"
  /\ c.op \in {"StartHandler", "ReadyHandler"} => d.op \notin {"Route", "Open"}
  /\ Serves(c) => d.op \in {"ServiceEnd", "Idle"}
Ordered(q) == \A i, j \in 1..Len(q) : i < j => Above(q[i], q[j])

Has(op) == \E i \in 1..Len(todo) : todo[i].op = op

\* A stream that HTTP/1 does not use
Unused(s) ==
  /\ stream[s].state = 0 /\ stream[s].timer = "none"
  /\ ~rx[s].queued /\ ~tx[s].file /\ ~tx[s].working /\ tx[s].end = "none" /\ tx[s].stale = "none"

\* The connection is lost, or about to be; and it may also be spent, because the response has not announced that it
\* stays open.
Hanging == Has("Hang") \/ Has("NetError") \/ Has("Disconnect")
Gone == net.error \/ net.eof \/ stream[1].disconnect \/ Hanging
Spent == Gone \/ stream[1].keep = 0

\* What holds of a call on the stack
Fits(c) ==
  /\ c.op \notin FilterOps /\ (c.s # 1 => c.op \in FanOps)
  /\ c.op = "Open" => rx[1].routed /\ ~tx[1].started
  /\ c.op = "Revert" => rx[1].routed /\ stream[1].setting
  /\ c.op = "Parsed" => ~rx[1].routed
  /\ c.op = "StartHandler" => rx[1].routed \/ Has("Route")
  /\ c.op \in EndOps \/ (c.op = "Error" /\ c.n \notin {Soft, Close}) => Gone

Fit == {c \in Calls : Fits(c)}

FirstInv ==
  Http1 =>
    /\ todo \in Seq(Fit)
    /\ Ordered(todo)
    /\ ~net.goaway /\ tx[1].end # "filter" /\ \A s \in Streams \ {1} : Unused(s)
    /\ stream[1].disconnect => net.error \/ Hanging \/ Has("AfterError")
    /\ IF rx[1].routed THEN stream[1].state >= Parsed /\ (tx[1].pipeline \/ Has("Open"))
       ELSE tx[1].handler = "none" /\ ~tx[1].pipeline /\ ~tx[1].started

\* Why a request has finished its output: it has failed, or its handler has done what it does
Acted == \/ tx[1].started /\ ~tx[1].file /\ tx[1].handler \in {"file", "cgi"}
         \/ tx[1].ready /\ tx[1].handler \in {"pass", "refuse"}
Cause == stream[1].error \/ (tx[1].pipeline /\ Acted)

\* A request that has queued its response does not get an error document.
Unanswered == stream[1].error \/ tx[1].headers \/ ~rx[1].routed \/ tx[1].end = "none"

Over == tx[1].finConn \/ tx[1].errdoc

Sound(c) ==
  /\ c.op = "FinalizeConnector" => tx[1].end = "sent"
  /\ ~(c.op = "SetState" /\ c.n = Complete)
  /\ c.op \in {"SetState", "Update"} /\ c.n = Finalized => Over
  /\ c.op = "Update" /\ c.n = Complete => tx[1].finConn
  /\ ~rx[1].errdoc =>
       /\ c.op \in {"Finalize", "FinalizeOutput"} => Cause
       /\ c.op = "Error" /\ c.n = Soft => Unanswered
       /\ c.op = "Redirect" => tx[1].end = "none" /\ ~tx[1].pending /\ stream[1].error

SoundCalls == {c \in Calls : Sound(c)}

Written ==
  /\ tx[1].finConn => tx[1].end = "sent"
  /\ tx[1].stale = "none" /\ tx[1].end \in {"none", "queued", "socket", "sent"}
  /\ tx[1].end \in {"socket", "sent"} => tx[1].headers

Going ==
  /\ stream[1].target >= Finalized => Over
  /\ stream[1].target = Complete => tx[1].finConn
  /\ stream[1].state = Finalized => Over
  /\ stream[1].state = Complete => tx[1].finConn

Original ==
  ~rx[1].errdoc =>
    /\ tx[1].end # "none" \/ tx[1].finOut => Cause
    /\ tx[1].pending => stream[1].error
    /\ tx[1].file => tx[1].started /\ (tx[1].handler = "file" \/ stream[1].error)
    /\ tx[1].working => tx[1].started /\ (tx[1].handler = "cgi" \/ stream[1].error)
    /\ tx[1].errdoc => tx[1].end = "none" /\ tx[1].finOut /\ ~tx[1].pending

Idles(c) == c.op \in {"ServiceEnd", "Enable", "Idle"} \/ (c.op = "Error" /\ c.n = Close)
Pumped ==
  \/ \E i \in 1..Len(todo) : Serves(todo[i])
  \/ tx[1].end # "queued" /\ \A i \in 1..Len(todo) : Idles(todo[i])

AnswerInv ==
  Http1 /\ ~Spent =>
    /\ todo \in Seq(SoundCalls)
    /\ Written /\ Going /\ Original /\ Pumped

DoneInv == Http1 /\ ~Gone /\ stream[1].completed => tx[1].end = "sent" /\ stream[1].state = Complete

-----------------------------------------------------------------------------
(* What is put on the stack, and in which order *)

\* The calls that the one on top may be above
Lower == {d \in Calls : Above(Head(todo), d)}

LEMMA OrderedCat == ASSUME NEW C, NEW D, NEW x \in Seq(C), NEW y \in Seq(D), Ordered(x), Ordered(y),
                           \A c \in C, d \in D : Above(c, d)
                    PROVE  Ordered(x \o y)
<1>1. Len(x) \in Nat /\ Len(y) \in Nat /\ Len(x \o y) = Len(x) + Len(y)
  OBVIOUS
<1>2. \A i \in 1..Len(x) : x[i] \in C /\ (x \o y)[i] = x[i]
  OBVIOUS
<1>3. \A i \in 1..Len(x \o y) : i > Len(x) => i - Len(x) \in 1..Len(y) /\ y[i - Len(x)] \in D /\ (x \o y)[i] = y[i - Len(x)]
  BY <1>1
<1> SUFFICES ASSUME NEW i \in 1..Len(x \o y), NEW j \in 1..Len(x \o y), i < j
             PROVE  Above((x \o y)[i], (x \o y)[j])
  BY DEF Ordered
<1>4. CASE j <= Len(x)
  <2>1. i \in 1..Len(x) /\ j \in 1..Len(x)
    BY <1>1, <1>4
  <2> QED BY <1>2, <2>1 DEF Ordered
<1>5. CASE i > Len(x)
  <2>1. j > Len(x) /\ i - Len(x) < j - Len(x)
    BY <1>1, <1>5
  <2> QED BY <1>3, <1>5, <2>1 DEF Ordered
<1>6. CASE i <= Len(x) /\ j > Len(x)
  <2>1. i \in 1..Len(x)
    BY <1>1, <1>6
  <2> QED BY <1>2, <1>3, <1>6, <2>1
<1> QED BY <1>1, <1>4, <1>5, <1>6

LEMMA InSeq == ASSUME NEW D, NEW q \in Seq(D), NEW C, \A i \in 1..Len(q) : q[i] \in C
               PROVE  q \in Seq(C)
OBVIOUS

LEMMA OrderedFew == /\ Ordered(<<>>)
                    /\ \A c : Ordered(<<c>>)
                    /\ \A c, d : Above(c, d) => Ordered(<<c, d>>)
<1>1. Len(<<>>) = 0
  OBVIOUS
<1>2. ASSUME NEW c PROVE Ordered(<<c>>)
  <2>1. Len(<<c>>) = 1
    OBVIOUS
  <2> QED BY <2>1 DEF Ordered
<1>3. ASSUME NEW c, NEW d, Above(c, d) PROVE Ordered(<<c, d>>)
  <2>1. Len(<<c, d>>) = 2 /\ <<c, d>>[1] = c /\ <<c, d>>[2] = d
    OBVIOUS
  <2>2. \A i, j \in 1..2 : i < j => i = 1 /\ j = 2
    OBVIOUS
  <2> QED BY <1>3, <2>1, <2>2 DEF Ordered
<1> QED BY <1>1, <1>2, <1>3 DEF Ordered

\* What is under the top
LEMMA Underneath == ASSUME TypeOK, todo # <<>>, Ordered(todo), NEW C, todo \in Seq(C)
                    PROVE  /\ Tail(todo) \in Seq(C \cap Lower) /\ Ordered(Tail(todo))
                           /\ Head(todo) \in C /\ Head(todo) \in Calls /\ todo = <<Head(todo)>> \o Tail(todo)
<1>1. /\ todo \in Seq(Calls) /\ Len(todo) \in Nat /\ Len(todo) > 0 /\ Head(todo) = todo[1]
      /\ Len(Tail(todo)) = Len(todo) - 1 /\ \A i \in 1..(Len(todo) - 1) : Tail(todo)[i] = todo[i + 1]
  BY DEF TypeOK
<1>2. \A i \in 1..(Len(todo) - 1) : i + 1 \in 1..Len(todo) /\ 1 < i + 1 /\ 1 \in 1..Len(todo)
  BY <1>1
<1>3. \A i \in 1..(Len(todo) - 1) : Tail(todo)[i] \in C \cap Lower
  BY <1>1, <1>2 DEF Lower, Ordered
<1>4. Tail(todo) \in Seq(C \cap Lower)
  <2>1. Tail(todo) \in Seq(Calls) /\ \A i \in 1..Len(Tail(todo)) : Tail(todo)[i] \in C \cap Lower
    BY <1>1, <1>3
  <2> QED BY <2>1, InSeq
<1>5. Ordered(Tail(todo))
  <2>1. \A i, j \in 1..(Len(todo) - 1) : i < j => i + 1 < j + 1
    OBVIOUS
  <2> QED BY <1>1, <1>2, <2>1 DEF Ordered
<1>6. Head(todo) \in C /\ Head(todo) \in Calls /\ todo = <<Head(todo)>> \o Tail(todo)
  BY <1>1
<1> QED BY <1>4, <1>5, <1>6

LEMMA HasKept == ASSUME TypeOK, todo # <<>>, NEW x \in Seq(Calls), Then(x)
                 PROVE  /\ \A op : Has(op) /\ Head(todo).op # op => Has(op)'
                        /\ \A i \in 1..Len(x) : Has(x[i].op)'
<1>1. /\ Len(todo) \in Nat /\ Len(todo) > 0 /\ Len(x) \in Nat
      /\ \A i \in 1..Len(x) : i \in 1..Len(todo') /\ todo'[i] = x[i]
      /\ \A i \in 2..Len(todo) : (i - 1 + Len(x)) \in 1..Len(todo') /\ todo'[i - 1 + Len(x)] = todo[i]
      /\ todo[1] = Head(todo)
  BY Pushed
<1>2. ASSUME NEW op, Has(op), Head(todo).op # op
      PROVE  Has(op)'
  <2>1. PICK i \in 1..Len(todo) : todo[i].op = op
    BY <1>2 DEF Has
  <2>2. i \in 2..Len(todo)
    BY <1>1, <1>2, <2>1
  <2> QED BY <1>1, <2>1, <2>2 DEF Has
<1>3. \A i \in 1..Len(x) : Has(x[i].op)'
  BY <1>1 DEF Has
<1> QED BY <1>2, <1>3

\* Calls that fit whenever they are made, above and below any others
Easy == {c \in Calls :
  /\ ~AtOnce(c) /\ ~Serves(c) /\ (c.op = "Error" => c.n = Close)
  /\ c.op \notin {"ReadyHandler", "Revert"} \cup LoopOps \cup PartOps \cup FilterOps \cup EndOps
  /\ c.s # 1 => c.op \in FanOps}

\* Those that fit when the connection is lost
Last == {c \in Calls :
  /\ c.op \in EndOps \/ (c.op = "Error" /\ c.n \in {Abort, Silent})
  /\ c.s # 1 => c.op \in FanOps}

\* Those that fit on top of the stack
Tops == {c \in Calls : AtOnce(c) /\ c.s = 1}

LEMMA EasyAbove == ASSUME NEW c \in Easy \cup Last, NEW d \in Calls, ~AtOnce(d)
                   PROVE  Above(c, d)
BY DEF Easy, Last, Above, EndOps, Serves, LoopOps, PartOps

LEMMA TopAbove == ASSUME NEW c \in Tops, NEW d \in Calls, ~AtOnce(d)
                  PROVE  Above(c, d)
BY DEF Tops, AtOnce, Above, EndOps, Serves, LoopOps, PartOps

LEMMA EasyDeep == ASSUME NEW c \in Easy \cup Last
                  PROVE  ~AtOnce(c) /\ c \in Calls
BY DEF Easy, Last, EndOps, AtOnce, Abort, Silent, Soft

LEMMA EasyOrdered == ASSUME NEW x \in Seq(Easy \cup Last) PROVE Ordered(x)
<1>1. \A i \in 1..Len(x) : x[i] \in Easy \cup Last
  OBVIOUS
<1> QED BY <1>1, EasyAbove, EasyDeep DEF Ordered

\* What a step may put on the stack
Light(x) == x \in Seq(Easy \cup Last) \/ \E c \in Tops, y \in Seq(Easy \cup Last) : x = <<c>> \o y

LEMMA LightOrdered == ASSUME NEW x, Light(x)
                      PROVE  Ordered(x)
<1>1. CASE x \in Seq(Easy \cup Last)
  BY <1>1, EasyOrdered
<1>2. CASE \E c \in Tops, y \in Seq(Easy \cup Last) : x = <<c>> \o y
  <2>1. PICK c \in Tops, y \in Seq(Easy \cup Last) : x = <<c>> \o y
    BY <1>2
  <2>2. Ordered(y) /\ Ordered(<<c>>) /\ <<c>> \in Seq(Tops)
    BY EasyOrdered, OrderedFew
  <2>3. \A a \in Tops, b \in Easy \cup Last : Above(a, b)
    BY TopAbove, EasyDeep
  <2> QED BY <2>1, <2>2, <2>3, OrderedCat
<1> QED BY <1>1, <1>2 DEF Light

LEMMA LightStack == ASSUME TypeOK, todo # <<>>, Ordered(todo), NEW x, Light(x), Then(x)
                    PROVE  Ordered(todo)'
<1>1. Ordered(x) /\ x \in Seq(Easy \cup Last \cup Tops)
  <2>1. \A y \in Seq(Easy \cup Last) : y \in Seq(Easy \cup Last \cup Tops)
    OBVIOUS
  <2>2. \A c \in Tops : <<c>> \in Seq(Easy \cup Last \cup Tops)
    OBVIOUS
  <2>3. \A y, z \in Seq(Easy \cup Last \cup Tops) : y \o z \in Seq(Easy \cup Last \cup Tops)
    OBVIOUS
  <2> QED BY <2>1, <2>2, <2>3, LightOrdered DEF Light
<1>2. todo \in Seq(Calls)
  BY DEF TypeOK
<1>3. Tail(todo) \in Seq(Calls \cap Lower) /\ Ordered(Tail(todo))
  BY <1>2, Underneath
<1>4. \A c \in Easy \cup Last \cup Tops, d \in Calls \cap Lower : Above(c, d)
  <2>1. \A d \in Calls \cap Lower : ~AtOnce(d)
    BY DEF Lower, Above
  <2> QED BY <2>1, EasyAbove, TopAbove
<1>5. Ordered(x \o Tail(todo))
  BY <1>1, <1>3, <1>4, OrderedCat
<1> QED BY <1>5 DEF Then, Ordered

\* Most of the calls of an HTTP/1 stream
EasyOps == {"Kick", "Headers", "AfterError", "Finalize", "FinalizeOutput", "FinalizeInput", "CheckFinalized", "SetFinalized",
            "FinalizeConnector", "Disconnect", "Hang", "NetError", "InputEnd", "Pending", "Filed", "Send",
            "ServiceEnd", "Idle", "Enable", "Line", "Fields"}

LEMMA EasyCalls ==
  /\ \A op \in EasyOps, n \in 0..9 : Call(op, 1, n) \in Easy
  /\ \A op \in {"PumpIn", "PumpFile", "PumpOut"}, s \in Streams, n \in 0..9 : Call(op, s, n) \in Easy
  /\ \A n \in (0..9) \ {Finalized} : Call("SetState", 1, n) \in Easy
  /\ Call("Error", 1, Close) \in Easy /\ Call("Service", 1, 1) \in Easy
  /\ \A op \in EndOps : Call(op, 1, 0) \in Last
  /\ \A op \in {"Fail", "Free", "CloseStream", "RemoveStream"}, s \in Streams : Call(op, s, 0) \in Last
  /\ Call("Error", 1, Abort) \in Last /\ Call("Error", 1, Silent) \in Last
  /\ Call("SetState", 1, Finalized) \in Tops /\ Call("Error", 1, Soft) \in Tops /\ Call("Redirect", 1, 0) \in Tops
<1>1. 1 \in Streams /\ 0 \in 0..9 /\ Close \in 0..9 /\ Abort \in 0..9 /\ Silent \in 0..9 /\ Soft \in 0..9 /\ Finalized \in 0..9
  BY One DEF Close, Abort, Silent, Soft, Finalized
<1>2. ASSUME NEW op \in Ops, NEW s \in Streams, NEW n \in 0..9
      PROVE  Call(op, s, n) \in Calls /\ Call(op, s, n).op = op /\ Call(op, s, n).s = s /\ Call(op, s, n).n = n
  BY CallType DEF Call
<1>3. \A op \in EasyOps :
         op \in Ops /\ op \notin {"SetState", "Error", "Redirect", "Service", "ReadyHandler", "Revert"}
                                 \cup LoopOps \cup PartOps \cup FilterOps \cup EndOps
  BY DEF Ops, LoopOps, PartOps, FilterOps, EndOps, EasyOps
<1>4. \A op \in {"PumpIn", "PumpFile", "PumpOut"} :
         /\ op \in Ops /\ op \notin {"SetState", "Error", "Redirect", "Service", "ReadyHandler", "Revert"}
                                   \cup LoopOps \cup PartOps \cup FilterOps \cup EndOps
         /\ op \in FanOps
  BY DEF Ops, LoopOps, PartOps, FilterOps, EndOps, FanOps
<1>5. \A op \in {"SetState", "Error", "Service", "Redirect"} :
         op \in Ops /\ op \notin {"ReadyHandler", "Revert"} \cup LoopOps \cup PartOps \cup FilterOps \cup EndOps
  BY DEF Ops, LoopOps, PartOps, FilterOps, EndOps
<1>6. \A op \in EndOps : op \in Ops
  BY DEF Ops, EndOps
<1>7. \A op \in {"Fail", "Free", "CloseStream", "RemoveStream"} : op \in EndOps /\ op \in FanOps
  BY DEF EndOps, FanOps
<1>8. \A c \in Calls : c.op \notin {"SetState", "Error", "Redirect", "Service"} => ~AtOnce(c) /\ ~Serves(c) /\ c.op # "Error"
  BY DEF AtOnce, Serves
<1>9. ASSUME NEW op \in EasyOps, NEW n \in 0..9
      PROVE  Call(op, 1, n) \in Easy
  <2>1. op \in Ops /\ op \notin {"SetState", "Error", "Redirect", "Service", "ReadyHandler", "Revert"}
                                  \cup LoopOps \cup PartOps \cup FilterOps \cup EndOps
    BY <1>3
  <2>2. PICK c \in Calls : c = Call(op, 1, n) /\ c.op = op /\ c.s = 1
    BY <1>1, <1>2, <2>1
  <2>3. ~AtOnce(c) /\ ~Serves(c) /\ c.op # "Error"
    BY <1>8, <2>1, <2>2
  <2> QED BY <2>1, <2>2, <2>3 DEF Easy
<1>10. ASSUME NEW op \in {"PumpIn", "PumpFile", "PumpOut"}, NEW s \in Streams, NEW n \in 0..9
       PROVE  Call(op, s, n) \in Easy
  BY <1>2, <1>4, <1>8 DEF Easy
<1>11. ASSUME NEW n \in (0..9) \ {Finalized} PROVE Call("SetState", 1, n) \in Easy
  BY <1>1, <1>2, <1>5 DEF Easy, AtOnce, Serves
<1>12. Call("Error", 1, Close) \in Easy
  <2>1. Close # Soft
    BY DEF Close, Soft
  <2> QED BY <1>1, <1>2, <1>5, <2>1 DEF Easy, AtOnce, Serves
<1>13. Call("Service", 1, 1) \in Easy
  BY <1>1, <1>2, <1>5 DEF Easy, AtOnce, Serves
<1>14. ASSUME NEW op \in EndOps PROVE Call(op, 1, 0) \in Last
  BY <1>1, <1>2, <1>6 DEF Last
<1>15. ASSUME NEW op \in {"Fail", "Free", "CloseStream", "RemoveStream"}, NEW s \in Streams PROVE Call(op, s, 0) \in Last
  BY <1>1, <1>2, <1>6, <1>7 DEF Last
<1>16. Call("Error", 1, Abort) \in Last /\ Call("Error", 1, Silent) \in Last
  BY <1>1, <1>2, <1>5 DEF Last
<1>17. Call("SetState", 1, Finalized) \in Tops /\ Call("Error", 1, Soft) \in Tops /\ Call("Redirect", 1, 0) \in Tops
  BY <1>1, <1>2, <1>5 DEF Tops, AtOnce
<1> QED BY <1>9, <1>10, <1>11, <1>12, <1>13, <1>14, <1>15, <1>16, <1>17

\* Sequences of them
LEMMA EasyJoin == /\ <<>> \in Seq(Easy) /\ \A c \in Easy : <<c>> \in Seq(Easy)
                  /\ \A x, y \in Seq(Easy) : x \o y \in Seq(Easy)
                  /\ \A b \in BOOLEAN, x \in Seq(Easy) : When(b, x) \in Seq(Easy)
                  /\ \A x \in Seq(Easy) : x \in Seq(Easy \cup Last)
                  /\ \A c \in Last : <<c>> \in Seq(Easy \cup Last)
                  /\ \A x, y \in Seq(Easy \cup Last) : x \o y \in Seq(Easy \cup Last)
                  /\ \A b \in BOOLEAN, x \in Seq(Easy \cup Last) : When(b, x) \in Seq(Easy \cup Last)
<1>1. /\ <<>> \in Seq(Easy) /\ \A c \in Easy : <<c>> \in Seq(Easy)
      /\ \A x, y \in Seq(Easy) : x \o y \in Seq(Easy)
  OBVIOUS
<1>2. /\ <<>> \in Seq(Easy \cup Last) /\ \A c \in Last : <<c>> \in Seq(Easy \cup Last)
      /\ \A x, y \in Seq(Easy \cup Last) : x \o y \in Seq(Easy \cup Last)
  OBVIOUS
<1>3. \A x \in Seq(Easy) : x \in Seq(Easy \cup Last)
  OBVIOUS
<1> QED BY <1>1, <1>2, <1>3 DEF When

LEMMA EasyForAll ==
  /\ ForAll("PumpIn") \in Seq(Easy) /\ ForAll("PumpFile") \in Seq(Easy)
  /\ [i \in Streams |-> Call("PumpOut", i, 1)] \in Seq(Easy)
  /\ ForAll("Fail") \in Seq(Easy \cup Last) /\ ForAll("Free") \in Seq(Easy \cup Last)
  /\ ForAll("CloseStream") \in Seq(Easy \cup Last) /\ ForAll("RemoveStream") \in Seq(Easy \cup Last)
<1>1. ASSUME NEW C, NEW f, f \in [Streams -> C]
      PROVE  f \in Seq(C)
  BY <1>1, RequestAssumption DEF Streams
<1>2. 0 \in 0..9 /\ 1 \in 0..9
  OBVIOUS
<1>3. /\ ForAll("PumpIn") \in [Streams -> Easy] /\ ForAll("PumpFile") \in [Streams -> Easy]
      /\ [i \in Streams |-> Call("PumpOut", i, 1)] \in [Streams -> Easy]
  BY <1>2, EasyCalls DEF ForAll
<1>4. /\ ForAll("Fail") \in [Streams -> Easy \cup Last] /\ ForAll("Free") \in [Streams -> Easy \cup Last]
      /\ ForAll("CloseStream") \in [Streams -> Easy \cup Last] /\ ForAll("RemoveStream") \in [Streams -> Easy \cup Last]
  BY EasyCalls DEF ForAll
<1> QED BY <1>1, <1>3, <1>4

-----------------------------------------------------------------------------
(* The end of the connection is for good. *)

LEMMA LostStep == ASSUME Step, NEW op \in {"Hang", "NetError", "Disconnect", "AfterError"}, Head(todo).op = op
PROVE  /\ op = "Hang" => Hang
       /\ op = "NetError" => NetError
       /\ op = "Disconnect" => Disconnect
       /\ op = "AfterError" => AfterError
<1>1. ~(\/ SetState \/ Update \/ Kick \/ ProcessFirst \/ ProcessHeaders \/ ProcessParsed \/ ProcessContent \/ InputEnd
        \/ ProcessReady \/ ProcessFinalized \/ RaiseError \/ Redirect \/ Fail \/ Finalize
        \/ FinalizeOutput \/ FinalizeInput \/ CheckFinalized \/ SetFinalized \/ FinalizeConnector)
  BY DEF Do, SetState, Update, Kick, ProcessFirst, ProcessHeaders, ProcessParsed, ProcessContent, InputEnd,
     ProcessReady, ProcessFinalized, RaiseError, Redirect, Fail, Finalize, FinalizeOutput,
     FinalizeInput, CheckFinalized, SetFinalized, FinalizeConnector
<1>2. ~(\/ DestroyStream \/ Route \/ Open \/ Revert \/ StartHandler \/ Pending \/ ReadyHandler
        \/ Service \/ PumpIn \/ PumpFile \/ Filed \/ PumpOut \/ PumpFilter \/ SendReset \/ Send \/ Free \/ CloseStream
        \/ Abandon \/ RemoveStream \/ ParseLine \/ ParseFields \/ FrameDone \/ FrameClosed)
  BY DEF Do, DestroyStream, Route, Open, Revert, StartHandler, Pending, ReadyHandler, Service,
     PumpIn, PumpFile, Filed, PumpOut, PumpFilter, SendReset, Send, Free, CloseStream, Abandon, RemoveStream,
     ParseLine, ParseFields, FrameDone, FrameClosed
<1>3. ~(ServiceEnd \/ DestroyNet \/ Destroyed \/ Enable \/ Idle)
  BY DEF Do, ServiceEnd, DestroyNet, Destroyed, Enable, Idle
<1>4. /\ Hang => op = "Hang"
      /\ NetError => op = "NetError"
      /\ Disconnect => op = "Disconnect"
      /\ AfterError => op = "AfterError"
  BY DEF Do, Hang, NetError, Disconnect, AfterError
<1> QED BY <1>1, <1>2, <1>3, <1>4 DEF Step

\* What a call for a stream leaves alone: the other streams
LEMMA Local == ASSUME TypeOK, Step, NEW s \in Streams \ {S}
PROVE  stream'[s] = stream[s] /\ rx'[s] = rx[s] /\ tx'[s] = tx[s]
<1>0. Types
  BY DEF TypeOK, Types
<1>1. CASE Kick \/ ProcessFirst \/ ProcessHeaders \/ ProcessParsed \/ ProcessContent \/ InputEnd \/ ProcessReady
  BY <1>0, <1>1 DEF Kick, ProcessFirst, ProcessHeaders, ProcessParsed, ProcessContent, InputEnd, ProcessReady, Types
<1>2. CASE ProcessFinalized \/ RaiseError \/ Redirect \/ AfterError \/ NetError \/ Fail
  BY <1>0, <1>2 DEF ProcessFinalized, RaiseError, Redirect, AfterError, NetError, Fail, Types
<1>3. CASE Finalize \/ FinalizeOutput \/ FinalizeInput \/ CheckFinalized \/ SetFinalized \/ FinalizeConnector
  BY <1>0, <1>3 DEF Finalize, FinalizeOutput, FinalizeInput, CheckFinalized, SetFinalized, FinalizeConnector, Types
<1>4. CASE Disconnect \/ Hang \/ DestroyStream \/ Route \/ Open \/ Revert
  BY <1>0, <1>4 DEF Disconnect, Hang, DestroyStream, Route, Open, Revert, Types
<1>5. CASE StartHandler \/ Pending \/ ReadyHandler \/ Service \/ PumpIn \/ PumpFile \/ Filed
  BY <1>0, <1>5 DEF StartHandler, Pending, ReadyHandler, Service, PumpIn, PumpFile, Filed, Types
<1>6. CASE PumpOut \/ PumpFilter \/ SendReset \/ Send \/ Free
  BY <1>0, <1>6 DEF PumpOut, PumpFilter, SendReset, Send, Free, Spend, Types
<1>7. CASE ServiceEnd \/ Idle \/ CloseStream \/ Abandon \/ DestroyNet \/ RemoveStream \/ Destroyed \/ Enable
  BY <1>0, <1>7 DEF ServiceEnd, Idle, CloseStream, Abandon, DestroyNet, RemoveStream, Destroyed, Enable, Types
<1>8. CASE ParseLine \/ ParseFields \/ FrameDone \/ FrameClosed
  BY <1>0, <1>8 DEF ParseLine, ParseFields, FrameDone, FrameClosed, Types
<1>9. CASE SetState \/ Update
  <2>1. ASSUME NEW n, NEW m, Enter(S, n, m) \/ Leave(S, n, m)
        PROVE  stream'[s] = stream[s]
    BY <1>0, <2>1 DEF Enter, Leave, Types
  <2> QED BY <1>0, <1>9, <2>1 DEF SetState, Update, Types
<1> QED BY <1>1, <1>2, <1>3, <1>4, <1>5, <1>6, <1>7, <1>8, <1>9 DEF Step

\* What no step takes back
LEMMA Monotone == ASSUME TypeOK, Step
PROVE  /\ net.error => net'.error
       /\ net.eof => net'.eof
       /\ net'.proto = net.proto
       /\ \A s \in Streams : /\ stream[s].disconnect => stream'[s].disconnect
                             /\ stream[s].keep = 0 => stream'[s].keep = 0
<1> DEFINE Netted == (net.error => net'.error) /\ (net.eof => net'.eof) /\ net'.proto = net.proto
           M(s) == (stream[s].disconnect => stream'[s].disconnect) /\ (stream[s].keep = 0 => stream'[s].keep = 0)
<1>0. Types /\ S \in Streams
  BY TopOfStep, TopType DEF TypeOK, Types
<1>1. net' = net => Netted
  OBVIOUS
<1>2. stream' = stream => \A s \in Streams : M(s)
  OBVIOUS
<1>3. CASE \/ Kick \/ ProcessFirst \/ ProcessParsed \/ ProcessContent \/ InputEnd \/ ProcessReady \/ Redirect \/ AfterError
           \/ Fail \/ Finalize \/ FinalizeOutput \/ FinalizeInput \/ CheckFinalized \/ SetFinalized \/ FinalizeConnector
  <2>1. net' = net /\ stream' = stream
    BY <1>3 DEF Kick, ProcessFirst, ProcessParsed, ProcessContent, InputEnd, ProcessReady, Redirect, AfterError,
       Fail, Finalize, FinalizeOutput, FinalizeInput, CheckFinalized, SetFinalized, FinalizeConnector
  <2> QED BY <2>1
<1>4. CASE \/ Route \/ Open \/ Revert \/ StartHandler \/ Pending \/ ReadyHandler \/ Service \/ PumpIn \/ PumpFile \/ Filed
           \/ Free \/ ServiceEnd \/ CloseStream \/ Abandon \/ DestroyNet \/ RemoveStream \/ ParseLine \/ ParseFields
           \/ FrameDone \/ FrameClosed
  <2>1. net' = net /\ stream' = stream
    BY <1>4 DEF Route, Open, Revert, StartHandler, Pending, ReadyHandler, Service, PumpIn, PumpFile, Filed,
       Free, ServiceEnd, CloseStream, Abandon, DestroyNet, RemoveStream, ParseLine, ParseFields, FrameDone, FrameClosed
  <2> QED BY <2>1
<1>5. CASE NetError \/ Hang \/ Send \/ Idle \/ Destroyed \/ Enable
  <2>1. stream' = stream
    BY <1>5 DEF NetError, Hang, Send, Idle, Destroyed, Enable
  <2>2. Netted
    BY <1>0, <1>5 DEF NetError, Hang, Send, Idle, Destroyed, Enable, Types, NetType
  <2> QED BY <1>2, <2>1, <2>2
<1>6. ASSUME M(S), NEW s \in Streams PROVE M(s)
  BY <1>6, Local
<1>7. CASE ProcessHeaders \/ ProcessFinalized \/ RaiseError \/ Disconnect \/ DestroyStream \/ PumpOut
  <2>1. net' = net
    BY <1>7 DEF ProcessHeaders, ProcessFinalized, RaiseError, Disconnect, DestroyStream, PumpOut
  <2>2. M(S)
    <3>0. stream \in [Streams -> StreamType] /\ stream[S] \in StreamType /\ S \in Streams
      BY <1>0 DEF Types
    <3>1. CASE ProcessHeaders
      <4>1. stream' = stream \/ \E k \in {0, stream[S].keep} : stream' = [stream EXCEPT ![S].keep = k]
        BY <3>1 DEF ProcessHeaders
      <4> QED BY <3>0, <4>1 DEF StreamType
    <3>2. CASE ProcessFinalized
      <4>1. \/ stream' = stream \/ stream' = [stream EXCEPT ![S].counted = FALSE]
            \/ stream' = [stream EXCEPT ![S].state = Parsed, ![S].target = Begin, ![S].error = FALSE,
                                        ![S].timer = "none", ![S].h2 = "idle"]
        BY <3>2 DEF ProcessFinalized
      <4> QED BY <3>0, <4>1 DEF StreamType
    <3>3. CASE RaiseError
      BY <3>0, <3>3 DEF RaiseError, StreamType
    <3>4. CASE Disconnect \/ DestroyStream
      <4>1. \/ stream' = stream \/ stream' = [stream EXCEPT ![S].error = TRUE]
            \/ stream' = [stream EXCEPT ![S].counted = FALSE, ![S].state = Complete, ![S].destroyed = TRUE]
        BY <3>4 DEF Disconnect, DestroyStream
      <4> QED BY <3>0, <4>1 DEF StreamType
    <3>5. CASE PumpOut
      BY <3>0, <3>5 DEF PumpOut, Spend, StreamType
    <3> QED BY <1>7, <3>1, <3>2, <3>3, <3>4, <3>5
  <2> QED BY <1>6, <2>1, <2>2
<1>8. CASE SendReset \/ PumpFilter
  <2>1. Netted
    BY <1>0, <1>8 DEF SendReset, PumpFilter, Types, NetType
  <2>2. M(S)
    <3>0. stream \in [Streams -> StreamType] /\ stream[S] \in StreamType /\ S \in Streams
      BY <1>0 DEF Types
    <3>1. stream' = stream \/ \E h \in {"closed", "error", "local"} : stream' = [stream EXCEPT ![S].h2 = h]
      BY <1>8 DEF SendReset, PumpFilter
    <3> QED BY <3>0, <3>1 DEF StreamType
  <2> QED BY <1>6, <2>1, <2>2
<1>9. CASE SetState \/ Update
  <2>0. stream \in [Streams -> StreamType] /\ stream[S] \in StreamType /\ S \in Streams
    BY <1>0 DEF Types
  <2>1. ASSUME NEW n, NEW m, Enter(S, n, m) \/ Leave(S, n, m)
        PROVE  Netted /\ M(S)
    <3>1. Netted
      BY <1>0, <2>1 DEF Enter, Leave, Types, NetType
    <3>2. M(S)
      BY <2>0, <2>1 DEF Enter, Leave, StreamType
    <3> QED BY <3>1, <3>2
  <2>2. ASSUME SetState, stream[S].setting
        PROVE  Netted /\ M(S)
    <3>1. net' = net /\ \E t : stream' = [stream EXCEPT ![S].target = t]
      BY <2>2 DEF SetState
    <3>2. M(S)
      BY <2>0, <3>1 DEF StreamType
    <3> QED BY <3>1, <3>2
  <2> HIDE DEF Netted, M
  <2>3. Netted /\ M(S)
    <3>1. CASE SetState
      BY <2>1, <2>2, <3>1 DEF SetState
    <3>2. CASE Update
      BY <2>1, <3>2 DEF Update
    <3> QED BY <1>9, <3>1, <3>2
  <2> QED BY <1>6, <2>3 DEF Netted, M
<1> QED BY <1>3, <1>4, <1>5, <1>7, <1>8, <1>9 DEF Step

LEMMA GoneStays == ASSUME IInv, Http1, Step, S = 1
                   PROVE  /\ Gone => Gone'
                          /\ Spent => Spent'
                          /\ Head(todo).op # "Disconnect" \/ Has("Hang")'
                          /\ net.error \/ Hanging => net'.error \/ Hanging'
<1>1. PICK x \in Seq(Calls) : Then(x)
  BY Stacked
<1>2. TypeOK /\ todo # <<>> /\ 1 \in Streams
  BY TopOfStep, One DEF IInv
<1>3. \A op : Has(op) /\ Head(todo).op # op => Has(op)'
  BY <1>1, <1>2, HasKept
<1>4. ASSUME Head(todo).op = "Hang" \/ Head(todo).op = "NetError"
      PROVE  net'.error
  <2>1. Hang \/ NetError
    BY <1>4, LostStep
  <2> QED BY <1>2, <2>1 DEF Hang, NetError, TypeOK, NetType
<1>5. ASSUME Head(todo).op = "Disconnect"
      PROVE  Has("Hang")'
  <2>1. Disconnect
    BY <1>5, LostStep
  <2> DEFINE y == Run("FinalizeInput") \o Run("Finalize") \o Run("Hang")
  <2>2. Then(y)
    BY <2>1 DEF Disconnect, When
  <2>3. /\ Run("FinalizeInput") \in Seq(Calls) /\ Run("Finalize") \in Seq(Calls) /\ Run("Hang") \in Seq(Calls)
        /\ Call("Hang", 1, 0).op = "Hang"
    <3>1. 0 \in 0..9 /\ {"FinalizeInput", "Finalize", "Hang", "Disconnect"} \subseteq Ops
      BY DEF Ops
    <3>2. \A op \in {"FinalizeInput", "Finalize", "Hang", "Disconnect"} : Call(op, 1, 0) \in Calls
      BY <1>2, <3>1, CallType
    <3> QED BY <3>2 DEF Run, Call
  <2>4. y \in Seq(Calls) /\ 3 \in 1..Len(y) /\ y[3] = Call("Hang", 1, 0)
    BY <2>3 DEF Run
  <2> QED BY <1>2, <2>2, <2>3, <2>4, HasKept
<1>6. Hanging => net'.error \/ Hanging'
  BY <1>3, <1>4, <1>5 DEF Hanging
<1> QED BY <1>2, <1>5, <1>6, Monotone DEF Gone, Spent

\* An aborted request has its connection closed.
LEMMA HungStays == ASSUME IInv, Http1, FirstInv, Step, S = 1,
                          stream'[1].disconnect => stream[1].disconnect \/ Has("AfterError")'
                   PROVE  stream'[1].disconnect => net'.error \/ Hanging' \/ Has("AfterError")'
<1> HAVE stream'[1].disconnect
<1> SUFFICES ASSUME stream[1].disconnect PROVE net'.error \/ Hanging' \/ Has("AfterError")'
  OBVIOUS
<1>1. PICK x \in Seq(Calls) : Then(x)
  BY Stacked
<1>2. TypeOK /\ todo # <<>> /\ 1 \in Streams
  BY TopOfStep, One DEF IInv
<1>3. CASE net.error \/ Hanging
  BY <1>3, GoneStays
<1>4. CASE Has("AfterError") /\ Head(todo).op # "AfterError"
  BY <1>1, <1>2, <1>4, HasKept
<1>5. CASE Head(todo).op = "AfterError"
  <2>1. AfterError
    BY <1>5, LostStep
  <2>2. Then(Run("Disconnect"))
    BY <2>1 DEF AfterError, When
  <2>3. Run("Disconnect") \in Seq(Calls) /\ Call("Disconnect", 1, 0).op = "Disconnect"
    <3>1. 0 \in 0..9 /\ {"FinalizeInput", "Finalize", "Hang", "Disconnect"} \subseteq Ops
      BY DEF Ops
    <3>2. \A op \in {"FinalizeInput", "Finalize", "Hang", "Disconnect"} : Call(op, 1, 0) \in Calls
      BY <1>2, <3>1, CallType
    <3> QED BY <3>2 DEF Run, Call
  <2>4. Has("Disconnect")'
    <3>1. 1 \in 1..Len(Run("Disconnect")) /\ Run("Disconnect")[1] = Call("Disconnect", 1, 0)
      BY DEF Run
    <3> QED BY <1>2, <2>2, <2>3, <3>1, HasKept
  <2> QED BY <2>4 DEF Hanging
<1> QED BY <1>3, <1>4, <1>5 DEF FirstInv

-----------------------------------------------------------------------------
(* FirstInv, step by step *)

\* Every call of the stack is of the stream that HTTP/1 uses, or does nothing.
LEMMA FirstTop == ASSUME TypeOK, Http1, FirstInv, todo # <<>>
PROVE  /\ Fits(Head(todo)) /\ S \in Streams /\ (S # 1 => Head(todo).op \in FanOps)
       /\ Ordered(todo) /\ todo \in Seq(Fit) /\ Tail(todo) \in Seq(Fit \cap Lower)
<1>1. todo \in Seq(Fit) /\ Ordered(todo)
  BY DEF FirstInv
<1>2. Head(todo) \in Fit /\ Tail(todo) \in Seq(Fit \cap Lower)
  BY <1>1, Underneath
<1>3. Head(todo).s \in Streams
  BY TopType DEF S
<1> QED BY <1>1, <1>2, <1>3 DEF Fit, Fits, S

\* What a call leaves as it is that is on the stack for longer
SameFits ==
  /\ Gone => Gone'
  /\ rx'[1].routed = rx[1].routed /\ tx'[1].started = tx[1].started
  /\ stream[1].setting => stream'[1].setting
  /\ Head(todo).op # "Route"

LEMMA FitsStay == ASSUME TypeOK, todo # <<>>, SameFits, NEW x \in Seq(Calls), Then(x), NEW c \in Calls, Fits(c)
                  PROVE  Fits(c)'
<1>1. Has("Route") => Has("Route")'
  BY HasKept DEF SameFits
<1> QED BY <1>1 DEF Fits, SameFits

LEMMA EasyFit == /\ \A c \in Easy \cup Tops : Fits(c)'
                 /\ Gone' => \A c \in Last : Fits(c)'
<1>1. ASSUME NEW c \in Easy PROVE Fits(c)'
  <2>1. /\ c.op \notin {"Open", "Revert", "Parsed", "StartHandler"} \cup FilterOps \cup EndOps
        /\ c.op = "Error" => c.n = Close
        /\ c.s # 1 => c.op \in FanOps
    BY DEF Easy, LoopOps, PartOps
  <2> QED BY <2>1 DEF Fits
<1>2. ASSUME NEW c \in Tops PROVE Fits(c)'
  <2>1. c.s = 1 /\ c.op \in {"SetState", "Error", "Redirect"} /\ (c.op = "Error" => c.n = Soft)
    BY DEF Tops, AtOnce
  <2>2. c.op \notin FilterOps /\ c.op \notin EndOps
    BY <2>1 DEF FilterOps, EndOps
  <2> QED BY <2>1, <2>2 DEF Fits
<1>3. ASSUME Gone', NEW c \in Last PROVE Fits(c)'
  <2>1. /\ c.op \notin {"Open", "Revert", "Parsed", "StartHandler"} \cup FilterOps
        /\ c.s # 1 => c.op \in FanOps
    BY DEF Last, EndOps, FilterOps
  <2> QED BY <1>3, <2>1 DEF Fits
<1> QED BY <1>1, <1>2, <1>3

\* Calls that fit only while the connection is there to stay
Lightly(x) == \/ x \in Seq(Easy)
              \/ \E c \in Tops, y \in Seq(Easy) : x = <<c>> \o y
              \/ Gone' /\ x \in Seq(Easy \cup Last)

LEMMA LightlyIs == ASSUME NEW x, Lightly(x)
                   PROVE  Light(x) /\ x \in Seq(Calls) /\ x \in Seq(Fit')
<1>1. \A y \in Seq(Easy) : y \in Seq(Easy \cup Last)
  OBVIOUS
<1>2. Light(x)
  BY <1>1 DEF Light, Lightly
<1>3. Easy \subseteq Fit' /\ Tops \subseteq Fit' /\ (Gone' => Last \subseteq Fit') /\ Fit' \subseteq Calls
  BY EasyFit DEF Fit, Easy, Tops, Last
<1>4. x \in Seq(Fit')
  <2>1. CASE x \in Seq(Easy)
    BY <1>3, <2>1
  <2>2. CASE \E c \in Tops, y \in Seq(Easy) : x = <<c>> \o y
    <3>1. PICK c \in Tops, y \in Seq(Easy) : x = <<c>> \o y
      BY <2>2
    <3>2. <<c>> \in Seq(Fit') /\ y \in Seq(Fit')
      BY <1>3
    <3> QED BY <3>1, <3>2
  <2>3. CASE Gone' /\ x \in Seq(Easy \cup Last)
    BY <1>3, <2>3
  <2> QED BY <2>1, <2>2, <2>3 DEF Lightly
<1> QED BY <1>2, <1>3, <1>4

\* The stream as far as FirstInv tells it apart
SameFirst ==
  /\ ~net'.goaway /\ tx'[1].end # "filter"
  /\ rx'[1].routed = rx[1].routed
  /\ tx'[1].handler = tx[1].handler /\ tx'[1].pipeline = tx[1].pipeline /\ tx'[1].started = tx[1].started
  /\ stream[1].setting => stream'[1].setting
  /\ stream[1].state >= Parsed => stream'[1].state >= Parsed

LEMMA OthersUnused == ASSUME TypeOK, Http1, FirstInv, Step, S = 1
                      PROVE  \A s \in Streams \ {1} : Unused(s)'
<1> TAKE s \in Streams \ {1}
<1>1. stream'[s] = stream[s] /\ rx'[s] = rx[s] /\ tx'[s] = tx[s]
  BY Local
<1> QED BY <1>1 DEF FirstInv, Unused

\* A step that puts light calls on the stack and leaves the stream as it is
LEMMA LightStep ==
  ASSUME IInv, Http1, FirstInv, Step, S = 1, NEW x, Then(x), Lightly(x), SameFirst,
         Head(todo).op \notin {"Route", "Open"},
         stream'[1].disconnect => stream[1].disconnect \/ Has("AfterError")'
  PROVE  FirstInv'
<1>1. TypeOK /\ todo # <<>>
  BY TopOfStep DEF IInv
<1>2. Light(x) /\ x \in Seq(Calls) /\ x \in Seq(Fit')
  BY LightlyIs
<1>3. Ordered(todo) /\ todo \in Seq(Fit) /\ Tail(todo) \in Seq(Fit)
  <2>1. Tail(todo) \in Seq(Fit \cap Lower)
    BY <1>1, FirstTop
  <2> QED BY <1>1, <2>1, FirstTop
<1>4. Ordered(todo)'
  BY <1>1, <1>2, <1>3, LightStack
<1>5. SameFits
  BY GoneStays DEF SameFits, SameFirst
<1>6. Fit \subseteq Fit'
  BY <1>1, <1>2, <1>5, FitsStay DEF Fit
<1>7. todo' \in Seq(Fit')
  <2>1. Tail(todo) \in Seq(Fit')
    BY <1>3, <1>6
  <2> QED BY <1>2, <2>1 DEF Then
<1>8. stream'[1].disconnect => net'.error \/ Hanging' \/ Has("AfterError")'
  BY HungStays
<1>9. Has("Open") => Has("Open")'
  BY <1>1, <1>2, HasKept
<1>10. \A s \in Streams \ {1} : Unused(s)'
  BY <1>1, OthersUnused
<1>11. IF rx'[1].routed THEN stream'[1].state >= Parsed /\ (tx'[1].pipeline \/ Has("Open")')
       ELSE tx'[1].handler = "none" /\ ~tx'[1].pipeline /\ ~tx'[1].started
  BY <1>9 DEF FirstInv, SameFirst
<1> QED BY <1>4, <1>7, <1>8, <1>10, <1>11 DEF FirstInv, SameFirst

LEMMA FanOf == ASSUME Step, Head(todo).op \in FanOps
PROVE  Fail \/ Free \/ PumpIn \/ PumpFile \/ PumpOut \/ CloseStream \/ RemoveStream
<1>1. ~(\/ SetState \/ Update \/ Kick \/ ProcessFirst \/ ProcessHeaders \/ ProcessParsed \/ ProcessContent \/ InputEnd
        \/ ProcessReady \/ ProcessFinalized \/ RaiseError \/ Redirect \/ AfterError \/ NetError \/ Finalize
        \/ FinalizeOutput \/ FinalizeInput \/ CheckFinalized \/ SetFinalized \/ FinalizeConnector)
  BY DEF FanOps, Do, SetState, Update, Kick, ProcessFirst, ProcessHeaders, ProcessParsed, ProcessContent, InputEnd,
     ProcessReady, ProcessFinalized, RaiseError, Redirect, AfterError, NetError, Finalize, FinalizeOutput,
     FinalizeInput, CheckFinalized, SetFinalized, FinalizeConnector
<1>2. ~(\/ Disconnect \/ Hang \/ DestroyStream \/ Route \/ Open \/ Revert \/ StartHandler \/ Pending \/ ReadyHandler
        \/ Service \/ Filed \/ PumpFilter \/ SendReset \/ Send \/ ServiceEnd \/ Idle \/ Destroyed \/ Enable \/ DestroyNet
        \/ Abandon \/ ParseLine \/ ParseFields \/ FrameDone \/ FrameClosed)
  BY DEF FanOps, Do, Disconnect, Hang, DestroyStream, Route, Open, Revert, StartHandler, Pending, ReadyHandler, Service,
     Filed, PumpFilter, SendReset, Send, ServiceEnd, Idle, Destroyed, Enable, DestroyNet, Abandon,
     ParseLine, ParseFields, FrameDone, FrameClosed
<1> QED BY <1>1, <1>2 DEF Step

\* A call for a stream that is not used does nothing.
LEMMA UnusedStep == ASSUME TypeOK, Http1, Step, S # 1, Head(todo).op \in FanOps, NEW s, s = S, Unused(s)
PROVE  Then(<<>>) /\ net' = net /\ Unused(s)'
<1>1. Types /\ S \in Streams /\ rx[S] \in RxType /\ tx[S] \in TxType
  BY TopOfStep, TopType DEF TypeOK, Types
<1>2. ~Listed(S) /\ ~AtSocket(S) /\ ~rx[S].queued /\ ~tx[S].file /\ "queued" \notin {tx[S].end, tx[S].stale}
  BY DEF Unused, Listed, AtSocket
<1>3. Then(<<>>) /\ net' = net /\ stream' = stream
  <2>1. CASE Fail \/ CloseStream \/ RemoveStream
    BY <1>2, <2>1 DEF Fail, CloseStream, RemoveStream, When
  <2>2. CASE Free \/ PumpIn
    BY <1>2, <2>2 DEF Free, PumpIn, When
  <2>3. CASE PumpFile
    BY <1>2, <2>3 DEF PumpFile, When
  <2>4. CASE PumpOut
    BY <1>2, <2>4 DEF PumpOut
  <2> QED BY <2>1, <2>2, <2>3, <2>4, FanOf
<1>4. ~rx'[s].queued
  <2>1. CASE Fail \/ RemoveStream \/ Free \/ PumpFile \/ PumpOut
    <3>1. rx' = rx
      BY <2>1 DEF Fail, RemoveStream, Free, PumpFile, PumpOut
    <3> QED BY <1>2, <3>1
  <2>2. CASE PumpIn \/ CloseStream
    BY <1>1, <1>2, <2>2 DEF PumpIn, CloseStream, Types, RxType
  <2> QED BY <2>1, <2>2, FanOf
<1>5. ~tx'[s].file /\ ~tx'[s].working /\ tx'[s].end = "none" /\ tx'[s].stale = "none"
  <2>1. CASE Fail \/ RemoveStream \/ PumpIn \/ CloseStream
    <3>1. tx' = tx
      BY <2>1 DEF Fail, RemoveStream, PumpIn, CloseStream
    <3> QED BY <3>1 DEF Unused
  <2>2. CASE PumpOut
    <3>1. tx' = tx
      BY <1>2, <2>2 DEF PumpOut
    <3> QED BY <3>1 DEF Unused
  <2>3. CASE Free \/ PumpFile
    <3>1. tx' = [tx EXCEPT ![S].end = IF @ = "socket" THEN "dropped" ELSE @, ![S].stale = IF @ = "socket" THEN "none" ELSE @]
          \/ \E place : tx' = [tx EXCEPT ![S].file = FALSE, ![S].end = IF place THEN "queued" ELSE @] /\ ~place
      <4>1. CASE Free
        BY <4>1 DEF Free
      <4>2. CASE PumpFile
        BY <1>2, <4>2 DEF PumpFile
      <4> QED BY <2>3, <4>1, <4>2
    <3> QED BY <1>1, <3>1 DEF Unused, Types, TxType
  <2> QED BY <2>1, <2>2, <2>3, FanOf
<1> QED BY <1>3, <1>4, <1>5 DEF Unused

\* So does the step that takes it.
LEMMA UnusedKeeps == ASSUME IInv, Http1, FirstInv, Step, S # 1
PROVE  /\ Then(<<>>) /\ net' = net /\ stream'[1] = stream[1] /\ rx'[1] = rx[1] /\ tx'[1] = tx[1]
       /\ Head(todo).op \in FanOps /\ FirstInv'
<1>1. TypeOK /\ todo # <<>> /\ 1 \in Streams
  BY TopOfStep, One DEF IInv
<1>2. Head(todo).op \in FanOps /\ S \in Streams /\ Ordered(todo) /\ todo \in Seq(Fit) /\ Tail(todo) \in Seq(Fit \cap Lower)
  BY <1>1, FirstTop
<1>3. PICK t \in Streams \ {1} : t = S
  BY <1>2
<1>4. Then(<<>>) /\ net' = net /\ Unused(t)'
  <2>1. Unused(t)
    BY DEF FirstInv
  <2> QED BY <1>1, <1>2, <1>3, <2>1, UnusedStep
<1>5. stream'[1] = stream[1] /\ rx'[1] = rx[1] /\ tx'[1] = tx[1]
  BY <1>1, Local
<1>6. \A s \in Streams \ {1} : Unused(s)'
  <2> TAKE s \in Streams \ {1}
  <2>1. CASE s = S
    <3>1. s = t
      BY <1>3, <2>1
    <3> QED BY <1>4, <3>1
  <2>2. CASE s # S
    <3>1. stream'[s] = stream[s] /\ rx'[s] = rx[s] /\ tx'[s] = tx[s]
      BY <1>1, <2>2, Local
    <3> QED BY <3>1 DEF FirstInv, Unused
  <2> QED BY <2>1, <2>2
<1>7. \A op \in {"Hang", "NetError", "Disconnect", "AfterError", "Open", "Route"} : Has(op) => Has(op)'
  <2>1. <<>> \in Seq(Calls) /\ \A op \in {"Hang", "NetError", "Disconnect", "AfterError", "Open", "Route"} : op # Head(todo).op
    BY <1>2 DEF FanOps
  <2> QED BY <1>1, <1>4, <2>1, HasKept
<1>8. /\ Has("Hang") => Has("Hang")'
      /\ Has("NetError") => Has("NetError")'
      /\ Has("Disconnect") => Has("Disconnect")'
      /\ Has("AfterError") => Has("AfterError")'
      /\ Has("Open") => Has("Open")'
      /\ Has("Route") => Has("Route")'
  BY <1>7
<1>9. (Hanging => Hanging') /\ (Gone => Gone')
  BY <1>4, <1>5, <1>8 DEF Gone, Hanging
<1>10. Fit \subseteq Fit'
  BY <1>5, <1>8, <1>9 DEF Fit, Fits
<1>11. todo' = Tail(todo) /\ todo' \in Seq(Fit')
  <2>1. Tail(todo) \in Seq(Fit) /\ Tail(todo) \in Seq(Fit')
    BY <1>2, <1>10
  <2>2. todo' = Tail(todo)
    BY <1>4, <2>1 DEF Then
  <2> QED BY <2>1, <2>2
<1>12. Ordered(todo)'
  <2>1. Ordered(Tail(todo))
    BY <1>1, <1>2, Underneath
  <2> QED BY <1>11, <2>1 DEF Ordered
<1> QED BY <1>2, <1>4, <1>5, <1>6, <1>8, <1>9, <1>11, <1>12 DEF FirstInv

\* What the steps for the stream of HTTP/1 put on the stack
LEMMA EasyRuns == ASSUME S = 1
PROVE  /\ \A op \in EasyOps : Run(op) \in Seq(Easy)
       /\ \A n \in (0..9) \ {Finalized} : SetTo(S, n) \in Seq(Easy)
       /\ Error(S, Close) \in Seq(Easy)
       /\ \A op \in EndOps : Run(op) \in Seq(Easy \cup Last)
       /\ Error(S, Abort) \in Seq(Easy \cup Last) /\ Error(S, Silent) \in Seq(Easy \cup Last)
       /\ SetTo(S, Finalized) = <<Call("SetState", 1, Finalized)>> /\ Call("SetState", 1, Finalized) \in Tops
       /\ Error(S, Soft) = <<Call("Error", 1, Soft)>> /\ Call("Error", 1, Soft) \in Tops
       /\ Run("Redirect") = <<Call("Redirect", 1, 0)>> /\ Call("Redirect", 1, 0) \in Tops
<1>1. \A c \in Easy : <<c>> \in Seq(Easy)
  OBVIOUS
<1>2. \A c \in Easy \cup Last : <<c>> \in Seq(Easy \cup Last)
  OBVIOUS
<1>3. 0 \in 0..9
  OBVIOUS
<1> QED BY <1>1, <1>2, <1>3, EasyCalls DEF Run, SetTo, Error

LEMMA LightlyJoin ==
  /\ \A x \in Seq(Easy) : Lightly(x)
  /\ Lightly(<<>>)
  /\ \A b \in BOOLEAN, x \in Seq(Easy) : When(b, x) \in Seq(Easy)
  /\ \A x, y \in Seq(Easy) : x \o y \in Seq(Easy)
  /\ \A c \in Tops, y \in Seq(Easy) : Lightly(<<c>> \o y)
  /\ \A c \in Tops : Lightly(<<c>>)
  /\ \A b \in BOOLEAN, c \in Tops, y \in Seq(Easy) : Lightly(When(b, <<c>>) \o y)
<1>1. \A x \in Seq(Easy) : Lightly(x) /\ <<>> \o x = x
  BY DEF Lightly
<1>2. <<>> \in Seq(Easy) /\ \A c : <<c>> = <<c>> \o <<>>
  OBVIOUS
<1>3. \A c \in Tops, y \in Seq(Easy) : Lightly(<<c>> \o y)
  BY DEF Lightly
<1>4. \A c \in Tops : Lightly(<<c>>)
  BY <1>2 DEF Lightly
<1>5. \A x, y \in Seq(Easy) : x \o y \in Seq(Easy)
  OBVIOUS
<1> QED BY <1>1, <1>2, <1>3, <1>4, <1>5 DEF When

\* What LightStep asks of a step
Lightens == /\ \E x : Then(x) /\ Lightly(x)
            /\ SameFirst /\ Head(todo).op \notin {"Route", "Open"}
            /\ stream'[1].disconnect => stream[1].disconnect \/ Has("AfterError")'

LEMMA LightensKeeps == ASSUME IInv, Http1, FirstInv, Step, S = 1, Lightens
                       PROVE  FirstInv'
BY LightStep DEF Lightens

\* The steps of httpServer, of errors and of the finalization that change a field or two
LEMMA FinishLightens ==
  ASSUME TypeOK, Http1, FirstInv, S = 1,
         \/ Kick \/ InputEnd \/ Finalize \/ FinalizeOutput \/ FinalizeInput \/ CheckFinalized \/ SetFinalized
         \/ FinalizeConnector \/ Redirect \/ Pending \/ Filed \/ AfterError
  PROVE  Lightens
<1>0. Types /\ 1 \in Streams /\ ~net.goaway /\ tx[1].end # "filter" /\ tx[1] \in TxType
  BY One DEF TypeOK, Types, FirstInv
<1>1. Head(todo).op \notin {"Route", "Open"}
  BY DEF Do, Kick, InputEnd, Finalize, FinalizeOutput, FinalizeInput, CheckFinalized, SetFinalized, FinalizeConnector,
     Redirect, Pending, Filed, AfterError
<1>2. net' = net /\ stream' = stream /\ rx'[1].routed = rx[1].routed
  <2>1. CASE InputEnd \/ FinalizeInput
    BY <1>0, <2>1 DEF InputEnd, FinalizeInput, Types, RxType
  <2>2. CASE \/ Kick \/ Finalize \/ FinalizeOutput \/ CheckFinalized \/ SetFinalized \/ FinalizeConnector \/ Redirect \/ Pending
             \/ Filed \/ AfterError
    BY <2>2 DEF Kick, Finalize, FinalizeOutput, CheckFinalized, SetFinalized, FinalizeConnector, Redirect, Pending, Filed, AfterError
  <2> QED BY <2>1, <2>2
<1>3. /\ tx'[1].handler = tx[1].handler /\ tx'[1].pipeline = tx[1].pipeline /\ tx'[1].started = tx[1].started
      /\ tx'[1].end # "filter"
  <2>1. CASE Kick \/ InputEnd \/ Finalize \/ CheckFinalized \/ Filed \/ AfterError
    BY <1>0, <2>1 DEF Kick, InputEnd, Finalize, CheckFinalized, Filed, AfterError
  <2>2. CASE FinalizeInput \/ SetFinalized \/ FinalizeConnector \/ Redirect \/ Pending
    BY <1>0, <2>2 DEF FinalizeInput, SetFinalized, FinalizeConnector, Redirect, Pending, Types, TxType
  <2>3. CASE FinalizeOutput
    BY <1>0, <2>3 DEF FinalizeOutput, Types, TxType
  <2> QED BY <2>1, <2>2, <2>3
<1>4. SameFirst
  BY <1>0, <1>2, <1>3 DEF SameFirst
<1>5. \E x : Then(x) /\ Lightly(x)
  <2>1. \A op \in EasyOps : Run(op) \in Seq(Easy)
    BY EasyRuns
  <2>2. /\ Run("Enable") \in Seq(Easy) /\ Run("FinalizeOutput") \in Seq(Easy) /\ Run("FinalizeInput") \in Seq(Easy)
        /\ Run("CheckFinalized") \in Seq(Easy) /\ Run("Disconnect") \in Seq(Easy) /\ Run("Finalize") \in Seq(Easy)
    BY <2>1 DEF EasyOps
  <2>3. SetTo(S, Ready) \in Seq(Easy) /\ \A n \in 0..9 : <<Call("SetFinalized", S, n)>> \in Seq(Easy)
    <3>1. Ready \in (0..9) \ {Finalized}
      BY DEF Ready, Finalized
    <3>2. \A n \in 0..9 : Call("SetFinalized", 1, n) \in Easy
      BY EasyCalls DEF EasyOps
    <3> QED BY <3>1, <3>2, EasyRuns
  <2>4. CASE Kick \/ AfterError \/ Filed
    <3>1. Then(<<>>) \/ Then(Run("Enable")) \/ Then(Run("Disconnect")) \/ Then(Run("Finalize"))
      BY <2>4 DEF Kick, AfterError, Filed, When
    <3> QED BY <2>2, <3>1, LightlyJoin
  <2>5. CASE InputEnd \/ SetFinalized
    BY <2>5, LightlyJoin DEF InputEnd, SetFinalized
  <2>6. CASE Finalize \/ FinalizeConnector
    BY <2>2, <2>6, LightlyJoin DEF Finalize, FinalizeConnector
  <2>7. CASE FinalizeOutput \/ FinalizeInput \/ Pending
    <3>1. \/ Then(<<>>) \/ Then(Run("CheckFinalized")) \/ Then(SetTo(S, Ready) \o Run("CheckFinalized"))
          \/ Then(Run("FinalizeOutput"))
      BY <2>7 DEF FinalizeOutput, FinalizeInput, Pending, When
    <3> QED BY <2>2, <2>3, <3>1, LightlyJoin
  <2>8. CASE CheckFinalized
    <3> DEFINE top == Call("SetState", 1, Finalized)
               rest == <<Call("SetFinalized", S, IF rx[S].errdoc THEN 1 ELSE 0)>>
    <3>1. top \in Tops /\ SetTo(S, Finalized) = <<top>> /\ rest \in Seq(Easy)
      BY <2>3, EasyRuns
    <3>2. Lightly(<<top>> \o rest) /\ Lightly(<<>>)
      BY <3>1, LightlyJoin
    <3>3. Then(<<top>> \o rest) \/ Then(<<>>)
      BY <2>8, <3>1 DEF CheckFinalized, When
    <3> QED BY <3>2, <3>3
  <2>9. CASE Redirect
    BY <2>9, EasyRuns, LightlyJoin DEF Redirect
  <2> QED BY <2>4, <2>5, <2>6, <2>7, <2>8, <2>9
<1> QED BY <1>1, <1>2, <1>4, <1>5 DEF Lightens

LEMMA QueueLightens ==
  ASSUME TypeOK, Http1, FirstInv, S = 1, PumpIn \/ PumpFile \/ PumpOut \/ Idle \/ Enable \/ ParseLine \/ ParseFields
  PROVE  Lightens
<1>0. Types /\ 1 \in Streams /\ ~net.goaway /\ tx[1].end # "filter" /\ tx[1] \in TxType
  BY One DEF TypeOK, Types, FirstInv
<1>1. Head(todo).op \notin {"Route", "Open"}
  BY DEF Do, PumpIn, PumpFile, PumpOut, Idle, Enable, ParseLine, ParseFields
<1>2. ~net'.goaway /\ rx'[1].routed = rx[1].routed
  <2>1. CASE PumpIn
    BY <1>0, <2>1 DEF PumpIn, Types, RxType
  <2>2. CASE PumpFile \/ PumpOut \/ ParseLine \/ ParseFields
    BY <1>0, <2>2 DEF PumpFile, PumpOut, ParseLine, ParseFields
  <2>3. CASE Idle \/ Enable
    BY <1>0, <2>3 DEF Idle, Enable, Types, NetType
  <2> QED BY <2>1, <2>2, <2>3
<1>3. /\ tx'[1].handler = tx[1].handler /\ tx'[1].pipeline = tx[1].pipeline /\ tx'[1].started = tx[1].started
      /\ tx'[1].end # "filter"
  <2>1. CASE PumpIn \/ Idle \/ Enable \/ ParseLine \/ ParseFields
    BY <1>0, <2>1 DEF PumpIn, Idle, Enable, ParseLine, ParseFields
  <2>2. CASE PumpFile
    <3>1. \E e \in {"queued", tx[1].end} : tx' = [tx EXCEPT ![1].file = FALSE, ![1].end = e]
      BY <2>2 DEF PumpFile
    <3> QED BY <1>0, <3>1 DEF Types, TxType
  <2>3. CASE PumpOut
    <3>1. \/ tx' = tx \/ tx' = [tx EXCEPT ![1].headers = TRUE, ![1].end = "socket"]
          \/ tx' = [tx EXCEPT ![1].headers = TRUE, ![1].stale = "socket"]
      BY <2>3 DEF PumpOut
    <3> QED BY <1>0, <3>1 DEF Types, TxType
  <2> QED BY <2>1, <2>2, <2>3
<1>4. stream'[1].setting = stream[1].setting /\ stream'[1].state = stream[1].state /\ stream'[1].disconnect = stream[1].disconnect
  <2>1. CASE PumpIn \/ PumpFile \/ Idle \/ Enable \/ ParseLine \/ ParseFields
    BY <2>1 DEF PumpIn, PumpFile, Idle, Enable, ParseLine, ParseFields
  <2>2. CASE PumpOut
    <3>1. stream' = stream \/ \E k : stream' = [stream EXCEPT ![1].keep = k]
      BY <2>2 DEF PumpOut, Spend
    <3> QED BY <1>0, <3>1 DEF Types, StreamType
  <2> QED BY <2>1, <2>2
<1>5. \E x : Then(x) /\ Lightly(x)
  <2>1. /\ Run("FinalizeInput") \in Seq(Easy) /\ Run("FinalizeOutput") \in Seq(Easy) /\ Run("Filed") \in Seq(Easy)
        /\ Run("Send") \in Seq(Easy) /\ Run("Fields") \in Seq(Easy) /\ Error(S, Close) \in Seq(Easy)
        /\ SetTo(S, First) \in Seq(Easy) /\ SetTo(S, Parsed) \in Seq(Easy)
    <3>1. First \in (0..9) \ {Finalized} /\ Parsed \in (0..9) \ {Finalized}
      BY DEF First, Parsed, Finalized
    <3>2. {"FinalizeInput", "FinalizeOutput", "Filed", "Send", "Fields"} \subseteq EasyOps
      BY DEF EasyOps
    <3> QED BY <3>1, <3>2, EasyRuns
  <2>2. CASE PumpIn \/ PumpOut
    <3>1. Then(<<>>) \/ Then(Run("FinalizeInput")) \/ Then(Run("Send"))
      BY <2>2 DEF PumpIn, PumpOut, When
    <3> QED BY <2>1, <3>1, LightlyJoin
  <2>3. CASE Idle \/ Enable
    BY <2>3, LightlyJoin DEF Idle, Enable
  <2>4. CASE ParseLine \/ ParseFields
    BY <2>1, <2>4, LightlyJoin DEF ParseLine, ParseFields
  <2>5. CASE PumpFile
    <3>1. \/ Then(<<>>) \/ Then(Run("FinalizeOutput") \o Run("Filed")) \/ Then(Error(S, Soft))
      BY <2>5 DEF PumpFile, When
    <3>2. Lightly(Error(S, Soft))
      BY EasyRuns, LightlyJoin
    <3> QED BY <2>1, <3>1, <3>2, LightlyJoin
  <2> QED BY <2>2, <2>3, <2>4, <2>5
<1>6. SameFirst
  BY <1>2, <1>3, <1>4 DEF SameFirst
<1> QED BY <1>1, <1>4, <1>5, <1>6 DEF Lightens

LEMMA ErrorLightens ==
  ASSUME TypeOK, Http1, FirstInv, S = 1, RaiseError \/ ReadyHandler \/ ProcessHeaders
  PROVE  Lightens
<1>0. /\ Types /\ 1 \in Streams /\ ~net.goaway /\ tx[1].end # "filter" /\ tx[1] \in TxType /\ rx[1] \in RxType
      /\ stream[1] \in StreamType
  BY One DEF TypeOK, Types, FirstInv
<1>1. Head(todo).op \notin {"Route", "Open"} /\ todo # <<>>
  BY DEF Do, RaiseError, ReadyHandler, ProcessHeaders
<1>2. net' = net /\ rx'[1].routed = rx[1].routed /\ stream'[1].setting = stream[1].setting /\ stream'[1].state = stream[1].state
  <2>1. CASE RaiseError
    BY <1>0, <2>1 DEF RaiseError, Types, RxType, StreamType
  <2>2. CASE ReadyHandler
    BY <2>2 DEF ReadyHandler
  <2>3. CASE ProcessHeaders
    <3>1. rx' = rx \/ \E a, b \in BOOLEAN : rx' = [rx EXCEPT ![1].more = a, ![1].streaming = b]
      BY <2>3 DEF ProcessHeaders
    <3>2. net' = net /\ (stream' = stream \/ \E k \in {0, stream[1].keep} : stream' = [stream EXCEPT ![1].keep = k])
      BY <2>3 DEF ProcessHeaders
    <3>3. rx'[1].routed = rx[1].routed
      <4>1. CASE rx' = rx
        BY <4>1
      <4>2. ASSUME NEW a \in BOOLEAN, NEW b \in BOOLEAN, rx' = [rx EXCEPT ![1].more = a, ![1].streaming = b]
            PROVE  rx'[1].routed = rx[1].routed
        BY <1>0, <4>2 DEF Types, RxType
      <4> QED BY <3>1, <4>1, <4>2
    <3>4. stream'[1].setting = stream[1].setting /\ stream'[1].state = stream[1].state
      BY <1>0, <3>2 DEF Types, StreamType
    <3> QED BY <3>2, <3>3, <3>4
  <2> QED BY <2>1, <2>2, <2>3
<1>3. /\ tx'[1].handler = tx[1].handler /\ tx'[1].pipeline = tx[1].pipeline /\ tx'[1].started = tx[1].started
      /\ tx'[1].end # "filter"
  <2>1. CASE RaiseError \/ ProcessHeaders
    BY <1>0, <2>1 DEF RaiseError, ProcessHeaders
  <2>2. CASE ReadyHandler
    BY <1>0, <2>2 DEF ReadyHandler, Types, TxType
  <2> QED BY <2>1, <2>2
<1>4. SameFirst
  BY <1>0, <1>2, <1>3 DEF SameFirst
<1>5. Run("Finalize") \in Seq(Easy) /\ Run("FinalizeOutput") \in Seq(Easy) /\ Run("AfterError") \in Seq(Easy)
  BY EasyRuns DEF EasyOps
<1>6. CASE ReadyHandler
  <2>1. stream'[1].disconnect = stream[1].disconnect
    BY <1>6 DEF ReadyHandler
  <2>2. \E b, c \in BOOLEAN : Then(When(b, Error(S, Soft)) \o When(c, Run("Finalize")))
    BY <1>6 DEF ReadyHandler
  <2>3. ASSUME NEW b \in BOOLEAN, NEW c \in BOOLEAN
        PROVE  Lightly(When(b, Error(S, Soft)) \o When(c, Run("Finalize")))
    <3>1. When(c, Run("Finalize")) \in Seq(Easy) /\ Error(S, Soft) = <<Call("Error", 1, Soft)>> /\ Call("Error", 1, Soft) \in Tops
      BY <1>5, EasyRuns, LightlyJoin
    <3> QED BY <3>1, LightlyJoin
  <2> QED BY <1>1, <1>4, <2>1, <2>2, <2>3 DEF Lightens
<1>7. CASE ProcessHeaders
  <2>1. stream'[1].disconnect = stream[1].disconnect
    <3>1. stream' = stream \/ \E k \in {0, stream[1].keep} : stream' = [stream EXCEPT ![1].keep = k]
      BY <1>7 DEF ProcessHeaders
    <3> QED BY <1>0, <3>1 DEF Types, StreamType
  <2>2. Then(<<>>) \/ Then(Error(S, Close))
    BY <1>7 DEF ProcessHeaders
  <2> QED BY <1>1, <1>4, <2>1, <2>2, EasyRuns, LightlyJoin DEF Lightens
<1>8. CASE RaiseError
  <2>1. \E b, c \in BOOLEAN, y \in {Run("Finalize"), Run("FinalizeOutput")} :
           Then(When(b, Run("Redirect")) \o When(c, y) \o Run("AfterError"))
    BY <1>8 DEF RaiseError
  <2>2. PICK b \in BOOLEAN, c \in BOOLEAN, y \in {Run("Finalize"), Run("FinalizeOutput")} :
           Then(When(b, Run("Redirect")) \o When(c, y) \o Run("AfterError"))
    BY <2>1
  <2> DEFINE low == When(c, y) \o Run("AfterError")
             x == When(b, Run("Redirect")) \o low
  <2>3. low \in Seq(Easy) /\ When(c, y) \in Seq(Easy)
    BY <1>5, LightlyJoin
  <2>4. Lightly(x)
    <3>1. Run("Redirect") = <<Call("Redirect", 1, 0)>> /\ Call("Redirect", 1, 0) \in Tops
      BY EasyRuns
    <3> HIDE DEF low
    <3> QED BY <2>3, <3>1, LightlyJoin
  <2>5. Run("Redirect") \in Seq(Calls) /\ When(c, y) \in Seq(Calls) /\ Run("AfterError") \in Seq(Calls)
    <3>1. Easy \subseteq Calls /\ Tops \subseteq Calls
      BY DEF Easy, Tops
    <3>2. \A d \in Calls : <<d>> \in Seq(Calls)
      OBVIOUS
    <3>3. Run("Redirect") \in Seq(Calls)
      BY <3>1, <3>2, EasyRuns
    <3>4. \A z \in Seq(Easy) : z \in Seq(Calls)
      BY <3>1
    <3> QED BY <1>5, <2>3, <3>3, <3>4
  <2>6. x = When(b, Run("Redirect")) \o When(c, y) \o Run("AfterError") /\ x \in Seq(Calls)
    <3>1. When(b, Run("Redirect")) \in Seq(Calls)
      BY <2>5 DEF When
    <3> QED BY <2>5, <3>1
  <2>7. Then(x)
    BY <2>2, <2>6
  <2>8. Has("AfterError")'
    <3>1. Len(x) \in 1..Len(x) /\ x[Len(x)] = Call("AfterError", 1, 0)
      <4>1. PICK z \in Seq(Calls) : x = z \o <<Call("AfterError", 1, 0)>>
        <5>1. When(b, Run("Redirect")) \o When(c, y) \in Seq(Calls)
          BY <2>5 DEF When
        <5> QED BY <2>6, <5>1 DEF Run
      <4> QED BY <4>1
    <3>2. Call("AfterError", 1, 0).op = "AfterError"
      BY DEF Call
    <3> HIDE DEF x
    <3> QED BY <1>1, <2>6, <2>7, <3>1, <3>2, HasKept
  <2> QED BY <1>1, <1>4, <2>4, <2>7, <2>8 DEF Lightens
<1> QED BY <1>6, <1>7, <1>8

\* The steps by which the connection comes to its end
LEMMA LostLightens ==
  ASSUME IInv, Http1, FirstInv, Step, S = 1,
         \/ NetError \/ Fail \/ Free \/ Disconnect \/ Hang \/ CloseStream \/ Abandon \/ DestroyNet \/ RemoveStream \/ DestroyStream
         \/ Destroyed \/ ServiceEnd
  PROVE  Lightens
<1>0. /\ Types /\ 1 \in Streams /\ ~net.goaway /\ tx[1].end # "filter" /\ tx[1] \in TxType /\ rx[1] \in RxType
      /\ stream[1] \in StreamType /\ net \in NetType /\ TypeOK /\ todo # <<>> /\ Fits(Head(todo))
  <2>1. TypeOK /\ todo # <<>>
    BY TopOfStep DEF IInv
  <2> QED BY <2>1, One, FirstTop DEF TypeOK, Types, FirstInv
<1>1. Head(todo).op \notin {"Route", "Open"}
  BY DEF Do, NetError, Fail, Free, Disconnect, Hang, CloseStream, Abandon, DestroyNet, RemoveStream, DestroyStream, Destroyed, ServiceEnd
<1>2. ~net'.goaway
  <2>1. CASE NetError \/ Hang \/ Destroyed
    BY <1>0, <2>1 DEF NetError, Hang, Destroyed, NetType
  <2>2. CASE Fail \/ Free \/ Disconnect \/ CloseStream \/ Abandon \/ DestroyNet \/ RemoveStream \/ DestroyStream \/ ServiceEnd
    BY <1>0, <2>2 DEF Fail, Free, Disconnect, CloseStream, Abandon, DestroyNet, RemoveStream, DestroyStream, ServiceEnd
  <2> QED BY <2>1, <2>2
<1>3. rx'[1].routed = rx[1].routed
  <2>1. CASE CloseStream
    BY <1>0, <2>1 DEF CloseStream, Types, RxType
  <2>2. CASE ~CloseStream
    BY <2>2 DEF NetError, Fail, Free, Disconnect, Hang, Abandon, DestroyNet, RemoveStream, DestroyStream, Destroyed, ServiceEnd
  <2> QED BY <2>1, <2>2
<1>4. /\ tx'[1].handler = tx[1].handler /\ tx'[1].pipeline = tx[1].pipeline /\ tx'[1].started = tx[1].started
      /\ tx'[1].end # "filter"
  <2>1. CASE NetError \/ Fail \/ Hang \/ CloseStream \/ Abandon \/ DestroyNet \/ RemoveStream \/ Destroyed \/ ServiceEnd
    BY <1>0, <2>1 DEF NetError, Fail, Hang, CloseStream, Abandon, DestroyNet, RemoveStream, Destroyed, ServiceEnd
  <2>2. CASE Free
    <3>1. \E e \in {"dropped", tx[1].end} : \E f : tx' = [tx EXCEPT ![1].end = e, ![1].stale = f]
      BY <2>2 DEF Free
    <3> QED BY <1>0, <3>1 DEF Types, TxType
  <2>3. CASE Disconnect \/ DestroyStream
    <3>1. tx' = tx \/ tx' = [tx EXCEPT ![1].finConn = TRUE] \/ tx' = [tx EXCEPT ![1].opened = FALSE, ![1].working = FALSE]
      BY <2>3 DEF Disconnect, DestroyStream
    <3> QED BY <1>0, <3>1 DEF Types, TxType
  <2> QED BY <2>1, <2>2, <2>3
<1>5. /\ stream'[1].setting = stream[1].setting /\ stream'[1].disconnect = stream[1].disconnect
      /\ stream[1].state >= Parsed => stream'[1].state >= Parsed
  <2>1. CASE NetError \/ Fail \/ Free \/ Hang \/ CloseStream \/ Abandon \/ DestroyNet \/ RemoveStream \/ Destroyed \/ ServiceEnd
    BY <2>1 DEF NetError, Fail, Free, Hang, CloseStream, Abandon, DestroyNet, RemoveStream, Destroyed, ServiceEnd
  <2>2. CASE Disconnect \/ DestroyStream
    <3>1. \/ stream' = stream \/ stream' = [stream EXCEPT ![1].error = TRUE]
          \/ stream' = [stream EXCEPT ![1].counted = FALSE, ![1].state = Complete, ![1].destroyed = TRUE]
      BY <2>2 DEF Disconnect, DestroyStream
    <3>2. stream'[1].setting = stream[1].setting /\ stream'[1].disconnect = stream[1].disconnect
      BY <1>0, <3>1 DEF Types, StreamType
    <3>3. stream'[1].state = stream[1].state \/ stream'[1].state = Complete
      BY <1>0, <3>1 DEF Types, StreamType
    <3> QED BY <3>2, <3>3 DEF Complete, Parsed
  <2> QED BY <2>1, <2>2
<1>6. SameFirst
  BY <1>2, <1>3, <1>4, <1>5 DEF SameFirst
<1>7. \/ ServiceEnd /\ ~net.error /\ ~net.eof
      \/ Gone'
  <2>1. Gone => Gone'
    BY GoneStays
  <2>2. CASE NetError \/ Hang
    BY <1>0, <2>2 DEF NetError, Hang, Gone, NetType
  <2>3. CASE Disconnect
    <3>1. Has("Disconnect")
      <4>1. 1 \in 1..Len(todo) /\ todo[1] = Head(todo)
        BY <1>0 DEF TypeOK
      <4> QED BY <2>3, <4>1 DEF Disconnect, Do, Has
    <3> QED BY <2>1, <3>1 DEF Gone, Hanging
  <2>4. CASE ServiceEnd
    BY <2>1, <2>4 DEF Gone
  <2>5. CASE Fail \/ Free \/ CloseStream \/ Abandon \/ DestroyNet \/ RemoveStream \/ DestroyStream \/ Destroyed
    <3>1. Head(todo).op \in EndOps
      BY <2>5 DEF Do, Fail, Free, CloseStream, Abandon, DestroyNet, RemoveStream, DestroyStream, Destroyed, EndOps
    <3> QED BY <1>0, <2>1, <3>1 DEF Fits
  <2> QED BY <2>2, <2>3, <2>4, <2>5
<1>8. \E x : Then(x) /\ x \in Seq(Easy \cup Last) /\ (ServiceEnd /\ ~net.error /\ ~net.eof => x \in Seq(Easy))
  <2>1. /\ Run("Enable") \in Seq(Easy) /\ Run("FinalizeConnector") \in Seq(Easy) /\ Run("FinalizeInput") \in Seq(Easy)
        /\ Run("Finalize") \in Seq(Easy) /\ Run("Hang") \in Seq(Easy) /\ SetTo(S, Complete) \in Seq(Easy)
    <3>1. Complete \in (0..9) \ {Finalized}
      BY DEF Complete, Finalized
    <3> QED BY <3>1, EasyRuns DEF EasyOps
  <2>2. /\ Run("Abandon") \in Seq(Easy \cup Last) /\ Run("DestroyStream") \in Seq(Easy \cup Last)
        /\ Run("DestroyNet") \in Seq(Easy \cup Last) /\ Run("Destroyed") \in Seq(Easy \cup Last)
        /\ Error(S, Abort) \in Seq(Easy \cup Last) /\ Error(S, Silent) \in Seq(Easy \cup Last)
    BY EasyRuns DEF EndOps
  <2>3. \A x \in Seq(Easy) : x \in Seq(Easy \cup Last)
    OBVIOUS
  <2>4. \A b \in BOOLEAN, x \in Seq(Easy \cup Last) : When(b, x) \in Seq(Easy \cup Last)
    BY DEF When
  <2>5. \A x, y \in Seq(Easy \cup Last) : x \o y \in Seq(Easy \cup Last)
    OBVIOUS
  <2>6. <<>> \in Seq(Easy \cup Last)
    OBVIOUS
  <2>7. CASE NetError \/ Fail \/ Free
    <3>1. ~ServiceEnd
      BY <2>7 DEF NetError, Fail, Free, ServiceEnd, Do
    <3>2. \/ Then(<<>>) \/ Then(ForAll("Fail")) \/ Then(Error(S, Abort) \o Run("FinalizeConnector"))
          \/ Then(Run("FinalizeConnector"))
      BY <2>7 DEF NetError, Fail, Free, When
    <3>3. Error(S, Abort) \o Run("FinalizeConnector") \in Seq(Easy \cup Last)
      BY <2>1, <2>2, <2>3, <2>5
    <3> QED BY <2>1, <2>3, <2>6, <3>1, <3>2, <3>3, EasyForAll
  <2>8. ~(Disconnect /\ ServiceEnd) /\ ~(Hang /\ ServiceEnd) /\ ~(CloseStream /\ ServiceEnd) /\ ~(Abandon /\ ServiceEnd)
        /\ ~(DestroyNet /\ ServiceEnd) /\ ~(RemoveStream /\ ServiceEnd) /\ ~(DestroyStream /\ ServiceEnd) /\ ~(Destroyed /\ ServiceEnd)
    BY DEF Disconnect, Hang, CloseStream, Abandon, DestroyNet, RemoveStream, DestroyStream, Destroyed, ServiceEnd, Do
  <2>9. CASE Disconnect
    <3>1. PICK b \in BOOLEAN : Then(Run("FinalizeInput") \o Run("Finalize") \o When(b, Run("Hang")))
      BY <2>9 DEF Disconnect, Http1
    <3>2. Run("FinalizeInput") \o Run("Finalize") \o When(b, Run("Hang")) \in Seq(Easy \cup Last)
      BY <2>1, <2>3, <2>4, <2>5
    <3> QED BY <2>8, <2>9, <3>1, <3>2
  <2>10. CASE Hang \/ DestroyStream \/ Destroyed
    <3>1. Then(<<>>)
      BY <2>10 DEF Hang, DestroyStream, Destroyed
    <3> QED BY <2>6, <2>8, <2>10, <3>1
  <2>11. CASE CloseStream
    <3>1. PICK b \in BOOLEAN, c \in BOOLEAN : Then(When(b, When(c, Error(S, Silent)) \o Run("Abandon")))
      BY <2>11 DEF CloseStream, Listed
    <3>2. When(b, When(c, Error(S, Silent)) \o Run("Abandon")) \in Seq(Easy \cup Last)
      BY <2>2, <2>4, <2>5
    <3> QED BY <2>8, <2>11, <3>1, <3>2
  <2>12. CASE Abandon
    <3>1. Then(<<>>) \/ Then(SetTo(S, Complete))
      BY <2>12 DEF Abandon, When
    <3> QED BY <2>1, <2>3, <2>6, <2>8, <2>12, <3>1
  <2>13. CASE DestroyNet
    <3>1. Then(ForAll("RemoveStream") \o Run("Destroyed"))
      BY <2>13 DEF DestroyNet
    <3>2. ForAll("RemoveStream") \o Run("Destroyed") \in Seq(Easy \cup Last)
      BY <2>2, <2>5, EasyForAll
    <3> QED BY <2>8, <2>13, <3>1, <3>2
  <2>14. CASE RemoveStream
    <3>1. PICK b \in BOOLEAN : Then(When(b, Run("Abandon") \o Run("DestroyStream")))
      BY <2>14 DEF RemoveStream, Listed
    <3>2. When(b, Run("Abandon") \o Run("DestroyStream")) \in Seq(Easy \cup Last)
      BY <2>2, <2>4, <2>5
    <3> QED BY <2>8, <2>14, <3>1, <3>2
  <2>15. CASE ServiceEnd
    <3>1. IF net.error \/ net.eof THEN Then(ForAll("CloseStream") \o Run("DestroyNet")) ELSE Then(Run("Enable"))
      BY <1>0, <2>15 DEF ServiceEnd
    <3>2. ForAll("CloseStream") \o Run("DestroyNet") \in Seq(Easy \cup Last)
      BY <2>2, <2>5, EasyForAll
    <3> QED BY <2>1, <2>3, <3>1, <3>2
  <2> QED BY <2>7, <2>9, <2>10, <2>11, <2>12, <2>13, <2>14, <2>15
<1>9. \E x : Then(x) /\ Lightly(x)
  BY <1>7, <1>8 DEF Lightly
<1> QED BY <1>1, <1>5, <1>6, <1>9 DEF Lightens

\* What is under a loop, and under the call that starts one
Deep == {d \in Fit : ~AtOnce(d) /\ d.op \notin LoopOps \cup PartOps \cup {"Revert"}}

LEMMA DeepTail == ASSUME TypeOK, VInv, Http1, FirstInv, todo # <<>>, S = 1, Head(todo).op \in LoopOps \/ ~stream[1].setting
                  PROVE  Tail(todo) \in Seq(Deep)
<1>1. Tail(todo) \in Seq(Fit \cap Lower) /\ Alone /\ todo \in Seq(Calls)
  BY FirstTop, AloneTop, AloneUnset DEF TypeOK
<1>2. Len(todo) \in Nat /\ Len(Tail(todo)) = Len(todo) - 1 /\ \A i \in 1..Len(Tail(todo)) : Tail(todo)[i] = todo[i + 1]
  BY <1>1
<1> SUFFICES ASSUME NEW i \in 1..Len(Tail(todo)) PROVE Tail(todo)[i] \in Deep
  BY <1>1, InSeq
<1> DEFINE d == Tail(todo)[i]
<1>3. d \in Fit \cap Lower /\ Fits(d) /\ d \in Calls
  BY <1>1 DEF Fit
<1>4. d = todo[i + 1] /\ i + 1 \in 1..Len(todo) /\ i + 1 \in 2..Len(todo)
  BY <1>2
<1> HIDE DEF d
<1>5. ~AtOnce(d)
  BY <1>3 DEF Lower, Above
<1>6. d.op \in LoopOps \cup PartOps => d.s = 1
  BY <1>3 DEF Fits, FanOps, LoopOps, PartOps
<1>7. \A j \in 2..Len(todo) : ~Loops(j, 1)
  BY <1>1 DEF Alone
<1>8. d.op \notin LoopOps
  BY <1>4, <1>6, <1>7 DEF Loops
<1>9. d.op \notin PartOps
  <2>1. WaitOK(i + 1)
    BY <1>4 DEF VInv
  <2>2. d.op \in PartOps => \E j \in 1..Len(todo) : j > i + 1 /\ Loops(j, d.s)
    BY <1>4, <2>1 DEF WaitOK
  <2>3. \A j \in 1..Len(todo) : j > i + 1 => j \in 2..Len(todo)
    BY <1>2
  <2> QED BY <1>6, <1>7, <2>2, <2>3
<1>10. d.op # "Revert"
  BY <1>3 DEF Fits, Lower, Above
<1> QED BY <1>3, <1>5, <1>8, <1>9, <1>10 DEF d, Deep

LEMMA DeepAbove == ASSUME NEW c \in Calls, ~Serves(c), NEW d \in Deep
                   PROVE  Above(c, d)
BY DEF Deep, Above, LoopOps, PartOps

LEMMA DeepFit == ASSUME Gone => Gone'
                 PROVE  Deep \subseteq Fit'
<1> SUFFICES ASSUME NEW d \in Deep PROVE d \in Fit'
  OBVIOUS
<1>1. d \in Calls /\ Fits(d) /\ d.op \notin {"Open", "Revert", "Parsed", "StartHandler"}
  BY DEF Deep, Fit, LoopOps, PartOps
<1> QED BY <1>1 DEF Fits, Fit

\* The calls of a turn of the loop
Turns == Easy \cup {c \in Calls : c.s = 1 /\ c.op \in {"First", "Content", "Ready", "Finalized", "Update", "ReadyHandler"}}
RouteCall == Call("Route", 1, 0)
StartCall == Call("StartHandler", 1, 0)
SoftCall == Call("Error", 1, Soft)
TurnCalls == Turns \cup {RouteCall, StartCall, SoftCall}
Turned(x) ==
  /\ x \in Seq(TurnCalls) /\ Ordered(x)
  /\ (\E i \in 1..Len(x) : x[i] = StartCall) => \E i \in 1..Len(x) : x[i].op = "Route"

LEMMA TurnCallsAre == /\ RouteCall \in Calls /\ RouteCall.op = "Route" /\ RouteCall.s = 1
                      /\ StartCall \in Calls /\ StartCall.op = "StartHandler" /\ StartCall.s = 1
                      /\ SoftCall \in Calls /\ SoftCall.op = "Error" /\ SoftCall.n = Soft /\ SoftCall.s = 1
                      /\ TurnCalls \subseteq Calls
                      /\ \A c \in TurnCalls : ~Serves(c)
                      /\ \A c \in Turns : ~AtOnce(c) /\ c.op \notin {"Parsed", "Revert", "Route", "Open", "StartHandler"}
<1>1. RouteCall \in Calls /\ StartCall \in Calls /\ SoftCall \in Calls
  <2>1. {"Route", "StartHandler", "Error"} \subseteq Ops /\ 0 \in 0..9 /\ Soft \in 0..9
    BY DEF Ops, Soft
  <2> QED BY <2>1, One, CallType DEF RouteCall, StartCall, SoftCall
<1>2. /\ RouteCall.op = "Route" /\ RouteCall.s = 1
      /\ StartCall.op = "StartHandler" /\ StartCall.s = 1
      /\ SoftCall.op = "Error" /\ SoftCall.n = Soft /\ SoftCall.s = 1
  BY DEF RouteCall, StartCall, SoftCall, Call
<1>3. Turns \subseteq Calls /\ \A c \in Turns : ~Serves(c)
  BY DEF Turns, Easy, Serves
<1>4. \A c \in Turns : ~AtOnce(c) /\ c.op \notin {"Parsed", "Revert", "Route", "Open", "StartHandler"}
  BY DEF Turns, Easy, AtOnce, LoopOps, PartOps
<1>5. TurnCalls \subseteq Calls
  BY <1>1, <1>3 DEF TurnCalls
<1>6. \A c \in TurnCalls : ~Serves(c)
  BY <1>2, <1>3 DEF TurnCalls, Serves
<1> HIDE DEF RouteCall, StartCall, SoftCall
<1> QED BY <1>1, <1>2, <1>4, <1>5, <1>6

LEMMA PlainAbove == /\ \A c \in Turns \cup {StartCall}, d \in Turns \cup {StartCall} : Above(c, d)
                    /\ \A d \in Turns \cup {StartCall} : Above(RouteCall, d)
                    /\ \A d \in Turns \cup {StartCall, RouteCall} : Above(SoftCall, d)
<1>1. /\ \A d \in Turns \cup {StartCall} : ~AtOnce(d) /\ d.op \notin {"Parsed", "Revert", "Route", "Open"}
      /\ \A c \in Turns \cup {StartCall, RouteCall, SoftCall} : ~Serves(c)
  BY TurnCallsAre DEF AtOnce, TurnCalls
<1>2. \A c \in Turns \cup {StartCall, RouteCall}, d \in Turns \cup {StartCall} : Above(c, d)
  BY <1>1 DEF Above
<1>3. \A d \in Turns \cup {StartCall, RouteCall} : Above(SoftCall, d)
  BY <1>1, TurnCallsAre DEF Above, AtOnce, LoopOps, PartOps
<1> QED BY <1>2, <1>3

LEMMA PlainTurned == ASSUME NEW x \in Seq(Turns)
                     PROVE  Turned(x)
<1>1. Ordered(x)
  <2>1. \A i \in 1..Len(x) : x[i] \in Turns
    OBVIOUS
  <2> QED BY <2>1, PlainAbove DEF Ordered
<1>2. x \in Seq(TurnCalls)
  BY DEF TurnCalls
<1>3. \A i \in 1..Len(x) : x[i] # StartCall
  <2>1. \A i \in 1..Len(x) : x[i] \in Turns
    OBVIOUS
  <2>2. StartCall \notin Turns
    BY TurnCallsAre
  <2> QED BY <2>1, <2>2
<1> QED BY <1>1, <1>2, <1>3 DEF Turned

LEMMA PartsTurned == ASSUME NEW low \in Seq(Turns)
                     PROVE  Turned(<<RouteCall>> \o <<StartCall>> \o low)
<1> HIDE DEF RouteCall, StartCall, Turns
<1>1. <<StartCall>> \in Seq(Turns \cup {StartCall}) /\ low \in Seq(Turns \cup {StartCall}) /\ Ordered(<<StartCall>>)
  BY OrderedFew
<1>2. Ordered(low)
  BY PlainTurned DEF Turned
<1>3. Ordered(<<StartCall>> \o low)
  BY <1>1, <1>2, PlainAbove, OrderedCat
<1>4. <<StartCall>> \o low \in Seq(Turns \cup {StartCall})
  BY <1>1
<1>5. Ordered(<<RouteCall>> \o (<<StartCall>> \o low))
  <2> DEFINE C == {RouteCall}
             y == <<StartCall>> \o low
  <2>1. \A c \in C, d \in Turns \cup {StartCall} : Above(c, d)
    BY PlainAbove
  <2>2. <<RouteCall>> \in Seq(C) /\ Ordered(<<RouteCall>>)
    BY OrderedFew
  <2>3. Ordered(y) /\ y \in Seq(Turns \cup {StartCall})
    BY <1>3, <1>4
  <2> HIDE DEF C, y
  <2>4. Ordered(<<RouteCall>> \o y)
    BY <2>1, <2>2, <2>3, OrderedCat
  <2> QED BY <2>4 DEF y
<1>6. <<RouteCall>> \o <<StartCall>> \o low = <<RouteCall>> \o (<<StartCall>> \o low)
  OBVIOUS
<1>7. <<RouteCall>> \o <<StartCall>> \o low \in Seq(TurnCalls)
  BY DEF TurnCalls
<1>8. 1 \in 1..Len(<<RouteCall>> \o <<StartCall>> \o low) /\ (<<RouteCall>> \o <<StartCall>> \o low)[1] = RouteCall
  OBVIOUS
<1> QED BY <1>5, <1>6, <1>7, <1>8, TurnCallsAre DEF Turned

LEMMA SoftTurned == ASSUME NEW x, Turned(x), \A i \in 1..Len(x) : x[i] # SoftCall
                    PROVE  Turned(<<SoftCall>> \o x)
<1> HIDE DEF RouteCall, StartCall, Turns, SoftCall
<1>1. x \in Seq(TurnCalls) /\ Ordered(x)
  BY DEF Turned
<1>2. \A i \in 1..Len(x) : x[i] \in Turns \cup {RouteCall, StartCall}
  BY <1>1 DEF TurnCalls
<1>3. x \in Seq(Turns \cup {RouteCall, StartCall})
  BY <1>1, <1>2, InSeq
<1>4. Ordered(<<SoftCall>> \o x)
  <2> DEFINE C == {SoftCall}
             D == Turns \cup {RouteCall, StartCall}
  <2>1. \A c \in C, d \in D : Above(c, d)
    BY PlainAbove
  <2>2. <<SoftCall>> \in Seq(C) /\ Ordered(<<SoftCall>>) /\ x \in Seq(D)
    BY <1>3, OrderedFew
  <2> HIDE DEF C, D
  <2> QED BY <1>1, <2>1, <2>2, OrderedCat
<1>5. <<SoftCall>> \o x \in Seq(TurnCalls)
  BY <1>1 DEF TurnCalls
<1>6. /\ Len(<<SoftCall>> \o x) = Len(x) + 1 /\ Len(x) \in Nat
      /\ \A i \in 1..Len(x) : i + 1 \in 1..Len(<<SoftCall>> \o x) /\ (<<SoftCall>> \o x)[i + 1] = x[i]
      /\ (<<SoftCall>> \o x)[1] = SoftCall
  BY <1>1
<1>7. ASSUME NEW i \in 1..Len(<<SoftCall>> \o x), (<<SoftCall>> \o x)[i] = StartCall
      PROVE  \E j \in 1..Len(<<SoftCall>> \o x) : (<<SoftCall>> \o x)[j].op = "Route"
  <2>1. i # 1
    BY <1>6, <1>7, TurnCallsAre
  <2>2. i - 1 \in 1..Len(x) /\ i = (i - 1) + 1
    BY <1>6, <2>1
  <2>3. x[i - 1] = StartCall
    BY <1>6, <1>7, <2>2
  <2>4. PICK j \in 1..Len(x) : x[j].op = "Route"
    BY <2>2, <2>3 DEF Turned
  <2> QED BY <1>6, <2>4
<1> QED BY <1>4, <1>5, <1>7 DEF Turned

\* What a turn of the loop does
LEMMA TurnFirst ==
  ASSUME IInv, VInv, Http1, FirstInv, Step, S = 1, Head(todo).op \in LoopOps \/ ~stream[1].setting,
         NEW x \in Seq(Fit'), Ordered(x), \A i \in 1..Len(x) : ~Serves(x[i]), Then(x),
         ~net'.goaway, tx'[1].end # "filter", stream'[1].disconnect => stream[1].disconnect,
         IF rx'[1].routed THEN stream'[1].state >= Parsed /\ (tx'[1].pipeline \/ Has("Open")')
         ELSE tx'[1].handler = "none" /\ ~tx'[1].pipeline /\ ~tx'[1].started
  PROVE  FirstInv'
<1>1. TypeOK /\ todo # <<>>
  BY TopOfStep DEF IInv
<1>2. Tail(todo) \in Seq(Deep)
  BY <1>1, DeepTail
<1>3. Gone => Gone'
  BY GoneStays
<1>4. Deep \subseteq Fit'
  BY <1>3, DeepFit
<1>5. todo' \in Seq(Fit')
  <2>1. Tail(todo) \in Seq(Fit')
    BY <1>2, <1>4
  <2> QED BY <2>1 DEF Then
<1>6. Ordered(todo)'
  <2> DEFINE C == {c \in Calls : ~Serves(c)}
  <2>1. x \in Seq(C)
    <3>1. \A i \in 1..Len(x) : x[i] \in C
      BY DEF Fit
    <3> QED BY <3>1, InSeq
  <2>2. Ordered(Tail(todo))
    <3>1. todo \in Seq(Calls) /\ Ordered(todo)
      BY <1>1, FirstTop DEF TypeOK
    <3> QED BY <1>1, <3>1, Underneath
  <2>3. \A c \in C, d \in Deep : Above(c, d)
    BY DeepAbove
  <2> HIDE DEF C
  <2>4. Ordered(x \o Tail(todo))
    BY <1>2, <2>1, <2>2, <2>3, OrderedCat
  <2> QED BY <2>4 DEF Then, Ordered
<1>7. stream'[1].disconnect => net'.error \/ Hanging' \/ Has("AfterError")'
  BY HungStays
<1>8. \A s \in Streams \ {1} : Unused(s)'
  BY <1>1, OthersUnused
<1> QED BY <1>5, <1>6, <1>7, <1>8 DEF FirstInv

LEMMA TurnedFirst ==
  ASSUME IInv, VInv, Http1, FirstInv, Step, S = 1, Head(todo).op \in LoopOps \/ ~stream[1].setting,
         NEW x, Turned(x), Then(x),
         ~net'.goaway, tx'[1].end # "filter", stream'[1].disconnect => stream[1].disconnect,
         IF rx'[1].routed THEN stream'[1].state >= Parsed /\ (tx'[1].pipeline \/ Has("Open")')
         ELSE tx'[1].handler = "none" /\ ~tx'[1].pipeline /\ ~tx'[1].started
  PROVE  FirstInv'
<1>1. x \in Seq(TurnCalls) /\ Ordered(x) /\ x \in Seq(Calls)
  BY TurnCallsAre DEF Turned
<1>2. \A i \in 1..Len(x) : ~Serves(x[i])
  BY <1>1, TurnCallsAre
<1>3. x \in Seq(Fit')
  <2> SUFFICES ASSUME NEW i \in 1..Len(x) PROVE x[i] \in Fit'
    BY <1>1, InSeq
  <2>1. x[i] \in TurnCalls /\ x[i] \in Calls
    BY <1>1
  <2>2. CASE x[i] \in Easy
    BY <2>1, <2>2, EasyFit DEF Fit
  <2>3. CASE x[i].s = 1 /\ x[i].op \in {"First", "Content", "Ready", "Finalized", "Update", "ReadyHandler", "Route"}
    <3>1. Fits(x[i])'
      BY <2>3 DEF Fits, FilterOps, EndOps
    <3> QED BY <2>1, <3>1 DEF Fit
  <2>4. CASE x[i] = StartCall
    <3>1. PICK j \in 1..Len(x) : x[j].op = "Route"
      BY <2>4 DEF Turned
    <3>2. Has("Route")'
      <4>1. TypeOK /\ todo # <<>>
        BY TopOfStep DEF IInv
      <4> QED BY <1>1, <3>1, <4>1, HasKept
    <3>3. x[i].s = 1 /\ x[i].op = "StartHandler"
      BY <2>4, TurnCallsAre
    <3>4. Fits(x[i])'
      BY <3>2, <3>3 DEF Fits, FilterOps, EndOps
    <3> QED BY <2>1, <3>4 DEF Fit
  <2>5. CASE x[i] = SoftCall
    <3>1. x[i].s = 1 /\ x[i].op = "Error" /\ x[i].n = Soft
      BY <2>5, TurnCallsAre
    <3>2. Fits(x[i])'
      BY <3>1 DEF Fits, FilterOps, EndOps
    <3> QED BY <2>1, <3>2 DEF Fit
  <2> QED BY <2>1, <2>2, <2>3, <2>4, <2>5, TurnCallsAre DEF TurnCalls, Turns
<1> QED BY <1>1, <1>2, <1>3, TurnFirst

LEMMA TurnRuns ==
  /\ \A op \in {"First", "Content", "Ready", "Finalized", "Update", "ReadyHandler"}, n \in 0..9 : Call(op, 1, n) \in Turns
  /\ \A c \in Turns : <<c>> \in Seq(Turns)
  /\ \A x, y \in Seq(Turns) : x \o y \in Seq(Turns)
  /\ \A x \in Seq(Easy) : x \in Seq(Turns)
  /\ <<>> \in Seq(Turns)
<1>1. ASSUME NEW op \in {"First", "Content", "Ready", "Finalized", "Update", "ReadyHandler"}, NEW n \in 0..9
      PROVE  Call(op, 1, n) \in Turns
  <2>1. op \in Ops
    BY DEF Ops
  <2>2. Call(op, 1, n) \in Calls
    BY <2>1, One, CallType
  <2> QED BY <2>2 DEF Turns, Call
<1>2. \A c \in Turns : <<c>> \in Seq(Turns)
  OBVIOUS
<1>3. \A x, y \in Seq(Turns) : x \o y \in Seq(Turns)
  OBVIOUS
<1>4. \A x \in Seq(Easy) : x \in Seq(Turns)
  BY DEF Turns
<1> QED BY <1>1, <1>2, <1>3, <1>4

LEMMA JoinFour ==
  ASSUME NEW C, NEW x \in Seq(C), NEW y \in Seq(C), NEW z \in Seq(C), NEW w \in Seq(C), Then(x \o y \o z \o w)
  PROVE  Then(x \o (y \o (z \o w)))
<1>1. x \o y \in Seq(C) /\ z \o w \in Seq(C)
  OBVIOUS
<1> DEFINE u == x \o y
<1>2. u \in Seq(C)
  BY <1>1
<1> HIDE DEF u
<1>3. u \o z \o w = u \o (z \o w)
  BY <1>2
<1> DEFINE v == z \o w
<1>4. v \in Seq(C)
  BY <1>1
<1> HIDE DEF v
<1>5. (x \o y) \o v = x \o (y \o v)
  BY <1>4
<1>6. x \o y \o z \o w = x \o (y \o (z \o w))
  BY <1>3, <1>5 DEF u, v
<1> QED BY <1>6

LEMMA ProcessFirstKeeps ==
  ASSUME IInv, VInv, Http1, FirstInv, Step, S = 1, ProcessFirst \/ ProcessParsed \/ ProcessContent \/ ProcessReady
  PROVE  FirstInv'
<1>1. Head(todo).op \in LoopOps
  BY DEF ProcessFirst, ProcessParsed, ProcessContent, ProcessReady, Do, LoopOps
<1>2. net' = net /\ stream' = stream /\ rx' = rx /\ tx' = tx
  BY DEF ProcessFirst, ProcessParsed, ProcessContent, ProcessReady
<1>3. /\ \A n \in 0..9 : <<Call("Update", S, n)>> \in Seq(Turns)
      /\ Error(S, Close) \in Seq(Turns) /\ Run("InputEnd") \in Seq(Turns)
  <2>1. \A n \in 0..9 : Call("Update", 1, n) \in Turns
    BY TurnRuns
  <2>2. Error(S, Close) \in Seq(Easy) /\ Run("InputEnd") \in Seq(Easy)
    BY EasyRuns DEF EasyOps
  <2> QED BY <2>1, <2>2, TurnRuns
<1>4. /\ 0 \in 0..9 /\ First \in 0..9 /\ Content \in 0..9 /\ Ready \in 0..9 /\ Running \in 0..9
  BY DEF First, Content, Ready, Running
<1>5. Run("Route") = <<RouteCall>> /\ Run("StartHandler") = <<StartCall>> /\ Error(S, Soft) = <<SoftCall>>
  BY DEF Run, Error, RouteCall, StartCall, SoftCall
<1>6. \A x : Turned(x) /\ Then(x) => FirstInv'
  <2>1. Has("Open") => Has("Open")' \/ ~\E x : Turned(x) /\ Then(x)
    <3>1. TypeOK /\ todo # <<>>
      BY TopOfStep DEF IInv
    <3>2. \A x : Turned(x) => x \in Seq(Calls)
      BY TurnCallsAre DEF Turned
    <3>3. Head(todo).op # "Open"
      BY <1>1 DEF LoopOps
    <3> QED BY <3>1, <3>2, <3>3, HasKept
  <2> SUFFICES ASSUME NEW x, Turned(x), Then(x) PROVE FirstInv'
    OBVIOUS
  <2>2. Has("Open") => Has("Open")'
    BY <2>1
  <2>3. ~net'.goaway /\ tx'[1].end # "filter" /\ (stream'[1].disconnect => stream[1].disconnect)
    BY <1>2 DEF FirstInv
  <2>4. IF rx'[1].routed THEN stream'[1].state >= Parsed /\ (tx'[1].pipeline \/ Has("Open")')
        ELSE tx'[1].handler = "none" /\ ~tx'[1].pipeline /\ ~tx'[1].started
    BY <1>2, <2>2 DEF FirstInv
  <2> QED BY <1>1, <2>3, <2>4, TurnedFirst
<1>7. CASE ProcessFirst
  <2>1. Error(S, Close) \o <<Call("Update", S, 0)>> \in Seq(Turns) /\ <<Call("Update", S, First)>> \in Seq(Turns)
    BY <1>3, <1>4, TurnRuns
  <2>2. Then(Error(S, Close) \o <<Call("Update", S, 0)>>) \/ Then(<<Call("Update", S, First)>>)
    BY <1>7 DEF ProcessFirst
  <2> QED BY <1>6, <2>1, <2>2, PlainTurned
<1>8. CASE ProcessContent
  <2>1. Run("InputEnd") \o <<Call("Update", S, Ready)>> \in Seq(Turns) /\ <<Call("Update", S, Content)>> \in Seq(Turns)
    BY <1>3, <1>4, TurnRuns
  <2>2. Then(Run("InputEnd") \o <<Call("Update", S, Ready)>>) \/ Then(<<Call("Update", S, Content)>>)
    BY <1>8 DEF ProcessContent
  <2> QED BY <1>6, <2>1, <2>2, PlainTurned
<1>9. CASE ProcessReady
  <2> DEFINE low == <<Call("Service", S, 1), Call("ReadyHandler", S, 0), Call("Update", S, Running)>>
  <2>1. low \in Seq(Turns)
    <3>1. Call("Service", S, 1) \in Turns /\ Call("ReadyHandler", S, 0) \in Turns /\ Call("Update", S, Running) \in Turns
      BY <1>4, TurnRuns, EasyCalls DEF Turns
    <3> QED BY <3>1
  <2>2. Then(low) \/ Then(<<RouteCall>> \o <<StartCall>> \o low)
    <3>1. Then(When(rx[S].eof, Run("Route") \o Run("StartHandler")) \o low)
      BY <1>9 DEF ProcessReady
    <3>2. <<>> \o low = low
      BY <2>1
    <3> HIDE DEF low
    <3> QED BY <1>5, <3>1, <3>2 DEF When
  <2> HIDE DEF low
  <2> QED BY <1>6, <2>1, <2>2, PlainTurned, PartsTurned
<1>10. CASE ProcessParsed
  <2>1. CASE stream[S].disconnect
    <3>1. Then(<<Call("Update", S, Ready)>>)
      BY <1>10, <2>1 DEF ProcessParsed
    <3> QED BY <1>3, <1>4, <1>6, <3>1, PlainTurned
  <2>2. CASE ~stream[S].disconnect
    <3>1. PICK bad \in BOOLEAN, big \in BOOLEAN :
            Then(When(bad, Error(S, Soft)) \o When(rx[S].streaming, Run("Route") \o Run("StartHandler"))
                 \o When(big, Error(S, Close)) \o <<Call("Update", S, Content)>>)
      BY <1>10, <2>2 DEF ProcessParsed
    <3> DEFINE a == When(bad, Error(S, Soft))
               b == When(rx[S].streaming, Run("Route") \o Run("StartHandler"))
               low == When(big, Error(S, Close)) \o <<Call("Update", S, Content)>>
    <3>2. low \in Seq(Turns) /\ When(big, Error(S, Close)) \in Seq(Turns) /\ <<Call("Update", S, Content)>> \in Seq(Turns)
      BY <1>3, <1>4, TurnRuns DEF When
    <3>3. a = <<>> \/ a = <<SoftCall>>
      BY <1>5 DEF When
    <3>4. b = <<>> \/ b = <<RouteCall>> \o <<StartCall>>
      BY <1>5 DEF When
    <3>5. a \in Seq(TurnCalls) /\ b \in Seq(TurnCalls) /\ low \in Seq(TurnCalls)
      <4>1. {SoftCall, RouteCall, StartCall} \subseteq TurnCalls /\ Turns \subseteq TurnCalls
        BY DEF TurnCalls
      <4> DEFINE C == TurnCalls
      <4>2. SoftCall \in C /\ RouteCall \in C /\ StartCall \in C
        BY <4>1
      <4>3. low \in Seq(C)
        BY <3>2, <4>1
      <4> HIDE DEF a, b, low, C
      <4>4. <<SoftCall>> \in Seq(C) /\ <<RouteCall>> \o <<StartCall>> \in Seq(C) /\ <<>> \in Seq(C)
        BY <4>2
      <4>5. a \in Seq(C) /\ b \in Seq(C)
        BY <3>3, <3>4, <4>4
      <4> QED BY <4>3, <4>5 DEF C
    <3>6. Then(a \o (b \o low))
      <4> DEFINE c == When(big, Error(S, Close))
                 last == <<Call("Update", S, Content)>>
      <4>1. c \in Seq(TurnCalls) /\ last \in Seq(TurnCalls)
        BY <3>2 DEF TurnCalls
      <4>2. Then(a \o b \o c \o last) /\ low = c \o last
        BY <3>1
      <4> HIDE DEF a, b, c, last, low
      <4>3. Then(a \o (b \o (c \o last)))
        BY <3>5, <4>1, <4>2, JoinFour
      <4> QED BY <4>2, <4>3
    <3> HIDE DEF a, b, low
    <3> DEFINE mid == b \o low
               x == a \o mid
    <3>7. mid = low \/ mid = <<RouteCall>> \o <<StartCall>> \o low
      <4>1. <<>> \o low = low
        BY <3>2
      <4> QED BY <3>4, <4>1
    <3>8. Turned(mid) /\ mid \in Seq(Turns \cup {RouteCall, StartCall})
      <4>1. low \in Seq(Turns \cup {RouteCall, StartCall}) /\ <<RouteCall>> \o <<StartCall>> \in Seq(Turns \cup {RouteCall, StartCall})
        BY <3>2
      <4>2. <<RouteCall>> \o <<StartCall>> \o low \in Seq(Turns \cup {RouteCall, StartCall})
        BY <4>1
      <4>3. Turned(low) /\ Turned(<<RouteCall>> \o <<StartCall>> \o low)
        BY <3>2, PlainTurned, PartsTurned
      <4> HIDE DEF mid
      <4>4. CASE mid = low
        BY <4>1, <4>3, <4>4
      <4>5. CASE mid = <<RouteCall>> \o <<StartCall>> \o low
        BY <4>2, <4>3, <4>5
      <4> QED BY <3>7, <4>4, <4>5
    <3> HIDE DEF mid
    <3>9. \A i \in 1..Len(mid) : mid[i] # SoftCall
      <4>1. SoftCall \notin Turns \cup {RouteCall, StartCall}
        BY TurnCallsAre DEF AtOnce
      <4>2. \A i \in 1..Len(mid) : mid[i] \in Turns \cup {RouteCall, StartCall}
        BY <3>8
      <4> QED BY <4>1, <4>2
    <3>10. Turned(x) /\ Then(x)
      <4>1. x = mid \/ x = <<SoftCall>> \o mid
        <5>1. mid \in Seq(TurnCalls)
          BY <3>8 DEF Turned
        <5>2. <<>> \o mid = mid
          BY <5>1
        <5> QED BY <3>3, <5>2
      <4>2. Then(x)
        BY <3>6 DEF mid
      <4> HIDE DEF x
      <4> QED BY <3>8, <3>9, <4>1, <4>2, SoftTurned
    <3> HIDE DEF x
    <3> QED BY <1>6, <3>10
  <2> QED BY <2>1, <2>2
<1> QED BY <1>7, <1>8, <1>9, <1>10

\* The request of the error document begins as one that is not routed.
LEMMA FinalizedFirstKeeps ==
  ASSUME IInv, VInv, Http1, FirstInv, Step, S = 1, ProcessFinalized
  PROVE  FirstInv'
<1>1. TypeOK /\ todo # <<>> /\ Head(todo).op \in LoopOps /\ Head(todo).op # "Open" /\ Types /\ 1 \in Streams
  BY TopOfStep, One DEF IInv, ProcessFinalized, Do, LoopOps, TypeOK, Types
<1>2. net' = net
  BY DEF ProcessFinalized
<1>3. tx[1] \in TxType /\ stream[1] \in StreamType /\ rx[1] \in RxType
  BY <1>1 DEF Types
<1>4. CASE tx[1].errdoc /\ ~rx[1].errdoc
  <2>1. /\ stream'[1].disconnect = stream[1].disconnect
        /\ ~rx'[1].routed
        /\ tx'[1].handler = "none" /\ ~tx'[1].pipeline /\ ~tx'[1].started /\ tx'[1].end = "none"
    <3>1. /\ stream' = [stream EXCEPT ![1].state = Parsed, ![1].target = Begin, ![1].error = FALSE,
                                      ![1].timer = "none", ![1].h2 = "idle"]
          /\ rx' = [rx EXCEPT ![1] = [FreshRx(net.proto) EXCEPT !.errdoc = TRUE]]
          /\ \E v : tx' = [tx EXCEPT ![1] = [FreshTx EXCEPT !.stale = v]]
      BY <1>4 DEF ProcessFinalized
    <3>2. stream'[1].disconnect = stream[1].disconnect
      BY <1>1, <1>3, <3>1 DEF Types, StreamType
    <3>3. ~rx'[1].routed
      BY <1>1, <3>1 DEF Types, FreshRx
    <3>4. tx'[1].handler = "none" /\ ~tx'[1].pipeline /\ ~tx'[1].started /\ tx'[1].end = "none"
      BY <1>1, <3>1 DEF Types, FreshTx
    <3> QED BY <3>2, <3>3, <3>4
  <2>2. Then(<<Call("Parsed", 1, 0)>>)
    BY <1>4 DEF ProcessFinalized, Run
  <2>3. <<Call("Parsed", 1, 0)>> \in Seq(Fit') /\ Ordered(<<Call("Parsed", 1, 0)>>)
        /\ \A i \in 1..Len(<<Call("Parsed", 1, 0)>>) : ~Serves(<<Call("Parsed", 1, 0)>>[i])
    <3>1. Call("Parsed", 1, 0) \in Calls
      BY One, CallType DEF Ops
    <3>2. Call("Parsed", 1, 0).op = "Parsed" /\ Call("Parsed", 1, 0).s = 1
      BY DEF Call
    <3>3. Fits(Call("Parsed", 1, 0))'
      BY <2>1, <3>2 DEF Fits, FilterOps, EndOps
    <3>4. Call("Parsed", 1, 0) \in Fit' /\ ~Serves(Call("Parsed", 1, 0))
      BY <3>1, <3>2, <3>3 DEF Fit, Serves
    <3> QED BY <3>4, OrderedFew
  <2>4. ~net'.goaway
    BY <1>2 DEF FirstInv
  <2> QED BY <1>1, <2>1, <2>2, <2>3, <2>4, TurnFirst
<1>5. CASE ~(tx[1].errdoc /\ ~rx[1].errdoc)
  <2>1. /\ tx' = [tx EXCEPT ![1].opened = FALSE, ![1].working = FALSE]
        /\ rx' = rx
        /\ stream' = stream \/ stream' = [stream EXCEPT ![1].counted = FALSE]
        /\ Then(<<Call("Update", 1, Finalized)>>) \/ Then(<<Call("Update", 1, Complete)>>)
    BY <1>5 DEF ProcessFinalized
  <2>2. /\ tx'[1].handler = tx[1].handler /\ tx'[1].pipeline = tx[1].pipeline /\ tx'[1].started = tx[1].started
        /\ tx'[1].end = tx[1].end
    BY <1>1, <1>3, <2>1 DEF Types, TxType
  <2>3. stream'[1].disconnect = stream[1].disconnect /\ stream'[1].state = stream[1].state
    BY <1>1, <1>3, <2>1 DEF Types, StreamType
  <2>4. Turned(<<Call("Update", 1, Finalized)>>) /\ Turned(<<Call("Update", 1, Complete)>>)
    <3>1. Finalized \in 0..9 /\ Complete \in 0..9
      BY DEF Finalized, Complete
    <3> QED BY <3>1, TurnRuns, PlainTurned
  <2>5. Has("Open") => Has("Open")'
    <3>1. <<Call("Update", 1, Finalized)>> \in Seq(Calls) /\ <<Call("Update", 1, Complete)>> \in Seq(Calls)
      BY <2>4, TurnCallsAre DEF Turned
    <3> QED BY <1>1, <2>1, <3>1, HasKept
  <2>6. IF rx'[1].routed THEN stream'[1].state >= Parsed /\ (tx'[1].pipeline \/ Has("Open")')
        ELSE tx'[1].handler = "none" /\ ~tx'[1].pipeline /\ ~tx'[1].started
    BY <2>1, <2>2, <2>3, <2>5 DEF FirstInv
  <2>7. ~net'.goaway /\ tx'[1].end # "filter" /\ (stream'[1].disconnect => stream[1].disconnect)
    BY <1>2, <2>2, <2>3 DEF FirstInv
  <2> QED BY <1>1, <2>1, <2>4, <2>6, <2>7, TurnedFirst
<1> QED BY <1>4, <1>5

LEMMA EnterFirstKeeps ==
  ASSUME IInv, VInv, Http1, FirstInv, Step, S = 1, Head(todo).op \in LoopOps \cup {"SetState"},
         Head(todo).op \in LoopOps \/ ~stream[1].setting,
         NEW next \in 1..9, next > stream[1].state, NEW target, Enter(1, next, target), rx' = rx, tx' = tx
  PROVE  FirstInv'
<1>1. TypeOK /\ todo # <<>> /\ Types /\ 1 \in Streams /\ stream[1] \in StreamType /\ Head(todo).op # "Open"
  <2>1. TypeOK /\ todo # <<>>
    BY TopOfStep DEF IInv
  <2> QED BY <2>1, One DEF TypeOK, Types, LoopOps
<1>2. net' = net /\ stream'[1].state = next /\ stream'[1].disconnect = stream[1].disconnect /\ Then(Visit(1, next))
  <2>1. /\ net' = net /\ Then(Visit(1, next))
        /\ stream' = [stream EXCEPT ![1].setting = TRUE, ![1].state = next, ![1].target = target,
                                    ![1].counted = @ \/ next = First]
    BY DEF Enter
  <2> QED BY <1>1, <2>1 DEF Types, StreamType
<1>3. /\ rx[1].routed => next > Parsed
      /\ ~net'.goaway /\ tx'[1].end # "filter" /\ (stream'[1].disconnect => stream[1].disconnect)
  <2>1. stream[1].state \in 0..9
    BY <1>1 DEF StreamType
  <2> QED BY <1>2, <2>1 DEF FirstInv, Parsed
<1>4. ASSUME NEW x \in Seq(Calls), Then(x)
      PROVE  IF rx'[1].routed THEN stream'[1].state >= Parsed /\ (tx'[1].pipeline \/ Has("Open")')
             ELSE tx'[1].handler = "none" /\ ~tx'[1].pipeline /\ ~tx'[1].started
  <2>1. Has("Open") => Has("Open")'
    BY <1>1, <1>4, HasKept
  <2>2. rx[1].routed => next >= Parsed
    BY <1>3 DEF Parsed
  <2> QED BY <1>2, <2>1, <2>2 DEF FirstInv
<1>5. CASE next = Parsed
  <2> DEFINE a == Call("Headers", 1, 0)
             b == Call("Parsed", 1, 0)
             x == <<a, b>>
  <2>1. Visit(1, next) = x
    BY <1>5 DEF Visit, First, Parsed, Content, Ready, Finalized
  <2>2. a \in Easy /\ b \in Calls /\ b.op = "Parsed" /\ b.s = 1
    <3>1. a \in Easy
      BY EasyCalls DEF EasyOps
    <3>2. b \in Calls
      BY One, CallType DEF Ops
    <3> QED BY <3>1, <3>2 DEF Call
  <2> HIDE DEF a, b
  <2>3. ~rx'[1].routed
    BY <1>3, <1>5 DEF Parsed
  <2>4. Fits(b)'
    BY <2>2, <2>3 DEF Fits, FilterOps, EndOps
  <2>5. a \in Fit' /\ b \in Fit' /\ a \in Calls /\ ~Serves(a) /\ ~Serves(b) /\ ~AtOnce(b)
    BY <2>2, <2>4, EasyFit DEF Fit, Easy, Serves, AtOnce
  <2>6. x \in Seq(Fit') /\ x \in Seq(Calls) /\ \A i \in 1..Len(x) : ~Serves(x[i])
    BY <2>2, <2>5
  <2>7. Ordered(x)
    BY <2>2, <2>5, EasyAbove, OrderedFew
  <2>8. Then(x)
    BY <1>2, <2>1
  <2> HIDE DEF x
  <2>9. IF rx'[1].routed THEN stream'[1].state >= Parsed /\ (tx'[1].pipeline \/ Has("Open")')
        ELSE tx'[1].handler = "none" /\ ~tx'[1].pipeline /\ ~tx'[1].started
    BY <1>4, <2>6, <2>8
  <2> QED BY <1>3, <2>6, <2>7, <2>8, <2>9, TurnFirst
<1>6. CASE next # Parsed
  <2>1. Visit(1, next) \in Seq(Turns)
    <3>1. /\ Call("First", 1, 0) \in Turns /\ Call("Content", 1, 0) \in Turns /\ Call("Ready", 1, 0) \in Turns
          /\ Call("Finalized", 1, 0) \in Turns /\ Call("Update", 1, next) \in Turns
      BY TurnRuns
    <3>2. Visit(1, next) \in {<<Call("First", 1, 0)>>, <<Call("Content", 1, 0)>>, <<Call("Ready", 1, 0)>>,
                              <<Call("Finalized", 1, 0)>>, <<Call("Update", 1, next)>>}
      BY <1>6 DEF Visit
    <3> QED BY <3>1, <3>2, TurnRuns
  <2>2. Turned(Visit(1, next)) /\ Visit(1, next) \in Seq(Calls)
    BY <2>1, PlainTurned, TurnCallsAre DEF Turned
  <2>3. IF rx'[1].routed THEN stream'[1].state >= Parsed /\ (tx'[1].pipeline \/ Has("Open")')
        ELSE tx'[1].handler = "none" /\ ~tx'[1].pipeline /\ ~tx'[1].started
    BY <1>2, <1>4, <2>2
  <2> QED BY <1>2, <1>3, <2>2, <2>3, TurnedFirst
<1> QED BY <1>5, <1>6

LEMMA LeaveFirstKeeps ==
  ASSUME IInv, VInv, Http1, FirstInv, Step, S = 1, Head(todo).op \in LoopOps \cup {"SetState"},
         Head(todo).op \in LoopOps \/ ~stream[1].setting,
         NEW next, NEW target, Leave(1, next, target), rx' = rx, tx' = tx
  PROVE  FirstInv'
<1>1. TypeOK /\ todo # <<>> /\ Types /\ 1 \in Streams /\ stream[1] \in StreamType /\ Head(todo).op # "Open" /\ net \in NetType
  <2>1. TypeOK /\ todo # <<>>
    BY TopOfStep DEF IInv
  <2> QED BY <2>1, One DEF TypeOK, Types, LoopOps
<1>2. \E eof : net' = [net EXCEPT !.eof = eof]
  BY DEF Leave
<1>3. ~net'.goaway
  BY <1>1, <1>2 DEF FirstInv, NetType
<1>4. stream'[1].state = stream[1].state /\ stream'[1].disconnect = stream[1].disconnect
  <2>1. \E v : stream' = [stream EXCEPT ![1].setting = FALSE, ![1].target = target, ![1].completed = v]
    BY DEF Leave
  <2> QED BY <1>1, <2>1 DEF Types, StreamType
<1>5. PICK x \in Seq(Turns) : Then(x)
  <2>1. Call("Service", 1, 1) \in Turns /\ Call("Kick", 1, 0) \in Turns
    BY EasyCalls DEF Turns, EasyOps
  <2>2. \/ Then(<<>> \o <<Call("Kick", 1, 0)>>)
        \/ Then(<<Call("Service", 1, 1)>> \o <<Call("Kick", 1, 0)>>)
    BY DEF Leave, When
  <2> QED BY <2>1, <2>2, TurnRuns
<1>6. Turned(x) /\ x \in Seq(Calls)
  BY PlainTurned, TurnCallsAre DEF Turned
<1>7. Has("Open") => Has("Open")'
  BY <1>1, <1>5, <1>6, HasKept
<1>8. IF rx'[1].routed THEN stream'[1].state >= Parsed /\ (tx'[1].pipeline \/ Has("Open")')
      ELSE tx'[1].handler = "none" /\ ~tx'[1].pipeline /\ ~tx'[1].started
  BY <1>4, <1>7 DEF FirstInv
<1>9. tx'[1].end # "filter" /\ (stream'[1].disconnect => stream[1].disconnect)
  BY <1>4 DEF FirstInv
<1> QED BY <1>3, <1>5, <1>6, <1>8, <1>9, TurnedFirst

LEMMA StateFirstKeeps ==
  ASSUME IInv, VInv, Http1, FirstInv, Step, S = 1, SetState \/ Update
  PROVE  FirstInv'
<1>1. TypeOK /\ todo # <<>> /\ Types /\ 1 \in Streams /\ stream[1].state \in 0..9 /\ stream[1].target \in 0..9 /\ Arg \in 0..9
  <2>1. TypeOK /\ todo # <<>>
    BY TopOfStep DEF IInv
  <2>2. Types /\ 1 \in Streams /\ Arg \in 0..9
    BY <2>1, One, TopType DEF TypeOK, Types
  <2> QED BY <2>1, <2>2 DEF Types, StreamType
<1>2. rx' = rx /\ tx' = tx
  BY DEF SetState, Update
<1>3. ASSUME SetState, stream[1].setting PROVE FirstInv'
  <2>1. Then(<<>>) /\ net' = net /\ \E v : stream' = [stream EXCEPT ![1].target = v]
    BY <1>3 DEF SetState
  <2>2. /\ stream'[1].setting = stream[1].setting /\ stream'[1].state = stream[1].state
        /\ stream'[1].disconnect = stream[1].disconnect
    BY <1>1, <2>1 DEF Types, StreamType
  <2>3. SameFirst
    BY <1>2, <2>1, <2>2 DEF SameFirst, FirstInv
  <2>4. Head(todo).op \notin {"Route", "Open"}
    BY <1>3 DEF SetState, Do
  <2> QED BY <2>1, <2>2, <2>3, <2>4, LightlyJoin, LightStep
<1>4. ASSUME SetState, ~stream[1].setting PROVE FirstInv'
  <2>1. Head(todo).op = "SetState"
    BY <1>4 DEF SetState, Do
  <2> DEFINE next == stream[1].state + 1
             target == Arg
  <2>2. Enter(1, next, target) \/ Leave(1, next, target)
    BY <1>4 DEF SetState
  <2>3. next > stream[1].state /\ next \in 1..10
    BY <1>1
  <2>4. Enter(1, next, target) => next \in 1..9
    BY <1>1, <2>3 DEF Enter
  <2> HIDE DEF next, target
  <2> QED BY <1>2, <1>4, <2>1, <2>2, <2>3, <2>4, EnterFirstKeeps, LeaveFirstKeeps
<1>5. ASSUME Update PROVE FirstInv'
  <2>1. Head(todo).op \in LoopOps
    BY <1>5 DEF Update, Do, LoopOps
  <2> DEFINE next == IF Arg > stream[1].state THEN Arg ELSE stream[1].state + 1
             target == Most(stream[1].target, Arg)
  <2>2. Enter(1, next, target) \/ Leave(1, next, target)
    BY <1>5 DEF Update
  <2>3. next > stream[1].state /\ next \in 1..10
    BY <1>1
  <2>4. Enter(1, next, target) => next \in 1..9
    BY <1>1, <2>3 DEF Enter, Most
  <2> HIDE DEF next, target
  <2> QED BY <1>2, <2>1, <2>2, <2>3, <2>4, EnterFirstKeeps, LeaveFirstKeeps
<1> QED BY <1>3, <1>4, <1>5

\* What the steps of httpRoute and of the pipeline do
LEMMA PartFirst ==
  ASSUME IInv, VInv, Http1, FirstInv, Step, S = 1, NEW x \in Seq(Fit'), Ordered(x), Then(x),
         \A i \in 1..Len(x) : \A d \in Calls \cap Lower : Above(x[i], d),
         \A d \in Fit \cap Lower : d \in Fit',
         net' = net, stream' = stream, tx'[1].end # "filter",
         IF rx'[1].routed THEN stream'[1].state >= Parsed /\ (tx'[1].pipeline \/ Has("Open")')
         ELSE tx'[1].handler = "none" /\ ~tx'[1].pipeline /\ ~tx'[1].started
  PROVE  FirstInv'
<1>1. TypeOK /\ todo # <<>>
  BY TopOfStep DEF IInv
<1>2. Tail(todo) \in Seq(Fit \cap Lower) /\ Ordered(Tail(todo))
  <2>1. Tail(todo) \in Seq(Fit \cap Lower) /\ Ordered(todo) /\ todo \in Seq(Calls)
    BY <1>1, FirstTop DEF TypeOK
  <2> QED BY <1>1, <2>1, Underneath
<1>3. todo' \in Seq(Fit')
  <2>1. Fit \cap Lower \subseteq Fit'
    OBVIOUS
  <2>2. Tail(todo) \in Seq(Fit')
    BY <1>2, <2>1
  <2> QED BY <2>2 DEF Then
<1>4. Ordered(todo)'
  <2> DEFINE C == {c \in Calls : \A d \in Calls \cap Lower : Above(c, d)}
             D == Fit \cap Lower
  <2>1. x \in Seq(C)
    <3>1. \A i \in 1..Len(x) : x[i] \in C
      BY DEF Fit
    <3> QED BY <3>1, InSeq
  <2>2. \A c \in C, d \in D : Above(c, d)
    BY DEF Fit
  <2>3. Tail(todo) \in Seq(D)
    BY <1>2
  <2> HIDE DEF C, D
  <2>4. Ordered(x \o Tail(todo))
    BY <1>2, <2>1, <2>2, <2>3, OrderedCat
  <2> QED BY <2>4 DEF Then, Ordered
<1>5. stream'[1].disconnect => net'.error \/ Hanging' \/ Has("AfterError")'
  BY HungStays
<1>6. \A s \in Streams \ {1} : Unused(s)'
  BY <1>1, OthersUnused
<1>7. ~net'.goaway
  BY DEF FirstInv
<1> QED BY <1>3, <1>4, <1>5, <1>6, <1>7 DEF FirstInv

\* The call under an error, if there is one
LEMMA SoftOver == ASSUME NEW c \in Calls, ~AtOnce(c), Fits(c)', c.op \notin LoopOps, ~Serves(c),
                         c.op \notin {"StartHandler", "ReadyHandler"}, NEW x \in {<<c>>, <<SoftCall>> \o <<c>>},
                         c.op \in PartOps => \A d \in Lower : d.op # "Parsed"
                  PROVE  /\ x \in Seq(Fit') /\ Ordered(x) /\ x \in Seq(Calls) /\ Len(x) \in {1, 2} /\ x[Len(x)] = c
                         /\ \A i \in 1..Len(x) : \A d \in Calls \cap Lower : Above(x[i], d)
<1>1. SoftCall \in Calls /\ SoftCall \in Tops
  BY TurnCallsAre, One DEF Tops, AtOnce
<1>2. SoftCall \in Fit' /\ c \in Fit'
  BY <1>1, EasyFit DEF Fit
<1> HIDE DEF SoftCall
<1>3. x = <<c>> \/ x = <<SoftCall, c>>
  OBVIOUS
<1>4. Above(SoftCall, c)
  BY <1>1, TopAbove
<1>5. Ordered(x)
  BY <1>3, <1>4, OrderedFew
<1>6. \A d \in Calls \cap Lower : ~AtOnce(d)
  BY DEF Lower, Above
<1>7. \A d \in Calls \cap Lower : Above(SoftCall, d) /\ Above(c, d)
  <2> TAKE d \in Calls \cap Lower
  <2>1. Above(SoftCall, d)
    BY <1>1, <1>6, TopAbove
  <2>2. Above(c, d)
    BY <1>6 DEF Above
  <2> QED BY <2>1, <2>2
<1>8. CASE x = <<c>>
  BY <1>2, <1>5, <1>7, <1>8
<1>9. CASE x = <<SoftCall, c>>
  BY <1>1, <1>2, <1>5, <1>7, <1>9
<1> QED BY <1>3, <1>8, <1>9

LEMMA RouteFirstKeeps == ASSUME IInv, VInv, Http1, FirstInv, Step, S = 1, Route
                         PROVE  FirstInv'
<1>1. TypeOK /\ todo # <<>> /\ Head(todo).op = "Route" /\ Types /\ 1 \in Streams /\ tx[1] \in TxType /\ rx[1] \in RxType
  BY TopOfStep, One DEF IInv, Route, Do, TypeOK, Types
<1>2. net' = net /\ stream' = stream /\ (Gone => Gone')
  BY GoneStays DEF Route
<1>3. \A d \in Fit \cap Lower : d \in Calls /\ Fits(d) /\ d.op # "Parsed"
  BY <1>1 DEF Fit, Lower, Above, PartOps
<1>4. stream[1].state >= Parsed
  <2>1. 1 \in 1..Len(todo) /\ todo[1] = Head(todo)
    BY <1>1 DEF TypeOK
  <2>2. WaitOK(1)
    BY <2>1 DEF VInv
  <2>3. stream[1].state \in {Parsed, Ready}
    BY <1>1, <2>1, <2>2 DEF WaitOK, PartOps, S
  <2> QED BY <2>3 DEF Parsed, Ready
<1>5. CASE rx[1].routed
  <2>1. Then(<<>>) /\ rx' = rx /\ tx' = tx
    BY <1>5 DEF Route
  <2>2. \A d \in Fit \cap Lower : d \in Fit'
    BY <1>2, <1>3, <1>5, <2>1 DEF Fits, Fit
  <2>3. <<>> \in Seq(Fit') /\ Ordered(<<>>) /\ <<>> \in Seq(Calls) /\ Len(<<>>) = 0
    BY OrderedFew
  <2>4. Has("Open") => Has("Open")'
    BY <1>1, <2>1, <2>3, HasKept
  <2>5. IF rx'[1].routed THEN stream'[1].state >= Parsed /\ (tx'[1].pipeline \/ Has("Open")')
        ELSE tx'[1].handler = "none" /\ ~tx'[1].pipeline /\ ~tx'[1].started
    BY <1>2, <1>4, <2>1, <2>4 DEF FirstInv
  <2>6. tx'[1].end # "filter"
    BY <2>1 DEF FirstInv
  <2>7. \A i \in 1..Len(<<>>) : \A d \in Calls \cap Lower : Above(<<>>[i], d)
    BY <2>3
  <2> QED BY <1>2, <2>1, <2>2, <2>3, <2>5, <2>6, <2>7, PartFirst
<1>6. CASE ~rx[1].routed
  <2>1. /\ rx' = [rx EXCEPT ![1].routed = TRUE] /\ \E h : tx' = [tx EXCEPT ![1].handler = h]
        /\ Then(Run("Open")) \/ Then(Error(S, Soft) \o Run("Open")) \/ Then(<<>> \o Run("Open"))
    BY <1>6 DEF Route, When
  <2>2. rx'[1].routed /\ tx'[1].started = tx[1].started /\ tx'[1].end = tx[1].end /\ ~tx[1].started /\ tx[1].end # "filter"
    BY <1>1, <1>6, <2>1 DEF Types, RxType, TxType, FirstInv
  <2> DEFINE c == Call("Open", 1, 0)
  <2>3. c \in Calls /\ c.op = "Open" /\ c.s = 1
    <3>1. c \in Calls
      BY One, CallType DEF Ops
    <3> QED BY <3>1 DEF Call
  <2>4. PICK x \in {<<c>>, <<SoftCall>> \o <<c>>} : Then(x)
    <3>1. Run("Open") = <<c>> /\ Error(S, Soft) = <<SoftCall>> /\ <<>> \o <<c>> = <<c>>
      BY DEF Run, Error, SoftCall
    <3> QED BY <2>1, <3>1
  <2> HIDE DEF c
  <2>5. Fits(c)'
    BY <2>2, <2>3 DEF Fits, FilterOps, EndOps
  <2>6. ~AtOnce(c) /\ ~Serves(c) /\ c.op \notin LoopOps /\ c.op \notin {"StartHandler", "ReadyHandler"}
    BY <2>3 DEF AtOnce, Serves, LoopOps
  <2>7. \A d \in Lower : d.op # "Parsed"
    BY <1>1 DEF Lower, Above, PartOps
  <2>8. /\ x \in Seq(Fit') /\ Ordered(x) /\ x \in Seq(Calls) /\ Len(x) \in {1, 2} /\ x[Len(x)] = c
        /\ \A i \in 1..Len(x) : \A d \in Calls \cap Lower : Above(x[i], d)
    BY <2>3, <2>5, <2>6, <2>7, SoftOver, ZenonT(60)
  <2>9. Has("Open")'
    <3>1. Len(x) \in 1..Len(x)
      BY <2>8
    <3> QED BY <1>1, <2>3, <2>4, <2>8, <3>1, HasKept
  <2>10. \A d \in Fit \cap Lower : d \in Fit'
    BY <1>2, <1>3, <2>2 DEF Fits, Fit
  <2> QED BY <1>2, <1>4, <2>2, <2>4, <2>8, <2>9, <2>10, PartFirst
<1> QED BY <1>5, <1>6

LEMMA OpenFirstKeeps == ASSUME IInv, VInv, Http1, FirstInv, Step, S = 1, Open
                        PROVE  FirstInv'
<1>1. TypeOK /\ todo # <<>> /\ Head(todo).op = "Open" /\ Types /\ 1 \in Streams /\ tx[1] \in TxType
  BY TopOfStep, One DEF IInv, Open, Do, TypeOK, Types
<1>2. net' = net /\ stream' = stream /\ rx' = rx
  BY DEF Open
<1>3. rx[1].routed /\ ~tx[1].started
  BY <1>1, FirstTop DEF Fits
<1>4. tx'[1].pipeline /\ tx'[1].started = tx[1].started /\ tx'[1].end # "filter"
  <2>1. \E v : tx' = [tx EXCEPT ![1].pipeline = TRUE, ![1].opened = v]
    BY DEF Open
  <2> QED BY <1>1, <2>1 DEF Types, TxType, FirstInv
<1>5. stream[1].setting
  <2>1. 1 \in 1..Len(todo) /\ todo[1] = Head(todo)
    BY <1>1 DEF TypeOK
  <2>2. WaitOK(1)
    BY <2>1 DEF VInv
  <2>3. PICK j \in 1..Len(todo) : Loops(j, 1)
    BY <1>1, <2>1, <2>2 DEF WaitOK, PartOps, S
  <2>4. WaitOK(j)
    BY DEF VInv
  <2> QED BY <2>3, <2>4 DEF WaitOK, TurnOK, Loops
<1> DEFINE c == Call("Revert", 1, 0)
<1>6. c \in Calls /\ c.op = "Revert" /\ c.s = 1
  <2>1. c \in Calls
    BY One, CallType DEF Ops
  <2> QED BY <2>1 DEF Call
<1>7. PICK x \in {<<c>>, <<SoftCall>> \o <<c>>} : Then(x)
  <2>1. Run("Revert") = <<c>> /\ Error(S, Soft) = <<SoftCall>> /\ <<>> \o <<c>> = <<c>>
    BY DEF Run, Error, SoftCall
  <2>2. Then(<<>> \o Run("Revert")) \/ Then(Error(S, Soft) \o Run("Revert"))
    BY DEF Open, When
  <2> QED BY <2>1, <2>2
<1> HIDE DEF c
<1>8. Fits(c)'
  BY <1>2, <1>3, <1>5, <1>6 DEF Fits, FilterOps, EndOps
<1>9. ~AtOnce(c) /\ ~Serves(c) /\ c.op \notin LoopOps /\ c.op \notin {"StartHandler", "ReadyHandler"} /\ c.op \notin PartOps
  BY <1>6 DEF AtOnce, Serves, LoopOps, PartOps
<1>10. /\ x \in Seq(Fit') /\ Ordered(x) /\ x \in Seq(Calls)
       /\ \A i \in 1..Len(x) : \A d \in Calls \cap Lower : Above(x[i], d)
  BY <1>6, <1>8, <1>9, SoftOver, ZenonT(60)
<1>11. SameFits
  BY <1>1, <1>2, <1>4, GoneStays DEF SameFits
<1>12. \A d \in Fit \cap Lower : d \in Fit'
  BY <1>1, <1>7, <1>10, <1>11, FitsStay DEF Fit
<1>13. stream'[1].state >= Parsed
  BY <1>2, <1>3 DEF FirstInv
<1> QED BY <1>2, <1>3, <1>4, <1>7, <1>10, <1>12, <1>13, PartFirst

LEMMA RevertFirstKeeps == ASSUME IInv, VInv, Http1, FirstInv, Step, S = 1, Revert
                          PROVE  FirstInv'
<1>1. TypeOK /\ todo # <<>> /\ Head(todo).op = "Revert" /\ Types /\ 1 \in Streams /\ tx[1] \in TxType
  BY TopOfStep, One DEF IInv, Revert, Do, TypeOK, Types
<1>2. net' = net /\ stream' = stream /\ rx' = rx /\ Then(<<>>)
  BY DEF Revert
<1>3. rx[1].routed
  BY <1>1, FirstTop DEF Fits
<1>4. tx'[1].pipeline = tx[1].pipeline /\ tx'[1].started = tx[1].started /\ tx'[1].end # "filter"
  <2>1. \E v : tx' = [tx EXCEPT ![1].handler = v]
    BY DEF Revert
  <2> QED BY <1>1, <2>1 DEF Types, TxType, FirstInv
<1>5. <<>> \in Seq(Fit') /\ Ordered(<<>>) /\ <<>> \in Seq(Calls) /\ Len(<<>>) = 0
  BY OrderedFew
<1>6. \A d \in Fit \cap Lower : d \in Fit'
  <2>1. SameFits
    BY <1>1, <1>2, <1>4, GoneStays DEF SameFits
  <2> QED BY <1>1, <1>2, <1>5, <2>1, FitsStay DEF Fit
<1>7. Has("Open") => Has("Open")'
  BY <1>1, <1>2, <1>5, HasKept
<1>8. IF rx'[1].routed THEN stream'[1].state >= Parsed /\ (tx'[1].pipeline \/ Has("Open")')
      ELSE tx'[1].handler = "none" /\ ~tx'[1].pipeline /\ ~tx'[1].started
  BY <1>2, <1>3, <1>4, <1>7 DEF FirstInv
<1>9. \A i \in 1..Len(<<>>) : \A d \in Calls \cap Lower : Above(<<>>[i], d)
  BY <1>5
<1> QED BY <1>2, <1>4, <1>5, <1>6, <1>8, <1>9, PartFirst

LEMMA StartFirstKeeps == ASSUME IInv, VInv, Http1, FirstInv, Step, S = 1, StartHandler
                         PROVE  FirstInv'
<1>1. TypeOK /\ todo # <<>> /\ Head(todo).op = "StartHandler" /\ Types /\ 1 \in Streams /\ tx[1] \in TxType
  BY TopOfStep, One DEF IInv, StartHandler, Do, TypeOK, Types
<1>2. net' = net /\ stream' = stream /\ rx' = rx
  BY DEF StartHandler
<1>3. \A d \in Lower : d.op \notin {"Route", "Open"}
  BY <1>1 DEF Lower, Above
<1>4. ~Has("Route")
  <2>1. Tail(todo) \in Seq(Fit \cap Lower) /\ todo \in Seq(Calls)
    BY <1>1, FirstTop DEF TypeOK
  <2>2. \A i \in 2..Len(todo) : i - 1 \in 1..Len(Tail(todo)) /\ todo[i] = Tail(todo)[i - 1]
    BY <1>1, <2>1
  <2>3. \A i \in 2..Len(todo) : todo[i].op # "Route"
    BY <1>3, <2>1, <2>2
  <2>4. todo[1] = Head(todo) /\ Len(todo) \in Nat
    BY <2>1
  <2> QED BY <1>1, <2>3, <2>4 DEF Has
<1>5. rx[1].routed
  BY <1>1, <1>4, FirstTop DEF Fits
<1>6. tx'[1].pipeline = tx[1].pipeline /\ tx'[1].handler = tx[1].handler /\ tx'[1].end # "filter"
  <2>1. \/ tx' = tx \/ tx' = [tx EXCEPT ![1].started = TRUE]
        \/ \E v : tx' = [tx EXCEPT ![1].started = TRUE, ![1].file = v]
        \/ \E v : tx' = [tx EXCEPT ![1].started = TRUE, ![1].working = v]
    BY DEF StartHandler
  <2> QED BY <1>1, <2>1 DEF Types, TxType, FirstInv
<1>7. PICK x : Then(x) /\ Lightly(x)
  <2>1. Run("Pending") \in Seq(Easy) /\ Run("FinalizeOutput") \in Seq(Easy)
    BY EasyRuns DEF EasyOps
  <2>2. Error(S, Soft) = <<Call("Error", 1, Soft)>> /\ Call("Error", 1, Soft) \in Tops
    BY EasyRuns
  <2>3. \/ Then(<<>>) \/ Then(Run("Pending")) \/ Then(<<>> \o Run("Pending"))
        \/ Then(Run("FinalizeOutput") \o Run("Pending")) \/ Then(Error(S, Soft) \o Run("Pending"))
    BY DEF StartHandler, When
  <2>4. Lightly(<<>>) /\ Lightly(Run("Pending")) /\ Lightly(Run("FinalizeOutput") \o Run("Pending"))
        /\ Lightly(Error(S, Soft) \o Run("Pending")) /\ <<>> \o Run("Pending") = Run("Pending")
    <3>1. Lightly(<<>>) /\ Lightly(Run("Pending")) /\ Lightly(Run("FinalizeOutput") \o Run("Pending"))
      BY <2>1, LightlyJoin
    <3>2. Lightly(Error(S, Soft) \o Run("Pending"))
      BY <2>1, <2>2, LightlyJoin
    <3>3. <<>> \o Run("Pending") = Run("Pending")
      BY <2>1
    <3> QED BY <3>1, <3>2, <3>3
  <2> QED BY <2>3, <2>4
<1>8. x \in Seq(Fit') /\ Ordered(x) /\ x \in Seq(Calls) /\ Light(x)
  BY <1>7, LightlyIs, LightOrdered
<1>9. \A i \in 1..Len(x) : \A d \in Calls \cap Lower : Above(x[i], d)
  <2>1. \A d \in Calls \cap Lower : ~AtOnce(d)
    BY DEF Lower, Above
  <2>2. x \in Seq(Easy \cup Last \cup Tops)
    <3>1. \A y \in Seq(Easy \cup Last) : y \in Seq(Easy \cup Last \cup Tops)
      OBVIOUS
    <3>2. \A c \in Tops : <<c>> \in Seq(Easy \cup Last \cup Tops)
      OBVIOUS
    <3>3. \A y, z \in Seq(Easy \cup Last \cup Tops) : y \o z \in Seq(Easy \cup Last \cup Tops)
      OBVIOUS
    <3> QED BY <1>8, <3>1, <3>2, <3>3 DEF Light
  <2>3. \A i \in 1..Len(x) : x[i] \in Easy \cup Last \cup Tops
    BY <2>2
  <2> QED BY <2>1, <2>3, EasyAbove, TopAbove
<1>10. \A d \in Fit \cap Lower : d \in Fit'
  <2>1. Gone => Gone'
    BY GoneStays
  <2> QED BY <1>2, <1>3, <1>5, <2>1 DEF Fit, Fits
<1>11. Has("Open") => Has("Open")'
  BY <1>1, <1>7, <1>8, HasKept
<1>12. stream'[1].state >= Parsed /\ (tx'[1].pipeline \/ Has("Open")')
  BY <1>2, <1>5, <1>6, <1>11 DEF FirstInv
<1> QED BY <1>2, <1>5, <1>6, <1>7, <1>8, <1>9, <1>10, <1>12, PartFirst

\* The service of the queues pumps the queues of the stream that is used.
LEMMA WorkFirst == ASSUME TypeOK, Http1, FirstInv, NEW work \in Work
                   PROVE  work \in Easy /\ work.s = 1 /\ work.op \in {"PumpIn", "PumpFile", "PumpOut", "Send"}
<1>1. \A s \in Streams \ {1} : /\ ~rx[s].queued /\ ~tx[s].file /\ "queued" \notin {tx[s].end, tx[s].stale}
                               /\ tx[s].end # "filter" /\ ~AtSocket(s)
  BY DEF FirstInv, Unused, AtSocket
<1>2. tx[1].end # "filter"
  BY DEF FirstInv
<1>3. work \in {Call("PumpIn", 1, 0), Call("PumpFile", 1, 0), Call("PumpOut", 1, 0), Call("Send", 1, 0)}
  BY <1>1, <1>2 DEF Work
<1>4. "Send" \in EasyOps
  BY DEF EasyOps
<1>5. 0 \in 0..9
  OBVIOUS
<1>6. {Call("PumpIn", 1, 0), Call("PumpFile", 1, 0), Call("PumpOut", 1, 0), Call("Send", 1, 0)} \subseteq Easy
  BY <1>4, <1>5, EasyCalls, One
<1> QED BY <1>3, <1>6 DEF Call

LEMMA ServiceFirstKeeps == ASSUME IInv, VInv, Http1, FirstInv, Step, S = 1, Service
                           PROVE  FirstInv'
<1>1. TypeOK /\ todo # <<>> /\ Head(todo).op = "Service" /\ todo \in Seq(Calls)
  BY TopOfStep DEF IInv, Service, Do, TypeOK
<1>2. net' = net /\ stream' = stream /\ rx' = rx /\ tx' = tx
  BY DEF Service
<1>3. SameFirst
  BY <1>2 DEF SameFirst, FirstInv
<1>4. ASSUME NEW x \in Seq(Easy), Then(x) PROVE FirstInv'
  BY <1>1, <1>2, <1>3, <1>4, LightlyJoin, LightStep
<1>5. ASSUME Work = {} /\ Then(<<>>) PROVE FirstInv'
  <2>1. <<>> \in Seq(Easy)
    OBVIOUS
  <2> QED BY <1>4, <1>5, <2>1
<1>6. ASSUME Then(ForAll("PumpIn") \o ForAll("PumpFile") \o [i \in Streams |-> Call("PumpOut", i, 1)]) PROVE FirstInv'
  BY <1>4, <1>6, EasyForAll, EasyJoin
<1>7. ASSUME Arg = 0, NEW work \in Work, todo' = <<work>> \o todo PROVE FirstInv'
  <2>1. work \in Easy /\ work \in Calls
    BY <1>1, <1>7, WorkFirst DEF Easy
  <2>2. \A op : Has(op) => Has(op)'
    <3>1. \A i \in 1..Len(todo) : i + 1 \in 1..Len(todo') /\ todo'[i + 1] = todo[i]
      BY <1>1, <1>7, <2>1
    <3> QED BY <3>1 DEF Has
  <2>3. Gone => Gone'
    BY GoneStays
  <2>4. Fit \subseteq Fit'
    BY <1>2, <2>2, <2>3 DEF Fit, Fits
  <2>5. todo' \in Seq(Fit')
    <3>1. todo \in Seq(Fit') /\ work \in Fit'
      BY <1>1, <2>1, <2>4, FirstTop, EasyFit DEF Fit
    <3> QED BY <1>7, <3>1
  <2>6. Ordered(todo)'
    <3> DEFINE D == {d \in Calls : ~AtOnce(d)}
    <3>1. todo \in Seq(D)
      <4>1. ~AtOnce(Head(todo))
        BY <1>1 DEF AtOnce
      <4>2. Tail(todo) \in Seq(Calls \cap Lower)
        BY <1>1, FirstTop, Underneath
      <4>3. Calls \cap Lower \subseteq D /\ Head(todo) \in D
        BY <1>1, <4>1 DEF Lower, Above
      <4>4. Tail(todo) \in Seq(D)
        BY <4>2, <4>3
      <4>5. todo = <<Head(todo)>> \o Tail(todo)
        BY <1>1
      <4>6. <<Head(todo)>> \in Seq(D)
        BY <4>3
      <4> HIDE DEF D
      <4>7. <<Head(todo)>> \o Tail(todo) \in Seq(D)
        BY <4>4, <4>6
      <4> QED BY <4>5, <4>7
    <3>2. <<work>> \in Seq(Easy) /\ Ordered(<<work>>) /\ Ordered(todo)
      BY <1>1, <2>1, FirstTop, OrderedFew
    <3>3. \A c \in Easy, d \in D : Above(c, d)
      BY EasyAbove
    <3> HIDE DEF D
    <3>4. Ordered(<<work>> \o todo)
      BY <3>1, <3>2, <3>3, OrderedCat
    <3> QED BY <1>7, <3>4 DEF Ordered
  <2>7. \A s \in Streams \ {1} : Unused(s)'
    BY <1>1, OthersUnused
  <2> QED BY <1>2, <2>2, <2>5, <2>6, <2>7 DEF FirstInv, Hanging
<1> QED BY <1>5, <1>6, <1>7 DEF Service

LEMMA FailedSend == ASSUME TypeOK, S = 1, todo # <<>>, Then(Run("NetError") \o ForAll("Free") \o Run("Enable"))
                    PROVE  Gone'
<1> DEFINE x == Run("NetError") \o ForAll("Free") \o Run("Enable")
<1>1. Run("Enable") \in Seq(Easy) /\ Run("NetError") \in Seq(Easy)
  BY EasyRuns DEF EasyOps
<1>2. ForAll("Free") \in Seq(Calls) /\ Run("Enable") \in Seq(Calls) /\ Run("NetError") \in Seq(Calls)
  <2>1. Easy \cup Last \subseteq Calls
    BY DEF Easy, Last
  <2>2. \A y \in Seq(Easy \cup Last) : y \in Seq(Calls)
    BY <2>1
  <2> QED BY <1>1, <2>2, EasyForAll, EasyJoin
<1>3. x \in Seq(Calls) /\ 1 \in 1..Len(x) /\ x[1] = Call("NetError", S, 0)
  BY <1>2 DEF Run
<1>4. Call("NetError", S, 0).op = "NetError"
  BY DEF Call
<1> HIDE DEF x
<1>5. Has("NetError")'
  BY <1>3, <1>4, HasKept DEF x
<1> QED BY <1>5 DEF Gone, Hanging

LEMMA SendFirstKeeps == ASSUME IInv, VInv, Http1, FirstInv, Step, S = 1, Send
                        PROVE  FirstInv'
<1>1. TypeOK /\ todo # <<>> /\ Head(todo).op = "Send" /\ Types /\ 1 \in Streams /\ tx[1] \in TxType /\ net \in NetType
  BY TopOfStep, One DEF IInv, Send, Do, TypeOK, Types
<1>2. stream' = stream /\ rx' = rx
  BY DEF Send
<1>3. SameFirst
  <2>1. net' = net \/ net' = [net EXCEPT !.blocked = TRUE]
    BY DEF Send
  <2>2. ~net'.goaway
    BY <1>1, <2>1 DEF NetType, FirstInv
  <2>3. tx' = tx \/ \E e \in {"sent", tx[1].end} : \E f : tx' = [tx EXCEPT ![1].stale = f, ![1].end = e]
    BY DEF Send
  <2>4. /\ tx'[1].handler = tx[1].handler /\ tx'[1].pipeline = tx[1].pipeline /\ tx'[1].started = tx[1].started
        /\ tx'[1].end # "filter"
    <3>1. CASE tx' = tx
      BY <3>1 DEF FirstInv
    <3>2. ASSUME NEW e \in {"sent", tx[1].end}, NEW f, tx' = [tx EXCEPT ![1].stale = f, ![1].end = e]
          PROVE  /\ tx'[1].handler = tx[1].handler /\ tx'[1].pipeline = tx[1].pipeline /\ tx'[1].started = tx[1].started
                 /\ tx'[1].end # "filter"
      <4>1. tx'[1] = [tx[1] EXCEPT !.stale = f, !.end = e]
        BY <1>1, <3>2 DEF Types
      <4> QED BY <1>1, <4>1 DEF TxType, FirstInv
    <3> QED BY <2>3, <3>1, <3>2
  <2> QED BY <1>2, <2>2, <2>4 DEF SameFirst
<1>4. \E x : Then(x) /\ Lightly(x)
  <2>1. Run("FinalizeConnector") \in Seq(Easy) /\ Run("Enable") \in Seq(Easy) /\ Run("NetError") \in Seq(Easy)
    BY EasyRuns DEF EasyOps
  <2>2. CASE Then(Run("NetError") \o ForAll("Free") \o Run("Enable"))
    <3> DEFINE x == Run("NetError") \o ForAll("Free") \o Run("Enable")
    <3>1. x \in Seq(Easy \cup Last)
      BY <2>1, EasyForAll, EasyJoin
    <3>2. Gone'
      BY <1>1, <2>2, FailedSend
    <3>3. Then(x)
      BY <2>2
    <3> HIDE DEF x
    <3> QED BY <3>1, <3>2, <3>3 DEF Lightly
  <2>3. CASE Then(<<>>) \/ Then(Run("FinalizeConnector")) \/ Then(Run("Enable"))
    BY <2>1, <2>3, LightlyJoin
  <2> QED BY <2>2, <2>3 DEF Send, When
<1> QED BY <1>1, <1>2, <1>3, <1>4, LightStep

\* FirstInv, whatever is on top of the stack
LEMMA FirstStep == ASSUME IInv, VInv, Http1, FirstInv, Step
                   PROVE  FirstInv'
<1>1. TypeOK /\ todo # <<>>
  BY TopOfStep DEF IInv
<1>2. CASE S # 1
  BY <1>2, UnusedKeeps
<1>3. CASE S = 1
  <2>1. ~(PumpFilter \/ SendReset \/ FrameDone \/ FrameClosed)
    <3>1. Head(todo).op \notin FilterOps
      BY <1>1, FirstTop DEF Fits
    <3> QED BY <3>1 DEF PumpFilter, SendReset, FrameDone, FrameClosed, Do, FilterOps
  <2>2. CASE \/ Kick \/ InputEnd \/ Finalize \/ FinalizeOutput \/ FinalizeInput \/ CheckFinalized \/ SetFinalized
             \/ FinalizeConnector \/ Redirect \/ Pending \/ Filed \/ AfterError
    BY <1>1, <1>3, <2>2, FinishLightens, LightensKeeps
  <2>3. CASE PumpIn \/ PumpFile \/ PumpOut \/ Idle \/ Enable \/ ParseLine \/ ParseFields
    BY <1>1, <1>3, <2>3, QueueLightens, LightensKeeps
  <2>4. CASE RaiseError \/ ReadyHandler \/ ProcessHeaders
    BY <1>1, <1>3, <2>4, ErrorLightens, LightensKeeps
  <2>5. CASE \/ NetError \/ Fail \/ Free \/ Disconnect \/ Hang \/ CloseStream \/ Abandon \/ DestroyNet \/ RemoveStream \/ DestroyStream
             \/ Destroyed \/ ServiceEnd
    BY <1>3, <2>5, LostLightens, LightensKeeps
  <2>6. CASE ProcessFirst \/ ProcessParsed \/ ProcessContent \/ ProcessReady
    BY <1>3, <2>6, ProcessFirstKeeps
  <2>7. CASE ProcessFinalized \/ SetState \/ Update
    BY <1>3, <2>7, FinalizedFirstKeeps, StateFirstKeeps
  <2>8. CASE Route \/ Open \/ Revert \/ StartHandler \/ Service \/ Send
    BY <1>3, <2>8, RouteFirstKeeps, OpenFirstKeeps, RevertFirstKeeps, StartFirstKeeps, ServiceFirstKeeps, SendFirstKeeps
  <2> QED BY <2>1, <2>2, <2>3, <2>4, <2>5, <2>6, <2>7, <2>8 DEF Step
<1> QED BY <1>2, <1>3

-----------------------------------------------------------------------------
(* FirstInv, event by event *)

\* The events of HTTP/1: those of a stream are of the first one.
LEMMA FirstEvents == ASSUME TypeOK, Http1, FirstInv, Event
PROVE  \/ ReadHeader \/ ReadBody \/ ReadWindow \/ PeerClose \/ Writable \/ Hangup \/ NetTimeout \/ Recall
       \/ HttpTimer(1) \/ StreamTimeout(1) \/ CgiOutput(1) \/ CgiEnd(1)
<1> SUFFICES ASSUME NEW s \in Streams,
                    ReadHeaders(s) \/ ReadData(s) \/ ReadReset(s) \/ HttpTimer(s) \/ StreamTimeout(s) \/ CgiOutput(s) \/ CgiEnd(s)
             PROVE  HttpTimer(1) \/ StreamTimeout(1) \/ CgiOutput(1) \/ CgiEnd(1)
  BY DEF Event
<1>1. ~(ReadHeaders(s) \/ ReadData(s) \/ ReadReset(s))
  BY DEF ReadHeaders, ReadData, ReadReset
<1>2. s # 1 => Unused(s)
  BY DEF FirstInv
<1>3. s # 1 => ~(HttpTimer(s) \/ StreamTimeout(s) \/ CgiOutput(s) \/ CgiEnd(s))
  <2> SUFFICES ASSUME s # 1 PROVE ~(HttpTimer(s) \/ StreamTimeout(s) \/ CgiOutput(s) \/ CgiEnd(s))
    OBVIOUS
  <2>1. stream[s].state = 0 /\ stream[s].timer = "none" /\ ~tx[s].working
    BY <1>2 DEF Unused
  <2>2. ~HttpTimer(s)
    BY <2>1 DEF HttpTimer, Listed
  <2>3. ~StreamTimeout(s)
    BY <2>1 DEF StreamTimeout
  <2>4. ~CgiOutput(s) /\ ~CgiEnd(s)
    BY <2>1 DEF CgiOutput, CgiEnd
  <2> QED BY <2>2, <2>3, <2>4
<1> QED BY <1>1, <1>3

\* What an event ends with
Closings == {<<>>, <<Call("Service", 1, 0)>>, ServiceNet}

LEMMA EndsAre == ASSUME NEW t \in Closings
PROVE  /\ t \in Seq(Calls) /\ Ordered(t) /\ (\A i \in 1..Len(t) : ~AtOnce(t[i])) /\ t \in Seq(Fit')
<1> DEFINE a == Call("Service", 1, 0)
           b == Call("ServiceEnd", 1, 0)
           c == Call("Idle", 1, 0)
<1>1. a \in Calls /\ b \in Calls /\ c \in Calls
  BY One, CallType DEF Ops
<1>2. a.op = "Service" /\ b.op = "ServiceEnd" /\ c.op = "Idle" /\ a.s = 1 /\ b.s = 1 /\ c.s = 1
  BY DEF Call
<1>3. ServiceNet = <<a, b, c>>
  BY DEF ServiceNet
<1>4. t \in {<<>>, <<a>>, <<a, b, c>>}
  BY <1>3 DEF Closings
<1> HIDE DEF a, b, c
<1>5. ~AtOnce(a) /\ ~AtOnce(b) /\ ~AtOnce(c)
  BY <1>2 DEF AtOnce
<1>6. Above(a, b) /\ Above(a, c) /\ Above(b, c)
  BY <1>2, <1>5 DEF Above, Serves, LoopOps, PartOps
<1>7. a \in Fit' /\ b \in Fit' /\ c \in Fit'
  <2>1. Fits(a)' /\ Fits(b)' /\ Fits(c)'
    BY <1>2 DEF Fits, FilterOps, EndOps
  <2> QED BY <1>1, <2>1 DEF Fit
<1>8. Ordered(<<a, b, c>>)
  BY <1>6 DEF Ordered
<1>9. CASE t = <<>>
  BY <1>9, OrderedFew
<1>10. CASE t = <<a>>
  BY <1>1, <1>5, <1>7, <1>10, OrderedFew
<1>11. CASE t = <<a, b, c>>
  BY <1>1, <1>5, <1>7, <1>8, <1>11
<1> QED BY <1>4, <1>9, <1>10, <1>11

LEMMA BeginFirst ==
  ASSUME TypeOK, Http1, FirstInv, todo = <<>>, NEW y, Lightly(y), NEW t \in Closings, todo' = y \o t,
         ~net'.goaway, net.error => net'.error, stream'[1].disconnect => stream[1].disconnect, tx'[1].end # "filter",
         \A s \in Streams \ {1} : stream'[s] = stream[s] /\ rx'[s] = rx[s] /\ tx'[s] = tx[s],
         IF rx'[1].routed THEN stream'[1].state >= Parsed /\ tx'[1].pipeline
         ELSE tx'[1].handler = "none" /\ ~tx'[1].pipeline /\ ~tx'[1].started
  PROVE  FirstInv'
<1>1. Light(y) /\ y \in Seq(Calls) /\ y \in Seq(Fit')
  BY LightlyIs
<1>2. t \in Seq(Calls) /\ Ordered(t) /\ (\A i \in 1..Len(t) : ~AtOnce(t[i])) /\ t \in Seq(Fit')
  BY EndsAre
<1>3. todo' \in Seq(Fit')
  BY <1>1, <1>2
<1>4. Ordered(todo)'
  <2> DEFINE C == Easy \cup Last \cup Tops
             D == {d \in Calls : ~AtOnce(d)}
  <2>1. y \in Seq(C) /\ Ordered(y)
    <3>1. \A z \in Seq(Easy \cup Last) : z \in Seq(C)
      OBVIOUS
    <3>2. \A c \in Tops : <<c>> \in Seq(C)
      OBVIOUS
    <3>3. \A u, v \in Seq(C) : u \o v \in Seq(C)
      OBVIOUS
    <3> HIDE DEF C
    <3> QED BY <1>1, <3>1, <3>2, <3>3, LightOrdered DEF Light
  <2>2. t \in Seq(D)
    <3>1. \A i \in 1..Len(t) : t[i] \in D
      BY <1>2
    <3> QED BY <1>2, <3>1, InSeq
  <2>3. \A c \in C, d \in D : Above(c, d)
    BY EasyAbove, TopAbove
  <2> HIDE DEF C, D
  <2>4. Ordered(y \o t)
    BY <1>2, <2>1, <2>2, <2>3, OrderedCat
  <2> QED BY <2>4 DEF Ordered
<1>5. Len(todo) = 0
  OBVIOUS
<1>6. ~Hanging /\ ~Has("AfterError")
  BY <1>5 DEF Hanging, Has
<1>7. stream'[1].disconnect => net'.error
  BY <1>6 DEF FirstInv
<1>8. \A s \in Streams \ {1} : Unused(s)'
  BY DEF FirstInv, Unused
<1> QED BY <1>3, <1>4, <1>7, <1>8 DEF FirstInv

\* What HTTP/1 finds at rest
LEMMA RestFirst == ASSUME FirstInv, Http1, todo = <<>>
PROVE  /\ \A op : ~Has(op)
       /\ ~net.goaway /\ tx[1].end # "filter"
       /\ IF rx[1].routed THEN stream[1].state >= Parsed /\ tx[1].pipeline
          ELSE tx[1].handler = "none" /\ ~tx[1].pipeline /\ ~tx[1].started
<1>1. Len(todo) = 0
  OBVIOUS
<1>2. \A op : ~Has(op)
  BY <1>1 DEF Has
<1> QED BY <1>2 DEF FirstInv

LEMMA EasyEvents ==
  /\ SetTo(1, Begin) \in Seq(Easy) /\ Error(1, Close) \in Seq(Easy) /\ <<Call("Line", 1, 0)>> \in Seq(Easy)
  /\ <<Call("InputEnd", 1, 0)>> \in Seq(Easy) /\ <<Call("Disconnect", 1, 0)>> \in Seq(Easy)
  /\ <<Call("Enable", 1, 0)>> \in Seq(Easy) /\ <<Call("Finalize", 1, 0)>> \in Seq(Easy)
  /\ Error(1, Soft) = <<Call("Error", 1, Soft)>> /\ Call("Error", 1, Soft) \in Tops
  /\ <<>> \in Seq(Easy)
<1>1. Begin \in (0..9) \ {Finalized}
  BY DEF Begin, Finalized
<1>2. /\ Call("SetState", 1, Begin) \in Easy /\ Call("Error", 1, Close) \in Easy /\ Call("Line", 1, 0) \in Easy
      /\ Call("InputEnd", 1, 0) \in Easy /\ Call("Disconnect", 1, 0) \in Easy
      /\ Call("Enable", 1, 0) \in Easy /\ Call("Finalize", 1, 0) \in Easy
  <2>1. {"Line", "InputEnd", "Disconnect", "Enable", "Finalize"} \subseteq EasyOps /\ 0 \in 0..9
    BY DEF EasyOps
  <2> QED BY <1>1, <2>1, EasyCalls
<1>3. \A c \in Easy : <<c>> \in Seq(Easy)
  OBVIOUS
<1>4. Call("Error", 1, Soft) \in Tops
  BY EasyCalls
<1> HIDE DEF Easy, Tops
<1> QED BY <1>2, <1>3, <1>4 DEF SetTo, Error

\* FirstInv, whatever event begins
LEMMA FirstEvent == ASSUME TypeOK, Http1, FirstInv, Event
                    PROVE  FirstInv'
<1>0. /\ Types /\ 1 \in Streams /\ tx[1] \in TxType /\ rx[1] \in RxType /\ stream[1] \in StreamType /\ net \in NetType
  BY One DEF TypeOK, Types
<1> DEFINE Others == \A s \in Streams \ {1} : stream'[s] = stream[s] /\ rx'[s] = rx[s] /\ tx'[s] = tx[s]
           Field == IF rx'[1].routed THEN stream'[1].state >= Parsed /\ tx'[1].pipeline
                    ELSE tx'[1].handler = "none" /\ ~tx'[1].pipeline /\ ~tx'[1].started
           Starts == \E y : Lightly(y) /\ \E t \in Closings : todo' = y \o t
           Net == ~net'.goaway /\ (net.error => net'.error)
           Str == (stream'[1].disconnect => stream[1].disconnect) /\ tx'[1].end # "filter"
<1>1. \A y \in Seq(Easy) : Lightly(y)
  BY LightlyJoin
<1>2. ServiceNet \in Closings /\ <<Call("Service", 1, 0)>> \in Closings /\ <<>> \in Closings
  BY DEF Closings
<1>3. \A y \in Seq(Easy) : IOEvent(y) => Starts
  BY <1>1, <1>2 DEF IOEvent
<1>4. CASE ReadWindow \/ PeerClose \/ Writable \/ Hangup \/ NetTimeout \/ Recall
  <2>1. todo = <<>>
    BY <1>4 DEF ReadWindow, PeerClose, Writable, Hangup, NetTimeout, Recall, Readable, Quiet
  <2>2. stream' = stream /\ rx' = rx /\ tx' = tx
    BY <1>4 DEF ReadWindow, PeerClose, Writable, Hangup, NetTimeout, Recall
  <2>3. Net
    <3>1. ~net.goaway
      BY DEF FirstInv
    <3> QED BY <1>0, <1>4, <3>1 DEF ReadWindow, PeerClose, Writable, Hangup, NetTimeout, Recall, NetType
  <2>4. Starts
    <3>1. IOEvent(<<>>) \/ todo' = <<Call("Enable", 1, 0)>>
      BY <1>4 DEF ReadWindow, PeerClose, Writable, Hangup, NetTimeout, Recall
    <3>2. <<Call("Enable", 1, 0)>> \in Seq(Easy) /\ <<>> \in Seq(Easy)
      BY EasyEvents
    <3>3. \A y \in Seq(Easy) : y \o <<>> = y
      OBVIOUS
    <3> QED BY <1>1, <1>2, <1>3, <3>1, <3>2, <3>3
  <2>5. Field
    BY <2>1, <2>2, RestFirst
  <2>6. Str /\ Others
    BY <2>2 DEF FirstInv
  <2> QED BY <1>1, <2>1, <2>3, <2>4, <2>5, <2>6, BeginFirst
<1>5. CASE ReadHeader
  <2>1. todo = <<>>
    BY <1>5 DEF ReadHeader, Readable, Quiet
  <2>2. \/ stream' = stream /\ rx' = rx /\ tx' = tx
        \/ /\ stream' = [stream EXCEPT ![1].state = 0, ![1].target = 0, ![1].error = FALSE, ![1].completed = FALSE,
                                       ![1].timer = "none"]
           /\ rx' = [rx EXCEPT ![1] = FreshRx(1)]
           /\ tx' = [tx EXCEPT ![1] = FreshTx]
    BY <1>5 DEF ReadHeader
  <2>3. Net
    <3>1. ~net.goaway
      BY DEF FirstInv
    <3> QED BY <1>0, <1>5, <3>1 DEF ReadHeader, Activate, NetType
  <2>4. Starts
    <3> DEFINE y == SetTo(1, Begin) \o <<Call("Line", 1, 0)>>
               z == When(stream[1].state = 0, SetTo(1, Begin)) \o <<Call("Line", 1, 0)>>
    <3>1. IOEvent(z) \/ IOEvent(<<>>) \/ IOEvent(y)
      BY <1>5 DEF ReadHeader
    <3>2. y \in Seq(Easy) /\ z \in Seq(Easy) /\ <<>> \in Seq(Easy)
      BY EasyEvents, EasyJoin
    <3> QED BY <1>3, <3>1, <3>2
  <2>5. Others
    BY <1>0, <2>2 DEF Types
  <2>6. Field /\ Str
    <3>1. CASE stream' = stream /\ rx' = rx /\ tx' = tx
      BY <2>1, <3>1, RestFirst
    <3>2. CASE /\ stream' = [stream EXCEPT ![1].state = 0, ![1].target = 0, ![1].error = FALSE, ![1].completed = FALSE,
                                       ![1].timer = "none"]
               /\ rx' = [rx EXCEPT ![1] = FreshRx(1)]
               /\ tx' = [tx EXCEPT ![1] = FreshTx]
      <4>1. rx'[1] = FreshRx(1) /\ tx'[1] = FreshTx
        BY <1>0, <3>2 DEF Types
      <4>2. stream'[1].disconnect = stream[1].disconnect
        BY <1>0, <3>2 DEF Types, StreamType
      <4> QED BY <4>1, <4>2 DEF FreshRx, FreshTx
    <3> QED BY <2>2, <3>1, <3>2
  <2> QED BY <1>1, <2>1, <2>3, <2>4, <2>5, <2>6, BeginFirst
<1>6. CASE ReadBody
  <2>1. todo = <<>> /\ tx' = tx
    BY <1>6 DEF ReadBody, Readable, Quiet
  <2>2. /\ rx' = rx \/ rx' = [rx EXCEPT ![1].more = FALSE]
        /\ stream' = stream \/ \E k \in {0, stream[1].keep} : stream' = [stream EXCEPT ![1].keep = k]
    BY <1>6 DEF ReadBody
  <2>3. Net
    <3>1. ~net.goaway /\ net' = [net EXCEPT !.active = TRUE]
      BY <1>6 DEF FirstInv, ReadBody, Activate
    <3> QED BY <1>0, <3>1 DEF NetType
  <2>4. Starts
    <3>1. IOEvent(<<Call("InputEnd", 1, 0)>>) \/ IOEvent(Error(1, Close))
      BY <1>6 DEF ReadBody
    <3> QED BY <1>3, <3>1, EasyEvents
  <2>5. Others
    BY <1>0, <2>1, <2>2 DEF Types
  <2>6. rx'[1].routed = rx[1].routed
    BY <1>0, <2>2 DEF Types, RxType
  <2>7. stream'[1].state = stream[1].state /\ stream'[1].disconnect = stream[1].disconnect
    BY <1>0, <2>2 DEF Types, StreamType
  <2>8. Field /\ Str
    BY <2>1, <2>6, <2>7, RestFirst
  <2> QED BY <1>1, <2>1, <2>3, <2>4, <2>5, <2>8, BeginFirst
<1>7. CASE HttpTimer(1) \/ StreamTimeout(1)
  <2>1. todo = <<>> /\ tx' = tx /\ rx' = rx /\ net' = net
    BY <1>7 DEF HttpTimer, StreamTimeout, Quiet
  <2>2. stream' = [stream EXCEPT ![1].timer = "queued"] \/ stream' = [stream EXCEPT ![1].timer = "fired"]
    BY <1>7 DEF HttpTimer, StreamTimeout
  <2>3. Net
    BY <2>1 DEF FirstInv
  <2>4. Starts
    <3>1. todo' = <<>> \/ todo' = <<Call("Disconnect", 1, 0)>> \/ todo' = Error(1, Close)
      BY <1>7, <2>1 DEF HttpTimer, StreamTimeout
    <3>2. \A y \in Seq(Easy) : y \o <<>> = y
      OBVIOUS
    <3> QED BY <1>1, <1>2, <3>1, <3>2, EasyEvents
  <2>5. Others
    BY <1>0, <2>1, <2>2 DEF Types
  <2>6. stream'[1].state = stream[1].state /\ stream'[1].disconnect = stream[1].disconnect
    BY <1>0, <2>2 DEF Types, StreamType
  <2>7. Field /\ Str
    BY <2>1, <2>6, RestFirst
  <2> QED BY <1>1, <2>1, <2>3, <2>4, <2>5, <2>7, BeginFirst
<1>8. CASE CgiOutput(1) \/ CgiEnd(1)
  <2>1. todo = <<>> /\ rx' = rx
    BY <1>8 DEF CgiOutput, CgiEnd, Quiet
  <2>2. /\ stream' = stream \/ \E k \in 0..KeepAlive : stream' = [stream EXCEPT ![1].keep = k]
        /\ tx' = tx \/ tx' = [tx EXCEPT ![1].headers = TRUE] \/ tx' = [tx EXCEPT ![1].working = FALSE]
    <3>1. KeepAlive \in Nat /\ stream[1].keep \in 0..KeepAlive
      BY <1>0, RequestAssumption DEF StreamType
    <3>2. stream' = stream \/ stream' = Spend(1)
      BY <1>8 DEF CgiOutput, CgiEnd
    <3>3. (IF Http1 /\ ~tx[1].headers /\ stream[1].keep > 0 THEN stream[1].keep - 1 ELSE stream[1].keep) \in 0..KeepAlive
      BY <3>1
    <3>4. stream' = stream \/ \E k \in 0..KeepAlive : stream' = [stream EXCEPT ![1].keep = k]
      BY <3>2, <3>3 DEF Spend
    <3> QED BY <1>8, <3>4 DEF CgiOutput, CgiEnd
  <2>3. Net
    <3>1. net' = [net EXCEPT !.recall = TRUE]
      BY <1>8 DEF CgiOutput, CgiEnd, CgiCall
    <3> QED BY <1>0, <3>1 DEF NetType, FirstInv
  <2>4. Starts
    <3>1. \/ CgiCall(<<>>) \/ CgiCall(<<Call("Finalize", 1, 0)>>)
          \/ \E b \in BOOLEAN : CgiCall(When(b, Error(1, Soft)) \o <<Call("Finalize", 1, 0)>>)
      BY <1>8 DEF CgiOutput, CgiEnd
    <3>2. \A b \in BOOLEAN : Lightly(When(b, Error(1, Soft)) \o <<Call("Finalize", 1, 0)>>)
      BY EasyEvents, LightlyJoin
    <3>3. \A y : Lightly(y) /\ CgiCall(y) => Starts
      BY <1>2 DEF CgiCall
    <3> QED BY <1>1, <3>1, <3>2, <3>3, EasyEvents
  <2>5. Others
    BY <1>0, <2>1, <2>2 DEF Types
  <2>6. stream'[1].state = stream[1].state /\ stream'[1].disconnect = stream[1].disconnect
    BY <1>0, <2>2 DEF Types, StreamType
  <2>7. tx'[1].handler = tx[1].handler /\ tx'[1].pipeline = tx[1].pipeline /\ tx'[1].started = tx[1].started /\ tx'[1].end = tx[1].end
    BY <1>0, <2>2 DEF Types, TxType
  <2>8. Field /\ Str
    BY <2>1, <2>6, <2>7, RestFirst
  <2> QED BY <1>1, <2>1, <2>3, <2>4, <2>5, <2>8, BeginFirst
<1> QED BY <1>4, <1>5, <1>6, <1>7, <1>8, FirstEvents

\* The protocol of a connection does not change.
LEMMA ProtoStays == ASSUME TypeOK, [Next]_vars
                    PROVE  net'.proto = net.proto
<1>1. net \in NetType
  BY DEF TypeOK
<1>2. CASE Step
  BY <1>2, Monotone
<1>3. CASE Event
  BY <1>1, <1>3 DEF Event, ReadHeader, ReadBody, ReadWindow, PeerClose, Writable, Hangup, NetTimeout, Recall, ReadHeaders,
     ReadData, ReadReset, HttpTimer, StreamTimeout, CgiOutput, CgiEnd, Activate, CgiCall, NetType
<1>4. CASE UNCHANGED vars
  BY <1>4 DEF vars
<1> QED BY <1>2, <1>3, <1>4 DEF Next, Done

LEMMA FirstInit == ASSUME Init
                   PROVE  FirstInv
<1>1. todo = <<>> /\ Len(todo) = 0 /\ ~net.goaway
  BY DEF Init
<1>2. /\ \A s \in Streams : stream[s].state = 0 /\ stream[s].timer = "none" /\ ~stream[s].disconnect
      /\ \A s \in Streams : rx[s].routed = FALSE /\ rx[s].queued = FALSE
      /\ \A s \in Streams : tx[s] = FreshTx
  <2>1. PICK proto \in Protocols : /\ rx = [s \in Streams |-> FreshRx(proto)]
                                  /\ stream = [s \in Streams |-> FreshStream(IF proto = 1 THEN KeepAlive ELSE 0)]
    BY DEF Init
  <2> QED BY <2>1 DEF Init, FreshRx, FreshStream
<1>3. \A s \in Streams : Unused(s)
  BY <1>2 DEF Unused, FreshTx
<1>4. todo \in Seq(Fit) /\ Ordered(todo)
  BY <1>1 DEF Ordered
<1> QED BY <1>1, <1>2, <1>3, <1>4, One DEF FirstInv, FreshTx

\* The stack of an HTTP/1 connection fits its only stream, and its calls are in an order that the stream agrees with.
LEMMA FirstKeeps == ASSUME IInv, VInv, FirstInv, [Next]_vars
                    PROVE  FirstInv'
<1>1. TypeOK
  BY DEF IInv
<1>2. CASE ~Http1
  <2>1. net'.proto = net.proto
    BY <1>1, ProtoStays
  <2> QED BY <1>2, <2>1 DEF FirstInv, Http1
<1>3. CASE Http1
  <2>1. CASE Step
    BY <1>3, <2>1, FirstStep
  <2>2. CASE Event
    BY <1>1, <1>3, <2>2, FirstEvent
  <2>3. CASE UNCHANGED vars
    BY <2>3 DEF vars, FirstInv, Http1, Fit, Fits, Ordered, Unused, Hanging, Has, Gone
  <2> QED BY <2>1, <2>2, <2>3 DEF Next, Done
<1> QED BY <1>2, <1>3

\* Which calls wait on the stack of an HTTP/1 connection, in which order, and what they know of its one stream: FirstInv
\* holds in every state. (httpSetState, httpServiceNet, errorv)
THEOREM FirstInductive == Spec => []FirstInv
<1>1. Init => FirstInv
  BY FirstInit
<1>2. IInv /\ VInv /\ FirstInv /\ [Next]_vars => FirstInv'
  BY FirstKeeps
<1> QED BY <1>1, <1>2, Inductive, VisitInductive, PTL DEF Spec

-----------------------------------------------------------------------------
(* AnswerInv, step by step *)

\* Calls that are sound whatever has become of the request
Clear == {c \in Calls : /\ c.op \notin {"FinalizeConnector", "Finalize", "FinalizeOutput", "Redirect"}
                        /\ ~(c.op \in {"SetState", "Update"} /\ c.n \in {Finalized, Complete})
                        /\ ~(c.op = "Error" /\ c.n = Soft)}
ClearOps == Ops \ {"FinalizeConnector", "Finalize", "FinalizeOutput", "Redirect", "SetState", "Update", "Error"}

LEMMA ClearSound == Clear \subseteq SoundCalls /\ Clear \subseteq SoundCalls'
BY DEF Clear, SoundCalls, Sound, Finalized, Complete

LEMMA ClearCalls ==
  /\ \A op \in ClearOps, s \in Streams, n \in 0..9 : Call(op, s, n) \in Clear
  /\ \A op \in {"SetState", "Update"}, n \in 0..7 : Call(op, 1, n) \in Clear
  /\ Call("Error", 1, Close) \in Clear
<1>1. ASSUME NEW op \in Ops, NEW s \in Streams, NEW n \in 0..9
      PROVE  Call(op, s, n) \in Calls /\ Call(op, s, n).op = op /\ Call(op, s, n).n = n
  BY CallType DEF Call
<1>2. ClearOps \subseteq Ops /\ {"SetState", "Update", "Error"} \subseteq Ops
  BY DEF ClearOps, Ops
<1>3. \A op \in ClearOps, s \in Streams, n \in 0..9 : Call(op, s, n) \in Clear
  BY <1>1, <1>2 DEF Clear, ClearOps
<1>4. ASSUME NEW op \in {"SetState", "Update"}, NEW n \in 0..7 PROVE Call(op, 1, n) \in Clear
  <2>1. n \in 0..9 /\ n \notin {Finalized, Complete}
    BY DEF Finalized, Complete
  <2> QED BY <1>1, <1>2, <2>1, One DEF Clear
<1>5. Call("Error", 1, Close) \in Clear
  <2>1. Close \in 0..9 /\ Close # Soft
    BY DEF Close, Soft
  <2> QED BY <1>1, <1>2, <2>1, One DEF Clear
<1> QED BY <1>3, <1>4, <1>5

\* What a step keeps of the request, as far as calls that wait for their turn ask
SameSound ==
  /\ tx[1].end = "sent" => tx'[1].end = "sent"
  /\ Over => Over'
  /\ tx[1].finConn => tx'[1].finConn
  /\ rx'[1].errdoc = rx[1].errdoc
  /\ ~rx[1].errdoc /\ Cause => Cause'

LEMMA SoundStep ==
  ASSUME TypeOK, Http1, FirstInv, todo # <<>>, todo \in Seq(SoundCalls), SameSound, NEW x \in Seq(SoundCalls'), Then(x)
  PROVE  todo' \in Seq(SoundCalls')
<1>1. Tail(todo) \in Seq(SoundCalls \cap Lower)
  BY FirstTop, Underneath
<1>2. SoundCalls \cap Lower \subseteq SoundCalls'
  <2> SUFFICES ASSUME NEW c \in SoundCalls \cap Lower PROVE c \in SoundCalls'
    OBVIOUS
  <2>1. c \in Calls /\ Sound(c) /\ ~AtOnce(c)
    BY DEF SoundCalls, Lower, Above
  <2>2. Sound(c)'
    BY <2>1 DEF Sound, SameSound, AtOnce
  <2> QED BY <2>1, <2>2 DEF SoundCalls
<1>3. Tail(todo) \in Seq(SoundCalls')
  BY <1>1, <1>2
<1> QED BY <1>3 DEF Then

\* The output that is queued remains in the hands of httpServiceNet.
LEMMA PumpedStep ==
  ASSUME TypeOK, todo # <<>>, Pumped, NEW x \in Seq(Calls), Then(x), ~Serves(Head(todo)),
         Idles(Head(todo)) => tx'[1].end = tx[1].end /\ \A i \in 1..Len(x) : Idles(x[i])
  PROVE  Pumped'
<1>1. /\ Len(todo) \in Nat /\ Len(todo) > 0 /\ Len(x) \in Nat
      /\ \A i \in 1..Len(x) : i \in 1..Len(todo') /\ todo'[i] = x[i]
      /\ \A i \in 2..Len(todo) : (i - 1 + Len(x)) \in 1..Len(todo') /\ todo'[i - 1 + Len(x)] = todo[i]
      /\ \A i \in 1..Len(todo') : i > Len(x) => (i + 1 - Len(x)) \in 2..Len(todo) /\ todo'[i] = todo[i + 1 - Len(x)]
      /\ todo[1] = Head(todo) /\ 1 \in 1..Len(todo)
  BY Pushed
<1>2. CASE \E i \in 1..Len(todo) : Serves(todo[i])
  <2>1. PICK i \in 1..Len(todo) : Serves(todo[i])
    BY <1>2
  <2>2. i \in 2..Len(todo)
    BY <1>1, <2>1
  <2>3. (i - 1 + Len(x)) \in 1..Len(todo') /\ Serves(todo'[i - 1 + Len(x)])
    BY <1>1, <2>1, <2>2
  <2> QED BY <2>3 DEF Pumped
<1>3. CASE tx[1].end # "queued" /\ \A i \in 1..Len(todo) : Idles(todo[i])
  <2>1. Idles(Head(todo))
    BY <1>1, <1>3
  <2>2. \A i \in 1..Len(todo') : Idles(todo'[i])
    <3> TAKE i \in 1..Len(todo')
    <3>1. CASE i > Len(x)
      <4>1. (i + 1 - Len(x)) \in 1..Len(todo) /\ todo'[i] = todo[i + 1 - Len(x)]
        BY <1>1, <3>1
      <4> QED BY <1>3, <4>1
    <3>2. CASE ~(i > Len(x))
      <4>1. i \in 1..Len(x)
        BY <1>1, <3>2
      <4> QED BY <1>1, <2>1, <4>1
    <3> QED BY <3>1, <3>2
  <2> QED BY <1>3, <2>1, <2>2 DEF Pumped
<1> QED BY <1>2, <1>3 DEF Pumped

\* The request as far as AnswerInv tells it apart
SameAnswer ==
  /\ stream'[1].error = stream[1].error /\ stream'[1].state = stream[1].state /\ stream'[1].target = stream[1].target
  /\ rx'[1].errdoc = rx[1].errdoc /\ rx'[1].routed = rx[1].routed
  /\ tx'[1].handler = tx[1].handler /\ tx'[1].pipeline = tx[1].pipeline /\ tx'[1].started = tx[1].started
  /\ tx'[1].ready = tx[1].ready /\ tx'[1].working = tx[1].working /\ tx'[1].file = tx[1].file
  /\ tx'[1].pending = tx[1].pending /\ tx'[1].finOut = tx[1].finOut /\ tx'[1].finConn = tx[1].finConn
  /\ tx'[1].headers = tx[1].headers /\ tx'[1].end = tx[1].end /\ tx'[1].stale = tx[1].stale /\ tx'[1].errdoc = tx[1].errdoc

LEMMA AnswerSame == ASSUME SameAnswer
                   PROVE  /\ SameSound /\ (Cause' <=> Cause) /\ (Over' <=> Over) /\ SoundCalls \subseteq SoundCalls'
                          /\ Written => Written'
                          /\ Going => Going'
                          /\ Original => Original'
<1>1. (Cause' <=> Cause) /\ (Over' <=> Over) /\ (Unanswered' <=> Unanswered)
  BY DEF SameAnswer, Cause, Acted, Over, Unanswered
<1>2. SameSound
  BY <1>1 DEF SameAnswer, SameSound
<1>3. Written => Written'
  BY DEF SameAnswer, Written
<1>4. Going => Going'
  BY <1>1 DEF SameAnswer, Going
<1>5. Original => Original'
  BY <1>1 DEF SameAnswer, Original
<1>6. SoundCalls \subseteq SoundCalls'
  <2> SUFFICES ASSUME NEW c \in SoundCalls PROVE Sound(c)'
    BY DEF SoundCalls
  <2>1. Sound(c)
    BY DEF SoundCalls
  <2> QED BY <1>1, <2>1 DEF Sound, SameAnswer
<1> QED BY <1>1, <1>2, <1>3, <1>4, <1>5, <1>6

\* What AnswerInv says while the connection is there to stay
Alive == todo \in Seq(SoundCalls) /\ Written /\ Going /\ Original /\ Pumped

LEMMA AnswerStep ==
  ASSUME IInv, Http1, FirstInv, Alive, Step, NEW x \in Seq(SoundCalls'), Then(x), ~Serves(Head(todo)),
         Idles(Head(todo)) => tx'[1].end = tx[1].end /\ \A i \in 1..Len(x) : Idles(x[i]),
         SameSound, Written', Going', Original'
  PROVE  Alive'
<1>1. TypeOK /\ todo # <<>>
  BY TopOfStep DEF IInv
<1>2. todo' \in Seq(SoundCalls')
  BY <1>1, SoundStep DEF Alive
<1>3. Pumped'
  <2>1. x \in Seq(Calls)
    BY DEF SoundCalls
  <2> QED BY <1>1, <2>1, PumpedStep DEF Alive
<1> QED BY <1>2, <1>3 DEF Alive

\* What is not on the stack as long as the connection is there to stay
LEMMA AliveTop == ASSUME TypeOK, Http1, FirstInv, todo # <<>>, ~Gone
PROVE  /\ Head(todo).op \notin EndOps \cup {"Hang", "NetError", "Disconnect"}
       /\ Head(todo).op = "Error" => Head(todo).n \in {Soft, Close}
       /\ ~stream[1].disconnect /\ ~net.error /\ ~net.eof
<1>1. 1 \in 1..Len(todo) /\ todo[1] = Head(todo)
  BY DEF TypeOK
<1>2. Head(todo).op \notin {"Hang", "NetError", "Disconnect"}
  BY <1>1 DEF Gone, Hanging, Has
<1> QED BY <1>2, FirstTop DEF Fits, Gone

LEMMA ClearRuns == ASSUME S = 1
PROVE  /\ \A op \in ClearOps : Run(op) \in Seq(Clear)
       /\ \A n \in 0..7 : SetTo(S, n) \in Seq(Clear) /\ <<Call("Update", S, n)>> \in Seq(Clear)
       /\ Error(S, Close) \in Seq(Clear) /\ <<Call("Service", S, 1)>> \in Seq(Clear)
<1>1. \A c \in Clear : <<c>> \in Seq(Clear)
  OBVIOUS
<1>2. 0 \in 0..9 /\ 1 \in 0..9 /\ "Service" \in ClearOps
  BY DEF ClearOps, Ops
<1>3. /\ \A op \in ClearOps : Call(op, 1, 0) \in Clear
      /\ \A n \in 0..7 : Call("SetState", 1, n) \in Clear /\ Call("Update", 1, n) \in Clear
      /\ Call("Error", 1, Close) \in Clear /\ Call("Service", 1, 1) \in Clear
  BY <1>2, ClearCalls, One
<1> HIDE DEF Clear
<1> QED BY <1>1, <1>3 DEF Run, SetTo, Error

LEMMA ClearJoin == /\ <<>> \in Seq(Clear)
                   /\ \A x, y \in Seq(Clear) : x \o y \in Seq(Clear)
                   /\ \A b \in BOOLEAN, x \in Seq(Clear) : When(b, x) \in Seq(Clear)
                   /\ \A x \in Seq(Clear) : x \in Seq(SoundCalls) /\ x \in Seq(SoundCalls')
<1>1. <<>> \in Seq(Clear) /\ \A x, y \in Seq(Clear) : x \o y \in Seq(Clear)
  OBVIOUS
<1>2. \A x \in Seq(Clear) : x \in Seq(SoundCalls) /\ x \in Seq(SoundCalls')
  BY ClearSound
<1> QED BY <1>1, <1>2 DEF When

LEMMA SoundJoin == /\ <<>> \in Seq(SoundCalls)
                   /\ \A x, y \in Seq(SoundCalls) : x \o y \in Seq(SoundCalls)
                   /\ \A c \in SoundCalls : <<c>> \in Seq(SoundCalls)
                   /\ <<>> \in Seq(SoundCalls')
                   /\ \A x, y \in Seq(SoundCalls') : x \o y \in Seq(SoundCalls')
                   /\ \A c \in SoundCalls' : <<c>> \in Seq(SoundCalls')
<1> HIDE DEF SoundCalls
<1> QED OBVIOUS

LEMMA AliveHead == ASSUME TypeOK, Alive, todo # <<>>
                   PROVE  Sound(Head(todo)) /\ Head(todo) \in Calls
<1>1. Head(todo) \in SoundCalls
  BY DEF Alive
<1> QED BY <1>1 DEF SoundCalls

LEMMA Busy == ASSUME Head(todo).op \notin {"ServiceEnd", "Enable", "Idle", "Error", "Service"}
              PROVE  ~Serves(Head(todo)) /\ ~Idles(Head(todo))
BY DEF Serves, Idles

\* A step that leaves the request as it is, as far as AnswerInv tells it apart
LEMMA QuietStep ==
  ASSUME IInv, Http1, FirstInv, Alive, Step, SameAnswer, NEW x \in Seq(SoundCalls), Then(x), ~Serves(Head(todo)),
         Idles(Head(todo)) => \A i \in 1..Len(x) : Idles(x[i])
  PROVE  Alive'
<1>1. SameSound /\ Written' /\ Going' /\ Original' /\ SoundCalls \subseteq SoundCalls'
  BY AnswerSame DEF Alive
<1>2. x \in Seq(SoundCalls')
  BY <1>1
<1>3. tx'[1].end = tx[1].end
  BY DEF SameAnswer
<1> QED BY <1>1, <1>2, <1>3, AnswerStep

\* Such a step of a call that is not of the end of the service
Rests == SameAnswer /\ Head(todo).op \notin {"ServiceEnd", "Enable", "Idle", "Error", "Service"}
         /\ \E x \in Seq(SoundCalls) : Then(x)

LEMMA RestsKeeps == ASSUME IInv, Http1, FirstInv, Alive, Step, Rests
                    PROVE  Alive'
BY QuietStep, Busy DEF Rests

\* What SameAnswer does not look at
LEMMA Unseeing ==
  ASSUME Types, 1 \in Streams, NEW a, NEW b, NEW c,
         stream' = stream \/ stream' = [stream EXCEPT ![1].keep = a],
         \/ rx' = rx \/ rx' = [rx EXCEPT ![1].inputEnded = a, ![1].eof = b, ![1].queued = c]
         \/ rx' = [rx EXCEPT ![1].queued = a] \/ rx' = [rx EXCEPT ![1].eof = b]
         \/ rx' = [rx EXCEPT ![1].more = a, ![1].streaming = b],
         tx' = tx \/ tx' = [tx EXCEPT ![1].finIn = a] \/ tx' = [tx EXCEPT ![1].finalized = a]
  PROVE  SameAnswer
<1>1. /\ stream'[1].error = stream[1].error /\ stream'[1].state = stream[1].state
      /\ stream'[1].target = stream[1].target
  BY DEF Types, StreamType
<1>2. rx'[1].errdoc = rx[1].errdoc /\ rx'[1].routed = rx[1].routed
  BY DEF Types, RxType
<1>3. /\ tx'[1].handler = tx[1].handler /\ tx'[1].pipeline = tx[1].pipeline /\ tx'[1].started = tx[1].started
      /\ tx'[1].ready = tx[1].ready /\ tx'[1].working = tx[1].working /\ tx'[1].file = tx[1].file
      /\ tx'[1].pending = tx[1].pending /\ tx'[1].finOut = tx[1].finOut /\ tx'[1].finConn = tx[1].finConn
      /\ tx'[1].headers = tx[1].headers /\ tx'[1].end = tx[1].end /\ tx'[1].stale = tx[1].stale /\ tx'[1].errdoc = tx[1].errdoc
  BY DEF Types, TxType
<1> QED BY <1>1, <1>2, <1>3 DEF SameAnswer

LEMMA FinishRests ==
  ASSUME TypeOK, Http1, FirstInv, Alive, todo # <<>>, S = 1, ~Gone,
         Kick \/ InputEnd \/ PumpIn \/ FinalizeInput \/ CheckFinalized \/ SetFinalized \/ Finalize \/ AfterError \/ Filed
  PROVE  Rests
<1>0. Types /\ 1 \in Streams /\ Sound(Head(todo)) /\ Head(todo) \in Calls
  BY One, AliveHead DEF TypeOK, Types
<1>1. Head(todo).op \notin {"ServiceEnd", "Enable", "Idle", "Error", "Service"}
  BY DEF Do, Kick, InputEnd, PumpIn, FinalizeInput, CheckFinalized, SetFinalized, Finalize, AfterError, Filed
<1>2. SameAnswer
  <2>1. CASE Kick \/ CheckFinalized \/ Finalize \/ AfterError \/ Filed
    <3>1. stream' = stream /\ rx' = rx /\ tx' = tx
      BY <2>1 DEF Kick, CheckFinalized, Finalize, AfterError, Filed
    <3> QED BY <1>0, <3>1, Unseeing
  <2>2. CASE InputEnd
    <3>1. stream' = stream /\ tx' = tx
          /\ rx' = [rx EXCEPT ![1].inputEnded = TRUE, ![1].eof = TRUE, ![1].queued = @ \/ ~rx[1].inputEnded]
      BY <2>2 DEF InputEnd
    <3> QED BY <1>0, <3>1, Unseeing
  <2>3. CASE PumpIn
    <3>1. stream' = stream /\ tx' = tx /\ rx' = [rx EXCEPT ![1].queued = FALSE]
      BY <2>3 DEF PumpIn
    <3> QED BY <1>0, <3>1, Unseeing
  <2>4. CASE FinalizeInput
    <3>1. stream' = stream /\ tx' = [tx EXCEPT ![1].finIn = TRUE] /\ rx' = [rx EXCEPT ![1].eof = @ \/ ~tx[1].finIn]
      BY <2>4 DEF FinalizeInput
    <3> QED BY <1>0, <3>1, Unseeing
  <2>5. CASE SetFinalized
    <3>1. stream' = stream /\ rx' = rx /\ tx' = [tx EXCEPT ![1].finalized = @ \/ rx[1].errdoc = (Arg = 1)]
      BY <2>5 DEF SetFinalized
    <3> QED BY <1>0, <3>1, Unseeing
  <2> QED BY <2>1, <2>2, <2>3, <2>4, <2>5
<1>3. {"Enable", "FinalizeInput", "CheckFinalized", "SetFinalized"} \subseteq ClearOps
  BY DEF ClearOps, Ops
<1>4. /\ Run("Enable") \in Seq(Clear) /\ Run("FinalizeInput") \in Seq(Clear) /\ Run("CheckFinalized") \in Seq(Clear)
      /\ SetTo(S, Ready) \in Seq(Clear)
  <2>1. Ready \in 0..7
    BY DEF Ready
  <2> QED BY <1>3, <2>1, ClearRuns
<1>5. \E x \in Seq(SoundCalls) : Then(x)
  <2>1. CASE InputEnd \/ SetFinalized
    <3>1. Then(<<>>)
      BY <2>1 DEF InputEnd, SetFinalized
    <3> QED BY <3>1, SoundJoin
  <2>2. CASE Kick
    <3>1. Then(<<>>) \/ Then(Run("Enable"))
      BY <2>2 DEF Kick, When
    <3> QED BY <1>4, <3>1, SoundJoin, ClearJoin
  <2>3. CASE PumpIn
    <3>1. Then(<<>>) \/ Then(Run("FinalizeInput"))
      BY <2>3 DEF PumpIn, When
    <3> QED BY <1>4, <3>1, SoundJoin, ClearJoin
  <2>4. CASE FinalizeInput
    <3>1. Then(<<>>) \/ Then(SetTo(S, Ready) \o Run("CheckFinalized"))
      BY <2>4 DEF FinalizeInput, When
    <3> QED BY <1>4, <3>1, SoundJoin, ClearJoin
  <2>5. CASE AfterError
    <3>1. ~stream[1].disconnect
      BY AliveTop
    <3>2. Then(<<>>)
      BY <2>5, <3>1 DEF AfterError, When
    <3> QED BY <3>2, SoundJoin
  <2>6. CASE Finalize
    <3>1. Then(Run("FinalizeOutput") \o Run("FinalizeInput") \o Run("CheckFinalized"))
      BY <2>6 DEF Finalize
    <3>2. Call("FinalizeOutput", 1, 0) \in SoundCalls
      <4>1. ~rx[1].errdoc => Cause
        BY <1>0, <2>6 DEF Finalize, Do, Sound
      <4>2. Call("FinalizeOutput", 1, 0) \in Calls
        BY <1>0, CallType DEF Ops
      <4>3. Call("FinalizeOutput", 1, 0).op = "FinalizeOutput"
        BY DEF Call
      <4> QED BY <4>1, <4>2, <4>3 DEF SoundCalls, Sound
    <3>3. Run("FinalizeOutput") \in Seq(SoundCalls)
      BY <3>2, SoundJoin DEF Run
    <3>4. Run("FinalizeInput") \in Seq(SoundCalls) /\ Run("CheckFinalized") \in Seq(SoundCalls)
      BY <1>4, ClearJoin
    <3> QED BY <3>1, <3>3, <3>4, SoundJoin
  <2>7. CASE Filed
    <3>1. \/ Then(<<>>)
          \/ tx[1].finOut /\ Then(Run("Finalize"))
      BY <2>7 DEF Filed, When
    <3>2. ASSUME tx[1].finOut PROVE Run("Finalize") \in Seq(SoundCalls)
      <4>1. ~rx[1].errdoc => Cause
        BY <3>2 DEF Alive, Original
      <4>2. Call("Finalize", 1, 0) \in Calls
        BY <1>0, CallType DEF Ops
      <4>3. Call("Finalize", 1, 0).op = "Finalize"
        BY DEF Call
      <4>4. Call("Finalize", 1, 0) \in SoundCalls
        BY <4>1, <4>2, <4>3 DEF SoundCalls, Sound
      <4> QED BY <4>4, SoundJoin DEF Run
    <3> QED BY <3>1, <3>2, SoundJoin
  <2>8. CASE CheckFinalized
    <3> DEFINE n == IF rx[1].errdoc THEN 1 ELSE 0
    <3>1. \/ Then(<<>>)
          \/ tx[1].finConn /\ Then(<<Call("SetState", 1, Finalized)>> \o <<Call("SetFinalized", 1, n)>>)
      BY <2>8 DEF CheckFinalized, When, SetTo
    <3>2. ASSUME tx[1].finConn PROVE Call("SetState", 1, Finalized) \in SoundCalls
      <4>1. Finalized \in 0..9 /\ Finalized # Complete
        BY DEF Finalized, Complete
      <4>2. Call("SetState", 1, Finalized) \in Calls
        BY <1>0, <4>1, CallType DEF Ops
      <4>3. Call("SetState", 1, Finalized).op = "SetState" /\ Call("SetState", 1, Finalized).n = Finalized
        BY DEF Call
      <4> QED BY <3>2, <4>1, <4>2, <4>3 DEF SoundCalls, Sound, Over
    <3>3. Call("SetFinalized", 1, n) \in SoundCalls
      <4>1. n \in 0..9
        OBVIOUS
      <4> HIDE DEF n
      <4> QED BY <1>0, <1>3, <4>1, ClearCalls, ClearSound
    <3> HIDE DEF n
    <3> QED BY <3>1, <3>2, <3>3, SoundJoin
  <2> QED BY <2>1, <2>2, <2>3, <2>4, <2>5, <2>6, <2>7, <2>8
<1> QED BY <1>1, <1>2, <1>5 DEF Rests

LEMMA IdleKeeps == ASSUME IInv, Http1, FirstInv, Alive, Step, S = 1, ~Gone, ServiceEnd \/ Idle \/ Enable
                   PROVE  Alive'
<1>0. TypeOK /\ todo # <<>> /\ Types /\ 1 \in Streams
  BY TopOfStep, One DEF IInv, TypeOK, Types
<1>1. ~Serves(Head(todo))
  BY DEF Serves, ServiceEnd, Idle, Enable, Do
<1>2. SameAnswer
  <2>1. stream' = stream /\ rx' = rx /\ tx' = tx
    BY DEF ServiceEnd, Idle, Enable
  <2> QED BY <1>0, <2>1, Unseeing
<1>3. CASE Idle \/ Enable
  <2>1. Then(<<>>) /\ Len(<<>>) = 0
    BY <1>3 DEF Idle, Enable
  <2>2. <<>> \in Seq(SoundCalls)
    BY SoundJoin
  <2>3. \A i \in 1..Len(<<>>) : Idles(<<>>[i])
    BY <2>1
  <2> QED BY <1>1, <1>2, <2>1, <2>2, <2>3, QuietStep
<1>4. CASE ServiceEnd
  <2>1. ~net.error /\ ~net.eof /\ ~net.goaway
    BY <1>0, AliveTop DEF FirstInv
  <2>2. Then(Run("Enable"))
    BY <1>4, <2>1 DEF ServiceEnd
  <2>3. Run("Enable") \in Seq(SoundCalls)
    BY ClearRuns, ClearJoin DEF ClearOps, Ops
  <2>4. \A i \in 1..Len(Run("Enable")) : Idles(Run("Enable")[i])
    BY DEF Run, Idles, Call
  <2> QED BY <1>1, <1>2, <2>2, <2>3, <2>4, QuietStep
<1> QED BY <1>3, <1>4

LEMMA ParseRests == ASSUME TypeOK, todo # <<>>, S = 1, ParseLine \/ ParseFields \/ ProcessFirst \/ ProcessHeaders \/ ProcessContent \/ ProcessReady
                    PROVE  Rests
<1>0. Types /\ 1 \in Streams
  BY One DEF TypeOK, Types
<1>1. Head(todo).op \notin {"ServiceEnd", "Enable", "Idle", "Error", "Service"}
  BY DEF ParseLine, ParseFields, ProcessFirst, ProcessHeaders, ProcessContent, ProcessReady, Do
<1>2. SameAnswer
  <2>1. CASE ParseLine \/ ParseFields \/ ProcessFirst \/ ProcessContent \/ ProcessReady
    <3>1. stream' = stream /\ rx' = rx /\ tx' = tx
      BY <2>1 DEF ParseLine, ParseFields, ProcessFirst, ProcessContent, ProcessReady
    <3> QED BY <1>0, <3>1, Unseeing
  <2>2. CASE ProcessHeaders
    <3>1. tx' = tx
      BY <2>2 DEF ProcessHeaders
    <3>2. \/ stream' = stream /\ rx' = rx
          \/ \E more \in BOOLEAN, streaming \in BOOLEAN, closing \in BOOLEAN :
               /\ rx' = [rx EXCEPT ![1].more = more, ![1].streaming = streaming]
               /\ stream' = [stream EXCEPT ![1].keep = IF closing THEN 0 ELSE @]
      BY <2>2 DEF ProcessHeaders
    <3>3. ASSUME NEW more \in BOOLEAN, NEW streaming \in BOOLEAN, NEW closing \in BOOLEAN,
                 rx' = [rx EXCEPT ![1].more = more, ![1].streaming = streaming],
                 stream' = [stream EXCEPT ![1].keep = IF closing THEN 0 ELSE @]
          PROVE  SameAnswer
      <4> DEFINE k == IF closing THEN 0 ELSE stream[1].keep
      <4>1. stream' = [stream EXCEPT ![1].keep = k]
        BY <3>3
      <4> HIDE DEF k
      <4>2. /\ stream'[1].error = stream[1].error /\ stream'[1].state = stream[1].state
            /\ stream'[1].target = stream[1].target
        BY <1>0, <4>1 DEF Types, StreamType
      <4>3. rx'[1].errdoc = rx[1].errdoc /\ rx'[1].routed = rx[1].routed
        BY <1>0, <3>3 DEF Types, RxType
      <4> QED BY <3>1, <4>2, <4>3 DEF SameAnswer
    <3> QED BY <1>0, <3>1, <3>2, <3>3, Unseeing
  <2> QED BY <2>1, <2>2
<1>3. {"InputEnd", "Fields", "Route", "StartHandler", "ReadyHandler", "Service"} \subseteq ClearOps
  BY DEF ClearOps, Ops
<1>4. /\ Run("InputEnd") \in Seq(Clear) /\ Run("Fields") \in Seq(Clear) /\ Run("Route") \in Seq(Clear)
      /\ Run("StartHandler") \in Seq(Clear) /\ Error(S, Close) \in Seq(Clear)
      /\ \A n \in {0, First, Parsed, Content, Ready, Running} :
           SetTo(S, n) \in Seq(Clear) /\ <<Call("Update", S, n)>> \in Seq(Clear)
  <2>1. {0, First, Parsed, Content, Ready, Running} \subseteq 0..7
    BY DEF First, Parsed, Content, Ready, Running
  <2> QED BY <1>3, <2>1, ClearRuns
<1>5. \E x \in Seq(Clear) : Then(x)
  <2>1. CASE ParseLine
    <3>1. Then(<<>>) \/ Then(Error(S, Close)) \/ Then(Error(S, Close) \o Run("Fields")) \/ Then(SetTo(S, First) \o Run("Fields"))
      BY <2>1 DEF ParseLine
    <3> QED BY <1>4, <3>1, ClearJoin
  <2>2. CASE ParseFields
    <3>1. Then(Error(S, Close)) \/ Then(SetTo(S, Parsed))
      BY <2>2 DEF ParseFields
    <3> QED BY <1>4, <3>1
  <2>3. CASE ProcessFirst
    <3>1. Then(Error(S, Close) \o <<Call("Update", S, 0)>>) \/ Then(<<Call("Update", S, First)>>)
      BY <2>3 DEF ProcessFirst
    <3> QED BY <1>4, <3>1, ClearJoin
  <2>4. CASE ProcessHeaders
    <3>1. Then(<<>>) \/ Then(Error(S, Close))
      BY <2>4 DEF ProcessHeaders
    <3> QED BY <1>4, <3>1, ClearJoin
  <2>5. CASE ProcessContent
    <3>1. Then(<<Call("Update", S, Content)>>) \/ Then(Run("InputEnd") \o <<Call("Update", S, Ready)>>)
      BY <2>5 DEF ProcessContent
    <3> QED BY <1>4, <3>1, ClearJoin
  <2>6. CASE ProcessReady
    <3> DEFINE low == <<Call("Service", S, 1), Call("ReadyHandler", S, 0), Call("Update", S, Running)>>
               parts == Run("Route") \o Run("StartHandler")
    <3>1. Then(<<>> \o low) \/ Then(parts \o low)
      BY <2>6 DEF ProcessReady, When
    <3>2. low \in Seq(Clear)
      <4>1. Call("Service", S, 1) \in Clear /\ Call("ReadyHandler", S, 0) \in Clear /\ Call("Update", S, Running) \in Clear
        <5>1. Running \in 0..7 /\ 0 \in 0..9 /\ 1 \in 0..9
          BY DEF Running
        <5> QED BY <1>0, <1>3, <5>1, ClearCalls
      <4> HIDE DEF Clear
      <4> QED BY <4>1
    <3>3. parts \in Seq(Clear)
      BY <1>4, ClearJoin
    <3> HIDE DEF low, parts
    <3> QED BY <3>1, <3>2, <3>3, ClearJoin
  <2> QED BY <2>1, <2>2, <2>3, <2>4, <2>5, <2>6
<1>6. \E x \in Seq(SoundCalls) : Then(x)
  BY <1>5, ClearJoin
<1> QED BY <1>1, <1>2, <1>6 DEF Rests

\* An error that does not end the connection, of a request that has not queued its response
LEMMA SoftSound == ASSUME 1 \in Streams, ~rx[1].errdoc => Unanswered
                   PROVE  Error(1, Soft) \in Seq(SoundCalls)
<1>1. Soft \in 0..9 /\ Soft # Finalized /\ Soft # Complete
  BY DEF Soft, Finalized, Complete
<1>2. Call("Error", 1, Soft) \in Calls
  BY <1>1, CallType DEF Ops
<1>3. Call("Error", 1, Soft).op = "Error"
  BY DEF Call
<1>4. Call("Error", 1, Soft) \in SoundCalls
  BY <1>2, <1>3 DEF SoundCalls, Sound
<1> QED BY <1>4, SoundJoin DEF Error

LEMMA ParsedRests == ASSUME TypeOK, Http1, FirstInv, todo # <<>>, S = 1, ~Gone, ProcessParsed
                     PROVE  Rests
<1>0. Types /\ 1 \in Streams /\ ~stream[1].disconnect
  BY One, AliveTop DEF TypeOK, Types
<1>1. Head(todo).op \notin {"ServiceEnd", "Enable", "Idle", "Error", "Service"}
  BY DEF ProcessParsed, Do
<1>2. SameAnswer
  <2>1. stream' = stream /\ rx' = rx /\ tx' = tx
    BY DEF ProcessParsed
  <2> QED BY <1>0, <2>1, Unseeing
<1>3. Unanswered
  <2>1. ~rx[1].routed
    BY FirstTop DEF Fits, ProcessParsed, Do
  <2> QED BY <2>1 DEF Unanswered
<1>4. PICK bad \in BOOLEAN, big \in BOOLEAN :
        Then(When(bad, Error(S, Soft)) \o When(rx[S].streaming, Run("Route") \o Run("StartHandler"))
             \o When(big, Error(S, Close)) \o <<Call("Update", S, Content)>>)
  BY <1>0 DEF ProcessParsed
<1> DEFINE a == When(bad, Error(S, Soft))
           b == When(rx[S].streaming, Run("Route") \o Run("StartHandler"))
           c == When(big, Error(S, Close))
           d == <<Call("Update", S, Content)>>
<1>5. a \in Seq(SoundCalls)
  BY <1>0, <1>3, SoftSound, SoundJoin DEF When
<1>6. b \in Seq(SoundCalls) /\ c \in Seq(SoundCalls) /\ d \in Seq(SoundCalls)
  <2>1. "Route" \in ClearOps /\ "StartHandler" \in ClearOps /\ Content \in 0..7
    BY DEF ClearOps, Ops, Content
  <2>2. Run("Route") \in Seq(Clear) /\ Run("StartHandler") \in Seq(Clear) /\ Error(S, Close) \in Seq(Clear) /\ d \in Seq(Clear)
    BY <2>1, ClearRuns
  <2>3. Run("Route") \o Run("StartHandler") \in Seq(Clear)
    BY <2>2, ClearJoin
  <2>4. b \in Seq(Clear) /\ c \in Seq(Clear)
    BY <2>2, <2>3, ClearJoin DEF When
  <2> QED BY <2>2, <2>4, ClearJoin
<1>7. Then(a \o b \o c \o d)
  BY <1>4
<1> HIDE DEF a, b, c, d
<1>8. a \o b \o c \o d \in Seq(SoundCalls)
  BY <1>5, <1>6, SoundJoin
<1> QED BY <1>1, <1>2, <1>7, <1>8 DEF Rests

\* A step that changes the request and agrees with AnswerInv
Moves == /\ Head(todo).op \notin {"ServiceEnd", "Enable", "Idle", "Error", "Service"}
         /\ SameSound /\ Written' /\ Going' /\ Original'
         /\ \E x \in Seq(SoundCalls') : Then(x)

LEMMA MovesKeeps == ASSUME IInv, Http1, FirstInv, Alive, Step, Moves
                    PROVE  Alive'
BY AnswerStep, Busy DEF Moves

LEMMA NoOpen == ASSUME TypeOK, Http1, FirstInv, todo # <<>>, Head(todo).op \in {"StartHandler", "ReadyHandler"}
                PROVE  ~Has("Route") /\ ~Has("Open")
<1>1. \A d \in Lower : d.op \notin {"Route", "Open"}
  BY DEF Lower, Above
<1>2. Tail(todo) \in Seq(Fit \cap Lower) /\ todo \in Seq(Calls)
  BY FirstTop DEF TypeOK
<1>3. \A i \in 2..Len(todo) : i - 1 \in 1..Len(Tail(todo)) /\ todo[i] = Tail(todo)[i - 1]
  BY <1>2
<1>4. \A i \in 2..Len(todo) : todo[i].op \notin {"Route", "Open"}
  BY <1>1, <1>2, <1>3
<1>5. todo[1] = Head(todo) /\ Len(todo) \in Nat
  BY <1>2
<1>6. ASSUME NEW i \in 1..Len(todo) PROVE todo[i].op \notin {"Route", "Open"}
  <2>1. i = 1 \/ i \in 2..Len(todo)
    BY <1>5
  <2> QED BY <1>4, <1>5, <2>1
<1> QED BY <1>6 DEF Has

\* A handler that has been started has its pipeline.
LEMMA StartedPipeline == ASSUME Http1, FirstInv, tx[1].started
                         PROVE  tx[1].pipeline /\ rx[1].routed
<1>1. rx[1].routed /\ (tx[1].pipeline \/ Has("Open"))
  BY DEF FirstInv
<1>2. ~Has("Open")
  <2> SUFFICES ASSUME NEW i \in 1..Len(todo), todo[i].op = "Open" PROVE FALSE
    BY DEF Has
  <2>1. todo[i] \in Fit
    BY DEF FirstInv
  <2> QED BY <2>1 DEF Fit, Fits
<1> QED BY <1>1, <1>2

\* Calls of one operation
LEMMA ClearOne == ASSUME S = 1, NEW op \in ClearOps
                  PROVE  Run(op) \in Seq(SoundCalls) /\ Run(op) \in Seq(SoundCalls')
BY ClearRuns, ClearJoin

\* The output of a request may be finished when there is a cause for it.
LEMMA OutSound == ASSUME S = 1, NEW op \in {"Finalize", "FinalizeOutput"}
                  PROVE  (~rx[1].errdoc => Cause)' => Run(op) \in Seq(SoundCalls')
<1> SUFFICES ASSUME (~rx[1].errdoc => Cause)' PROVE Run(op) \in Seq(SoundCalls')
  OBVIOUS
<1>1. Call(op, 1, 0) \in Calls
  BY One, CallType DEF Ops
<1>2. Call(op, 1, 0).op = op
  BY DEF Call
<1>3. Call(op, 1, 0) \in SoundCalls'
  BY <1>1, <1>2 DEF SoundCalls, Sound
<1> QED BY <1>3, SoundJoin DEF Run

LEMMA SoftSoundNext == ASSUME S = 1, (~rx[1].errdoc => Unanswered)'
                       PROVE  Error(S, Soft) \in Seq(SoundCalls')
<1>1. Soft \in 0..9
  BY DEF Soft
<1>2. Call("Error", 1, Soft) \in Calls
  BY <1>1, One, CallType DEF Ops
<1>3. Call("Error", 1, Soft).op = "Error"
  BY DEF Call
<1>4. Call("Error", 1, Soft) \in SoundCalls'
  BY <1>2, <1>3 DEF SoundCalls, Sound
<1> QED BY <1>4, SoundJoin DEF Error

LEMMA RouteMoves == ASSUME TypeOK, Http1, FirstInv, Alive, S = 1, todo # <<>>, Route
                    PROVE  Rests \/ Moves
<1>0. Types /\ 1 \in Streams /\ tx[1] \in TxType /\ rx[1] \in RxType
  BY One DEF TypeOK, Types
<1>1. Head(todo).op \notin {"ServiceEnd", "Enable", "Idle", "Error", "Service"} /\ stream' = stream
  BY DEF Route, Do
<1>2. CASE rx[1].routed
  <2>1. Then(<<>>) /\ rx' = rx /\ tx' = tx
    BY <1>2 DEF Route
  <2>2. SameAnswer
    BY <1>0, <1>1, <2>1, Unseeing
  <2> QED BY <1>1, <2>1, <2>2, SoundJoin DEF Rests
<1>3. CASE ~rx[1].routed
  <2>1. tx[1].handler = "none" /\ ~tx[1].pipeline /\ ~tx[1].started
    BY <1>3 DEF FirstInv
  <2>2. PICK h : tx' = [tx EXCEPT ![1].handler = h]
    BY <1>3 DEF Route
  <2>3. tx'[1] = [tx[1] EXCEPT !.handler = h]
    BY <1>0, <2>2 DEF Types
  <2>4. rx'[1].errdoc = rx[1].errdoc
    BY <1>0, <1>3 DEF Route, Types, RxType
  <2>5. /\ tx'[1].pipeline = tx[1].pipeline /\ tx'[1].started = tx[1].started
        /\ tx'[1].ready = tx[1].ready /\ tx'[1].working = tx[1].working /\ tx'[1].file = tx[1].file
        /\ tx'[1].pending = tx[1].pending /\ tx'[1].finOut = tx[1].finOut /\ tx'[1].finConn = tx[1].finConn
        /\ tx'[1].headers = tx[1].headers /\ tx'[1].end = tx[1].end /\ tx'[1].stale = tx[1].stale
        /\ tx'[1].errdoc = tx[1].errdoc
    BY <1>0, <2>3 DEF TxType
  <2>6. (Cause' <=> stream[1].error) /\ (Cause <=> stream[1].error) /\ (Over' <=> Over)
    BY <1>1, <2>1, <2>5 DEF Cause, Over
  <2>7. SameSound
    BY <2>4, <2>5, <2>6 DEF SameSound
  <2>8. Written' /\ Going'
    BY <1>1, <2>5, <2>6 DEF Alive, Written, Going
  <2>9. Original'
    BY <1>1, <2>1, <2>4, <2>5, <2>6 DEF Alive, Original
  <2>10. \E x \in Seq(SoundCalls') : Then(x)
    <3>1. Run("Open") \in Seq(SoundCalls')
      BY ClearOne DEF ClearOps, Ops
    <3>2. ASSUME ~stream[1].error PROVE Error(S, Soft) \in Seq(SoundCalls')
      <4>1. (~rx[1].errdoc => Unanswered)'
        BY <2>4, <2>5, <2>6, <3>2 DEF Alive, Original, Unanswered
      <4> QED BY <4>1, SoftSoundNext
    <3>3. Then(Run("Open")) \/ Then(<<>> \o Run("Open")) \/ (~stream[1].error /\ Then(Error(S, Soft) \o Run("Open")))
      BY <1>3 DEF Route, When
    <3> QED BY <3>1, <3>2, <3>3, SoundJoin
  <2> QED BY <1>1, <2>7, <2>8, <2>9, <2>10 DEF Moves
<1> QED BY <1>2, <1>3

LEMMA OpenMoves == ASSUME TypeOK, Http1, FirstInv, Alive, S = 1, todo # <<>>, Open \/ Revert
                   PROVE  Moves
<1>0. Types /\ 1 \in Streams /\ tx[1] \in TxType
  BY One DEF TypeOK, Types
<1>1. Head(todo).op \notin {"ServiceEnd", "Enable", "Idle", "Error", "Service"} /\ stream' = stream /\ rx' = rx
  BY DEF Open, Revert, Do
<1>2. CASE Open
  <2>1. PICK ok \in BOOLEAN : /\ ~ok => tx[1].handler \in {"file", "cgi"}
                              /\ tx' = [tx EXCEPT ![1].pipeline = TRUE,
                                                  ![1].opened = tx[1].handler = "file" \/ (tx[1].handler = "cgi" /\ ok)]
                              /\ Then(When(~ok, Error(S, Soft)) \o Run("Revert"))
    BY <1>2 DEF Open
  <2>2. ~tx[1].started
    BY <1>2, FirstTop DEF Fits, Open, Do
  <2>3. /\ tx'[1].pipeline /\ tx'[1].started = tx[1].started /\ tx'[1].handler = tx[1].handler
        /\ tx'[1].ready = tx[1].ready /\ tx'[1].working = tx[1].working /\ tx'[1].file = tx[1].file
        /\ tx'[1].pending = tx[1].pending /\ tx'[1].finOut = tx[1].finOut /\ tx'[1].finConn = tx[1].finConn
        /\ tx'[1].headers = tx[1].headers /\ tx'[1].end = tx[1].end /\ tx'[1].stale = tx[1].stale
        /\ tx'[1].errdoc = tx[1].errdoc
    BY <1>0, <2>1 DEF Types, TxType
  <2>4. (Over' <=> Over) /\ (Cause => Cause')
    BY <1>1, <2>3 DEF Cause, Over, Acted
  <2>5. SameSound
    BY <1>1, <2>3, <2>4 DEF SameSound
  <2>6. Written' /\ Going'
    BY <1>1, <2>3, <2>4 DEF Alive, Written, Going
  <2>7. Original'
    BY <1>1, <2>3, <2>4 DEF Alive, Original
  <2>8. \E x \in Seq(SoundCalls') : Then(x)
    <3>1. Run("Revert") \in Seq(SoundCalls')
      BY ClearOne DEF ClearOps, Ops
    <3>2. ASSUME ~ok PROVE Error(S, Soft) \in Seq(SoundCalls')
      <4>1. ~(tx[1].pipeline /\ Acted)
        BY <2>1, <2>2, <3>2 DEF Acted
      <4>2. ~rx[1].errdoc /\ tx[1].end # "none" => stream[1].error
        BY <4>1 DEF Alive, Original, Cause
      <4>3. (~rx[1].errdoc => Unanswered)'
        BY <1>1, <2>3, <4>2 DEF Unanswered
      <4> QED BY <4>3, SoftSoundNext
    <3>3. Then(<<>> \o Run("Revert")) \/ (~ok /\ Then(Error(S, Soft) \o Run("Revert")))
      BY <2>1 DEF When
    <3> QED BY <3>1, <3>2, <3>3, SoundJoin
  <2> QED BY <1>1, <2>5, <2>6, <2>7, <2>8 DEF Moves
<1>3. CASE Revert
  <2>1. tx' = [tx EXCEPT ![1].handler = IF stream[1].error THEN "pass" ELSE @] /\ Then(<<>>)
    BY <1>3 DEF Revert
  <2>2. /\ tx'[1].handler = tx[1].handler \/ stream[1].error
        /\ tx'[1].pipeline = tx[1].pipeline /\ tx'[1].started = tx[1].started
        /\ tx'[1].ready = tx[1].ready /\ tx'[1].working = tx[1].working /\ tx'[1].file = tx[1].file
        /\ tx'[1].pending = tx[1].pending /\ tx'[1].finOut = tx[1].finOut /\ tx'[1].finConn = tx[1].finConn
        /\ tx'[1].headers = tx[1].headers /\ tx'[1].end = tx[1].end /\ tx'[1].stale = tx[1].stale
        /\ tx'[1].errdoc = tx[1].errdoc
    BY <1>0, <2>1 DEF Types, TxType
  <2>3. (Over' <=> Over) /\ (Cause => Cause')
    BY <1>1, <2>2 DEF Cause, Over, Acted
  <2>4. SameSound
    BY <1>1, <2>2, <2>3 DEF SameSound
  <2>5. Written' /\ Going'
    BY <1>1, <2>2, <2>3 DEF Alive, Written, Going
  <2>6. Original'
    BY <1>1, <2>2, <2>3 DEF Alive, Original
  <2> QED BY <1>1, <2>1, <2>4, <2>5, <2>6, SoundJoin DEF Moves
<1> QED BY <1>2, <1>3

\* The start of a handler: from then on there is a cause for the end of the output.
LEMMA StartMoves == ASSUME TypeOK, Http1, FirstInv, Alive, S = 1, todo # <<>>, StartHandler
                    PROVE  Rests \/ Moves
<1>0. Types /\ 1 \in Streams /\ tx[1] \in TxType
  BY One DEF TypeOK, Types
<1>1. Head(todo).op \notin {"ServiceEnd", "Enable", "Idle", "Error", "Service"} /\ stream' = stream /\ rx' = rx
  BY DEF StartHandler, Do
<1>2. rx[1].routed /\ tx[1].pipeline
  <2>1. ~Has("Route") /\ ~Has("Open")
    BY NoOpen DEF StartHandler, Do
  <2>2. rx[1].routed \/ Has("Route")
    BY FirstTop DEF Fits, StartHandler, Do
  <2> QED BY <2>1, <2>2 DEF FirstInv
<1>3. CASE tx[1].started
  <2>1. Then(<<>>) /\ tx' = tx
    BY <1>3 DEF StartHandler
  <2>2. SameAnswer
    BY <1>0, <1>1, <2>1, Unseeing
  <2> QED BY <1>1, <2>1, <2>2, SoundJoin DEF Rests
<1>4. CASE ~tx[1].started
  <2>1. PICK file \in BOOLEAN, working \in BOOLEAN :
          /\ tx' = [tx EXCEPT ![1].started = TRUE, ![1].file = file, ![1].working = working]
          /\ file => tx[1].file \/ tx[1].handler = "file"
          /\ working => tx[1].working \/ tx[1].handler = "cgi"
          /\ \/ Then(Run("Pending"))
             \/ tx[1].handler = "file" /\ ~file /\ Then(Run("FinalizeOutput") \o Run("Pending"))
             \/ tx[1].handler = "file" /\ Then(<<>> \o Run("Pending"))
             \/ tx[1].handler = "cgi" /\ Then(Error(S, Soft) \o Run("Pending"))
             \/ tx[1].handler = "cgi" /\ Then(<<>> \o Run("Pending"))
    <3>1. CASE tx[1].handler \notin {"file", "cgi"}
      <4>1. tx' = [tx EXCEPT ![1].started = TRUE] /\ Then(Run("Pending"))
        BY <1>4, <3>1 DEF StartHandler
      <4>2. tx' = [tx EXCEPT ![1].started = TRUE, ![1].file = tx[1].file, ![1].working = tx[1].working]
        BY <1>0, <4>1 DEF Types, TxType
      <4>3. tx[1].file \in BOOLEAN /\ tx[1].working \in BOOLEAN
        BY <1>0 DEF TxType
      <4> QED BY <4>1, <4>2, <4>3
    <3>2. CASE tx[1].handler = "file"
      <4>1. PICK body \in BOOLEAN : /\ tx' = [tx EXCEPT ![1].started = TRUE, ![1].file = body]
                                    /\ Then(When(~body, Run("FinalizeOutput")) \o Run("Pending"))
        BY <1>4, <3>2 DEF StartHandler
      <4>2. tx' = [tx EXCEPT ![1].started = TRUE, ![1].file = body, ![1].working = tx[1].working]
        BY <1>0, <4>1 DEF Types, TxType
      <4>3. tx[1].working \in BOOLEAN
        BY <1>0 DEF TxType
      <4> QED BY <3>2, <4>1, <4>2, <4>3 DEF When
    <3>3. CASE tx[1].handler = "cgi"
      <4>1. PICK ok \in BOOLEAN : /\ tx' = [tx EXCEPT ![1].started = TRUE, ![1].working = ok]
                                  /\ Then(When(~ok, Error(S, Soft)) \o Run("Pending"))
        BY <1>4, <3>3 DEF StartHandler
      <4>2. tx' = [tx EXCEPT ![1].started = TRUE, ![1].file = tx[1].file, ![1].working = ok]
        BY <1>0, <4>1 DEF Types, TxType
      <4>3. tx[1].file \in BOOLEAN
        BY <1>0 DEF TxType
      <4> QED BY <3>3, <4>1, <4>2, <4>3 DEF When
    <3> QED BY <3>1, <3>2, <3>3
  <2>2. /\ tx'[1].started /\ tx'[1].file = file /\ tx'[1].working = working
        /\ tx'[1].handler = tx[1].handler /\ tx'[1].pipeline = tx[1].pipeline /\ tx'[1].ready = tx[1].ready
        /\ tx'[1].pending = tx[1].pending /\ tx'[1].finOut = tx[1].finOut /\ tx'[1].finConn = tx[1].finConn
        /\ tx'[1].headers = tx[1].headers /\ tx'[1].end = tx[1].end /\ tx'[1].stale = tx[1].stale
        /\ tx'[1].errdoc = tx[1].errdoc
    BY <1>0, <2>1 DEF Types, TxType
  <2>3. (Over' <=> Over) /\ (Cause => Cause')
    BY <1>1, <1>4, <2>2 DEF Cause, Over, Acted
  <2>4. SameSound
    BY <1>1, <2>2, <2>3 DEF SameSound
  <2>5. Written' /\ Going'
    BY <1>1, <2>2, <2>3 DEF Alive, Written, Going
  <2>6. Original'
    BY <1>1, <1>4, <2>1, <2>2, <2>3 DEF Alive, Original
  <2>7. \E x \in Seq(SoundCalls') : Then(x)
    <3>1. Run("Pending") \in Seq(SoundCalls')
      BY ClearOne DEF ClearOps, Ops
    <3>2. ASSUME tx[1].handler = "file", ~file PROVE Run("FinalizeOutput") \in Seq(SoundCalls')
      <4>1. (~rx[1].errdoc => Cause)'
        BY <1>2, <2>2, <3>2 DEF Cause, Acted
      <4> QED BY <4>1, OutSound
    <3>3. ASSUME tx[1].handler = "cgi" PROVE Error(S, Soft) \in Seq(SoundCalls')
      <4>1. ~Acted
        BY <1>4, <3>3 DEF Acted
      <4>2. ~rx[1].errdoc /\ tx[1].end # "none" => stream[1].error
        BY <4>1 DEF Alive, Original, Cause
      <4>3. (~rx[1].errdoc => Unanswered)'
        BY <1>1, <2>2, <4>2 DEF Unanswered
      <4> QED BY <4>3, SoftSoundNext
    <3> QED BY <2>1, <3>1, <3>2, <3>3, SoundJoin
  <2> QED BY <1>1, <2>4, <2>5, <2>6, <2>7 DEF Moves
<1> QED BY <1>3, <1>4

LEMMA ReadyMoves == ASSUME TypeOK, Http1, FirstInv, Alive, S = 1, todo # <<>>, Pending \/ ReadyHandler
                    PROVE  Moves
<1>0. Types /\ 1 \in Streams /\ tx[1] \in TxType
  BY One DEF TypeOK, Types
<1>1. Head(todo).op \notin {"ServiceEnd", "Enable", "Idle", "Error", "Service"} /\ stream' = stream /\ rx' = rx
  BY DEF Pending, ReadyHandler, Do
<1>2. CASE Pending
  <2>1. tx' = [tx EXCEPT ![1].finOut = @ /\ ~tx[1].pending] /\ Then(When(tx[1].pending, Run("FinalizeOutput")))
    BY <1>2 DEF Pending
  <2>2. /\ tx'[1].finOut <=> tx[1].finOut /\ ~tx[1].pending
        /\ tx'[1].handler = tx[1].handler /\ tx'[1].pipeline = tx[1].pipeline /\ tx'[1].started = tx[1].started
        /\ tx'[1].ready = tx[1].ready /\ tx'[1].working = tx[1].working /\ tx'[1].file = tx[1].file
        /\ tx'[1].pending = tx[1].pending /\ tx'[1].finConn = tx[1].finConn
        /\ tx'[1].headers = tx[1].headers /\ tx'[1].end = tx[1].end /\ tx'[1].stale = tx[1].stale
        /\ tx'[1].errdoc = tx[1].errdoc
    BY <1>0, <2>1 DEF Types, TxType
  <2>3. (Over' <=> Over) /\ (Cause' <=> Cause)
    BY <1>1, <2>2 DEF Cause, Over, Acted
  <2>4. SameSound
    BY <1>1, <2>2, <2>3 DEF SameSound
  <2>5. Written' /\ Going'
    BY <1>1, <2>2, <2>3 DEF Alive, Written, Going
  <2>6. Original'
    BY <1>1, <2>2, <2>3 DEF Alive, Original
  <2>7. \E x \in Seq(SoundCalls') : Then(x)
    <3>1. ASSUME tx[1].pending PROVE Run("FinalizeOutput") \in Seq(SoundCalls')
      <4>1. (~rx[1].errdoc => Cause)'
        BY <1>1, <2>3, <3>1 DEF Cause, Alive, Original
      <4> QED BY <4>1, OutSound
    <3>2. Then(<<>>) \/ (tx[1].pending /\ Then(Run("FinalizeOutput")))
      BY <2>1 DEF When
    <3> QED BY <3>1, <3>2, SoundJoin
  <2> QED BY <1>1, <2>4, <2>5, <2>6, <2>7 DEF Moves
<1>3. CASE ReadyHandler
  <2>1. /\ tx' = [tx EXCEPT ![1].ready = TRUE]
        /\ Then(When(~tx[1].ready /\ tx[1].handler = "refuse" /\ ~stream[1].error, Error(S, Soft))
                \o When(~tx[1].ready /\ tx[1].handler \in {"pass", "refuse"}, Run("Finalize")))
    BY <1>3 DEF ReadyHandler
  <2>2. /\ tx'[1].ready
        /\ tx'[1].handler = tx[1].handler /\ tx'[1].pipeline = tx[1].pipeline /\ tx'[1].started = tx[1].started
        /\ tx'[1].working = tx[1].working /\ tx'[1].file = tx[1].file
        /\ tx'[1].pending = tx[1].pending /\ tx'[1].finOut = tx[1].finOut /\ tx'[1].finConn = tx[1].finConn
        /\ tx'[1].headers = tx[1].headers /\ tx'[1].end = tx[1].end /\ tx'[1].stale = tx[1].stale
        /\ tx'[1].errdoc = tx[1].errdoc
    BY <1>0, <2>1 DEF Types, TxType
  <2>3. (Over' <=> Over) /\ (Cause => Cause')
    BY <1>1, <2>2 DEF Cause, Over, Acted
  <2>4. SameSound
    BY <1>1, <2>2, <2>3 DEF SameSound
  <2>5. Written' /\ Going'
    BY <1>1, <2>2, <2>3 DEF Alive, Written, Going
  <2>6. Original'
    BY <1>1, <2>2, <2>3 DEF Alive, Original
  <2>7. \E x \in Seq(SoundCalls') : Then(x)
    <3> DEFINE a == When(~tx[1].ready /\ tx[1].handler = "refuse" /\ ~stream[1].error, Error(S, Soft))
               b == When(~tx[1].ready /\ tx[1].handler \in {"pass", "refuse"}, Run("Finalize"))
    <3>1. a \in Seq(SoundCalls')
      <4>1. ASSUME ~tx[1].ready, tx[1].handler = "refuse", ~stream[1].error PROVE Error(S, Soft) \in Seq(SoundCalls')
        <5>1. ~Acted
          BY <4>1 DEF Acted
        <5>2. (~rx[1].errdoc => Unanswered)'
          BY <1>1, <2>2, <4>1, <5>1 DEF Alive, Original, Cause, Unanswered
        <5> QED BY <5>2, SoftSoundNext
      <4> QED BY <4>1, SoundJoin DEF When
    <3>2. b \in Seq(SoundCalls')
      <4>1. ASSUME tx[1].handler \in {"pass", "refuse"} PROVE Run("Finalize") \in Seq(SoundCalls')
        <5>1. ~Has("Open")
          BY <1>3, NoOpen DEF ReadyHandler, Do
        <5>2. tx[1].pipeline
          BY <4>1, <5>1 DEF FirstInv
        <5>3. (~rx[1].errdoc => Cause)'
          BY <2>2, <4>1, <5>2 DEF Cause, Acted
        <5> QED BY <5>3, OutSound
      <4> QED BY <4>1, SoundJoin DEF When
    <3>3. Then(a \o b)
      BY <2>1
    <3> HIDE DEF a, b
    <3> QED BY <3>1, <3>2, <3>3, SoundJoin
  <2> QED BY <1>1, <2>4, <2>5, <2>6, <2>7 DEF Moves
<1> QED BY <1>2, <1>3

\* The end of the output, and the error document that takes its place
LEMMA OutputMoves == ASSUME TypeOK, Http1, FirstInv, Alive, S = 1, todo # <<>>, FinalizeOutput \/ FinalizeConnector \/ Redirect
                     PROVE  Moves
<1>0. Types /\ 1 \in Streams /\ tx[1] \in TxType /\ Sound(Head(todo)) /\ Head(todo) \in Calls
  BY One, AliveHead DEF TypeOK, Types
<1>1. Head(todo).op \notin {"ServiceEnd", "Enable", "Idle", "Error", "Service"} /\ stream' = stream /\ rx' = rx
  BY DEF FinalizeOutput, FinalizeConnector, Redirect, Do
<1>2. CASE FinalizeOutput
  <2> DEFINE put == ~tx[1].finOut /\ tx[1].pipeline
  <2>1. /\ tx' = [tx EXCEPT ![1].finOut = TRUE, ![1].pending = @ \/ (~tx[1].finOut /\ ~tx[1].pipeline),
                            ![1].end = IF put /\ @ = "none" THEN "queued" ELSE @]
        /\ Then(When(put, Run("CheckFinalized")))
    BY <1>2 DEF FinalizeOutput
  <2>2. /\ tx'[1].finOut
        /\ tx'[1].pending <=> tx[1].pending \/ (~tx[1].finOut /\ ~tx[1].pipeline)
        /\ tx'[1].end = tx[1].end \/ (~tx[1].finOut /\ tx[1].end = "none" /\ tx'[1].end = "queued")
        /\ tx'[1].handler = tx[1].handler /\ tx'[1].pipeline = tx[1].pipeline /\ tx'[1].started = tx[1].started
        /\ tx'[1].ready = tx[1].ready /\ tx'[1].working = tx[1].working /\ tx'[1].file = tx[1].file
        /\ tx'[1].finConn = tx[1].finConn
        /\ tx'[1].headers = tx[1].headers /\ tx'[1].stale = tx[1].stale
        /\ tx'[1].errdoc = tx[1].errdoc
    BY <1>0, <2>1 DEF Types, TxType
  <2>3. (Over' <=> Over) /\ (Cause' <=> Cause)
    BY <1>1, <2>2 DEF Cause, Over, Acted
  <2>4. ~rx[1].errdoc => Cause
    BY <1>0, <1>2 DEF FinalizeOutput, Do, Sound
  <2>5. SameSound
    BY <1>1, <2>2, <2>3 DEF SameSound
  <2>6. Written' /\ Going'
    BY <1>1, <2>2, <2>3 DEF Alive, Written, Going
  <2>7. Original'
    BY <1>1, <2>2, <2>3, <2>4 DEF Alive, Original, Cause
  <2>8. \E x \in Seq(SoundCalls') : Then(x)
    <3>1. Run("CheckFinalized") \in Seq(SoundCalls')
      BY ClearOne DEF ClearOps, Ops
    <3>2. Then(<<>>) \/ Then(Run("CheckFinalized"))
      BY <2>1 DEF When
    <3> QED BY <3>1, <3>2, SoundJoin
  <2> QED BY <1>1, <2>5, <2>6, <2>7, <2>8 DEF Moves
<1>3. CASE FinalizeConnector
  <2>1. tx' = [tx EXCEPT ![1].finConn = TRUE] /\ Then(Run("CheckFinalized"))
    BY <1>3 DEF FinalizeConnector
  <2>2. /\ tx'[1].finConn
        /\ tx'[1].handler = tx[1].handler /\ tx'[1].pipeline = tx[1].pipeline /\ tx'[1].started = tx[1].started
        /\ tx'[1].ready = tx[1].ready /\ tx'[1].working = tx[1].working /\ tx'[1].file = tx[1].file
        /\ tx'[1].pending = tx[1].pending /\ tx'[1].finOut = tx[1].finOut
        /\ tx'[1].headers = tx[1].headers /\ tx'[1].end = tx[1].end /\ tx'[1].stale = tx[1].stale
        /\ tx'[1].errdoc = tx[1].errdoc
    BY <1>0, <2>1 DEF Types, TxType
  <2>3. Over' /\ (Cause' <=> Cause)
    BY <1>1, <2>2 DEF Cause, Over, Acted
  <2>4. tx[1].end = "sent"
    BY <1>0, <1>3 DEF FinalizeConnector, Do, Sound
  <2>5. SameSound
    BY <1>1, <2>2, <2>3 DEF SameSound
  <2>6. Written' /\ Going'
    BY <1>1, <2>2, <2>3, <2>4 DEF Alive, Written, Going
  <2>7. Original'
    BY <1>1, <2>2, <2>3 DEF Alive, Original
  <2>8. \E x \in Seq(SoundCalls') : Then(x)
    BY <2>1, ClearOne DEF ClearOps, Ops
  <2> QED BY <1>1, <2>5, <2>6, <2>7, <2>8 DEF Moves
<1>4. CASE Redirect
  <2>1. /\ tx' = [tx EXCEPT ![1].errdoc = TRUE, ![1].finalized = TRUE, ![1].finIn = TRUE, ![1].finOut = TRUE]
        /\ Then(<<Call("SetState", 1, Finalized)>>)
    BY <1>4 DEF Redirect, SetTo
  <2>2. /\ tx'[1].errdoc /\ tx'[1].finOut
        /\ tx'[1].handler = tx[1].handler /\ tx'[1].pipeline = tx[1].pipeline /\ tx'[1].started = tx[1].started
        /\ tx'[1].ready = tx[1].ready /\ tx'[1].working = tx[1].working /\ tx'[1].file = tx[1].file
        /\ tx'[1].pending = tx[1].pending /\ tx'[1].finConn = tx[1].finConn
        /\ tx'[1].headers = tx[1].headers /\ tx'[1].end = tx[1].end /\ tx'[1].stale = tx[1].stale
    BY <1>0, <2>1 DEF Types, TxType
  <2>3. Over' /\ (Cause' <=> Cause)
    BY <1>1, <2>2 DEF Cause, Over, Acted
  <2>4. ~rx[1].errdoc => tx[1].end = "none" /\ ~tx[1].pending /\ stream[1].error
    BY <1>0, <1>4 DEF Redirect, Do, Sound
  <2>5. SameSound
    BY <1>1, <2>2, <2>3 DEF SameSound
  <2>6. Written' /\ Going'
    BY <1>1, <2>2, <2>3 DEF Alive, Written, Going
  <2>7. Original'
    BY <1>1, <2>2, <2>3, <2>4 DEF Alive, Original, Cause
  <2>8. \E x \in Seq(SoundCalls') : Then(x)
    <3>1. Finalized \in 0..9 /\ Finalized # Complete
      BY DEF Finalized, Complete
    <3>2. Call("SetState", 1, Finalized) \in Calls
      BY <1>0, <3>1, CallType DEF Ops
    <3>3. Call("SetState", 1, Finalized).op = "SetState" /\ Call("SetState", 1, Finalized).n = Finalized
      BY DEF Call
    <3>4. Call("SetState", 1, Finalized) \in SoundCalls'
      BY <2>3, <3>1, <3>2, <3>3 DEF SoundCalls, Sound
    <3> QED BY <2>1, <3>4, SoundJoin
  <2> QED BY <1>1, <2>5, <2>6, <2>7, <2>8 DEF Moves
<1> QED BY <1>2, <1>3, <1>4

LEMMA FileMoves == ASSUME TypeOK, Http1, FirstInv, Alive, S = 1, todo # <<>>, PumpFile
                   PROVE  Moves
<1>0. Types /\ 1 \in Streams /\ tx[1] \in TxType
  BY One DEF TypeOK, Types
<1>1. Head(todo).op \notin {"ServiceEnd", "Enable", "Idle", "Error", "Service"} /\ stream' = stream /\ rx' = rx
  BY DEF PumpFile, Do
<1> DEFINE go == tx[1].file /\ stream[1].state < Complete
<1>2. PICK ok \in BOOLEAN :
        /\ tx' = [tx EXCEPT ![1].file = FALSE,
                            ![1].end = IF go /\ ok /\ ~tx[1].finOut /\ @ = "none" THEN "queued" ELSE @]
        /\ Then(When(go, IF ok THEN Run("FinalizeOutput") \o Run("Filed") ELSE Error(S, Soft)))
  BY DEF PumpFile
<1>3. /\ ~tx'[1].file
      /\ tx'[1].end = tx[1].end \/ (ok /\ tx[1].file /\ ~tx[1].finOut /\ tx[1].end = "none" /\ tx'[1].end = "queued")
      /\ tx'[1].handler = tx[1].handler /\ tx'[1].pipeline = tx[1].pipeline /\ tx'[1].started = tx[1].started
      /\ tx'[1].ready = tx[1].ready /\ tx'[1].working = tx[1].working
      /\ tx'[1].pending = tx[1].pending /\ tx'[1].finOut = tx[1].finOut /\ tx'[1].finConn = tx[1].finConn
      /\ tx'[1].headers = tx[1].headers /\ tx'[1].stale = tx[1].stale
      /\ tx'[1].errdoc = tx[1].errdoc
  BY <1>0, <1>2 DEF Types, TxType
<1>4. (Over' <=> Over) /\ (Cause => Cause')
  BY <1>1, <1>3 DEF Cause, Over, Acted
<1>5. ASSUME tx[1].file, ~rx[1].errdoc PROVE Cause' /\ (tx[1].end # "none" => stream[1].error)
  <2>1. tx[1].started /\ (tx[1].handler = "file" \/ stream[1].error)
    BY <1>5 DEF Alive, Original
  <2>2. tx[1].pipeline
    BY <2>1, StartedPipeline
  <2>3. Cause'
    BY <1>1, <1>3, <2>1, <2>2 DEF Cause, Acted
  <2>4. ~stream[1].error => ~Acted
    BY <1>5, <2>1 DEF Acted
  <2>5. tx[1].end # "none" => Cause
    BY <1>5 DEF Alive, Original
  <2> QED BY <2>3, <2>4, <2>5 DEF Cause
<1>6. SameSound
  BY <1>1, <1>3, <1>4 DEF SameSound
<1>7. Written' /\ Going'
  BY <1>1, <1>3, <1>4 DEF Alive, Written, Going
<1>8. Original'
  BY <1>1, <1>3, <1>4, <1>5 DEF Alive, Original
<1>9. \E x \in Seq(SoundCalls') : Then(x)
  <2>1. Run("Filed") \in Seq(SoundCalls')
    BY ClearOne DEF ClearOps, Ops
  <2>2. ASSUME tx[1].file PROVE Run("FinalizeOutput") \in Seq(SoundCalls') /\ (~ok => Error(S, Soft) \in Seq(SoundCalls'))
    <3>1. (~rx[1].errdoc => Cause)'
      BY <1>1, <1>5, <2>2
    <3>2. ~ok => (~rx[1].errdoc => Unanswered)'
      BY <1>1, <1>3, <1>5, <2>2 DEF Unanswered
    <3> QED BY <3>1, <3>2, OutSound, SoftSoundNext
  <2> QED BY <1>2, <2>1, <2>2, SoundJoin DEF When
<1> QED BY <1>1, <1>6, <1>7, <1>8, <1>9 DEF Moves

\* The END packet on its way to the socket
LEMMA PumpMoves == ASSUME TypeOK, Http1, FirstInv, Alive, S = 1, todo # <<>>, PumpOut
                   PROVE  Rests \/ Moves
<1>0. Types /\ 1 \in Streams /\ tx[1] \in TxType
  BY One DEF TypeOK, Types
<1>1. Head(todo).op \notin {"ServiceEnd", "Enable", "Idle", "Error", "Service"} /\ rx' = rx
  BY DEF PumpOut, Do
<1>2. CASE /\ tx[1].end = "queued"
           /\ tx' = [tx EXCEPT ![1].headers = TRUE, ![1].end = IF Http1 THEN "socket" ELSE "filter"]
           /\ stream' = Spend(1)
           /\ Then(When(Http1, Run("Send")))
  <2>1. /\ tx'[1].headers /\ tx'[1].end = "socket"
        /\ tx'[1].handler = tx[1].handler /\ tx'[1].pipeline = tx[1].pipeline /\ tx'[1].started = tx[1].started
        /\ tx'[1].ready = tx[1].ready /\ tx'[1].working = tx[1].working /\ tx'[1].file = tx[1].file
        /\ tx'[1].pending = tx[1].pending /\ tx'[1].finOut = tx[1].finOut /\ tx'[1].finConn = tx[1].finConn
        /\ tx'[1].stale = tx[1].stale
        /\ tx'[1].errdoc = tx[1].errdoc
    BY <1>0, <1>2 DEF Types, TxType
  <2>2. /\ stream'[1].error = stream[1].error /\ stream'[1].state = stream[1].state
        /\ stream'[1].target = stream[1].target
    BY <1>0, <1>2 DEF Types, StreamType, Spend
  <2>3. (Over' <=> Over) /\ (Cause' <=> Cause)
    BY <2>1, <2>2 DEF Cause, Over, Acted
  <2>4. SameSound
    BY <1>1, <1>2, <2>1, <2>3 DEF SameSound
  <2>5. Written' /\ Going'
    BY <1>1, <1>2, <2>1, <2>2, <2>3 DEF Alive, Written, Going
  <2>6. Original'
    BY <1>1, <1>2, <2>1, <2>2, <2>3 DEF Alive, Original
  <2>7. \E x \in Seq(SoundCalls') : Then(x)
    <3>1. Then(Run("Send"))
      BY <1>2 DEF When
    <3> QED BY <3>1, ClearOne DEF ClearOps, Ops
  <2> QED BY <1>1, <2>4, <2>5, <2>6, <2>7 DEF Moves
<1>3. CASE Then(<<>>) /\ stream' = stream /\ tx' = tx
  <2>1. SameAnswer
    BY <1>0, <1>1, <1>3, Unseeing
  <2> QED BY <1>1, <1>3, <2>1, SoundJoin DEF Rests
<1>4. tx[1].stale = "none"
  BY DEF Alive, Written
<1> QED BY <1>2, <1>3, <1>4 DEF PumpOut

LEMMA SendMoves == ASSUME TypeOK, Http1, FirstInv, Alive, S = 1, todo # <<>>, ~Gone', Send
                   PROVE  Rests \/ Moves
<1>0. Types /\ 1 \in Streams /\ tx[1] \in TxType
  BY One DEF TypeOK, Types
<1>1. Head(todo).op \notin {"ServiceEnd", "Enable", "Idle", "Error", "Service"} /\ rx' = rx /\ stream' = stream
  BY DEF Send, Do
<1>2. tx[1].stale = "none" /\ tx[1].end \in {"none", "queued", "socket", "sent"}
  BY DEF Alive, Written
<1>3. CASE tx' = tx /\ (Then(<<>>) \/ Then(Run("Enable")))
  <2>1. SameAnswer
    BY <1>0, <1>1, <1>3, Unseeing
  <2>2. Run("Enable") \in Seq(SoundCalls)
    BY ClearOne DEF ClearOps, Ops
  <2> QED BY <1>1, <1>3, <2>1, <2>2, SoundJoin DEF Rests
<1>4. CASE /\ AtSocket(1)
           /\ tx' = [tx EXCEPT ![1].stale = IF @ = "socket" THEN "none" ELSE @,
                               ![1].end = IF tx[1].stale # "socket" THEN "sent" ELSE @]
           /\ Then(Run("FinalizeConnector"))
  <2>0. tx[1].end = "socket"
    BY <1>2, <1>4 DEF AtSocket
  <2>1. /\ tx'[1].headers = tx[1].headers /\ tx'[1].end = "sent"
        /\ tx'[1].handler = tx[1].handler /\ tx'[1].pipeline = tx[1].pipeline /\ tx'[1].started = tx[1].started
        /\ tx'[1].ready = tx[1].ready /\ tx'[1].working = tx[1].working /\ tx'[1].file = tx[1].file
        /\ tx'[1].pending = tx[1].pending /\ tx'[1].finOut = tx[1].finOut /\ tx'[1].finConn = tx[1].finConn
        /\ tx'[1].stale = "none"
        /\ tx'[1].errdoc = tx[1].errdoc
    BY <1>0, <1>2, <1>4 DEF Types, TxType
  <2>2. (Over' <=> Over) /\ (Cause' <=> Cause)
    BY <1>1, <2>1 DEF Cause, Over, Acted
  <2>3. SameSound
    BY <1>1, <2>1, <2>2 DEF SameSound
  <2>4. Written' /\ Going'
    BY <1>1, <2>0, <2>1, <2>2 DEF Alive, Written, Going
  <2>5. Original'
    BY <1>1, <2>0, <2>1, <2>2 DEF Alive, Original
  <2>6. \E x \in Seq(SoundCalls') : Then(x)
    <3>1. Call("FinalizeConnector", 1, 0) \in Calls
      BY <1>0, CallType DEF Ops
    <3>2. Call("FinalizeConnector", 1, 0).op = "FinalizeConnector"
      BY DEF Call
    <3>3. Call("FinalizeConnector", 1, 0) \in SoundCalls'
      BY <2>1, <3>1, <3>2 DEF SoundCalls, Sound
    <3> QED BY <1>4, <3>3, SoundJoin DEF Run
  <2> QED BY <1>1, <2>3, <2>4, <2>5, <2>6 DEF Moves
<1>5. ~Then(Run("NetError") \o ForAll("Free") \o Run("Enable"))
  BY FailedSend
<1> QED BY <1>3, <1>4, <1>5 DEF Send, When

\* An error of a request on a connection that stays
LEMMA ErrorKeeps == ASSUME IInv, Http1, FirstInv, Alive, Step, S = 1, ~Gone, ~Spent', RaiseError
                    PROVE  Alive'
<1>0. /\ TypeOK /\ todo # <<>> /\ Types /\ 1 \in Streams /\ tx[1] \in TxType /\ stream[1] \in StreamType
      /\ Head(todo) \in Calls /\ Sound(Head(todo)) /\ Head(todo).op = "Error" /\ Head(todo).n = Arg
  BY TopOfStep, One, AliveHead DEF IInv, TypeOK, Types, RaiseError, Do, Arg
<1> DEFINE kind == IF tx[1].headers THEN Abort ELSE Arg
           fresh == ~stream[1].error
<1>1. PICK document \in BOOLEAN :
        /\ stream' = [stream EXCEPT ![1].error = TRUE, ![1].keep = IF Arg \in {Close, Abort} THEN 0 ELSE @,
                                    ![1].disconnect = @ \/ (fresh /\ kind = Abort)]
        /\ rx' = [rx EXCEPT ![1].eof = @ \/ Arg \in {Close, Abort}, ![1].queued = @ /\ ~(fresh /\ kind = Abort)]
        /\ document => Documents /\ fresh /\ ~tx[1].headers /\ rx[1].routed /\ kind \in {Soft, Close}
        /\ Then(When(document, Run("Redirect"))
                \o When(fresh, IF kind \in {Close, Abort} THEN Run("Finalize") ELSE Run("FinalizeOutput"))
                \o Run("AfterError"))
        /\ tx' = tx
  BY DEF RaiseError
<1>2. /\ stream'[1].error /\ stream'[1].state = stream[1].state /\ stream'[1].target = stream[1].target
      /\ stream'[1].keep = IF Arg \in {Close, Abort} THEN 0 ELSE stream[1].keep
      /\ stream'[1].disconnect <=> stream[1].disconnect \/ (fresh /\ kind = Abort)
  BY <1>0, <1>1 DEF StreamType, Types
<1>3. rx'[1].errdoc = rx[1].errdoc /\ rx'[1].routed = rx[1].routed
  BY <1>0, <1>1 DEF Types, RxType
<1>4. Arg = Soft /\ (fresh => ~tx[1].headers)
  <2>1. Arg \in {Soft, Close}
    BY <1>0, AliveTop
  <2>2. stream'[1].keep # 0 /\ ~stream'[1].disconnect
    BY DEF Spent, Gone
  <2> QED BY <1>2, <2>1, <2>2
<1>5. ~Serves(Head(todo)) /\ ~Idles(Head(todo))
  BY <1>0, <1>4 DEF Serves, Idles, Soft, Close
<1>6. (Over' <=> Over) /\ Cause'
  BY <1>1, <1>2 DEF Cause, Over
<1>7. SameSound
  BY <1>1, <1>3, <1>6 DEF SameSound
<1>8. Written' /\ Going'
  BY <1>1, <1>2, <1>6 DEF Alive, Written, Going
<1>9. Original'
  BY <1>1, <1>2, <1>3, <1>6 DEF Alive, Original
<1>10. \E x \in Seq(SoundCalls') : Then(x)
  <2>1. Run("AfterError") \in Seq(SoundCalls') /\ Run("FinalizeOutput") \in Seq(SoundCalls')
    BY <1>6, OutSound, ClearOne DEF ClearOps, Ops
  <2>2. ASSUME fresh, document PROVE Run("Redirect") \in Seq(SoundCalls')
    <3>1. Call("Redirect", 1, 0) \in Calls
      BY <1>0, CallType DEF Ops
    <3>2. Call("Redirect", 1, 0).op = "Redirect"
      BY DEF Call
    <3>3. ~rx[1].errdoc => Unanswered
      BY <1>0, <1>4 DEF Sound
    <3>4. ~rx[1].errdoc => tx[1].end = "none" /\ ~tx[1].pending
      BY <1>1, <2>2, <3>3 DEF Unanswered, Alive, Original
    <3>5. Call("Redirect", 1, 0) \in SoundCalls'
      BY <1>1, <1>2, <1>3, <3>1, <3>2, <3>4 DEF SoundCalls, Sound
    <3> QED BY <3>5, SoundJoin DEF Run
  <2>3. \/ Then(<<>> \o <<>> \o Run("AfterError"))
        \/ Then(<<>> \o Run("FinalizeOutput") \o Run("AfterError"))
        \/ fresh /\ document /\ Then(Run("Redirect") \o Run("FinalizeOutput") \o Run("AfterError"))
    <3>1. fresh => kind \notin {Close, Abort}
      BY <1>4 DEF Soft, Close, Abort
    <3>2. When(document, Run("Redirect")) = IF document THEN Run("Redirect") ELSE <<>>
      BY DEF When
    <3>3. When(fresh, IF kind \in {Close, Abort} THEN Run("Finalize") ELSE Run("FinalizeOutput"))
            = IF fresh THEN Run("FinalizeOutput") ELSE <<>>
      BY <3>1 DEF When
    <3> HIDE DEF kind, fresh
    <3>4. document => fresh
      BY <1>1
    <3> QED BY <1>1, <3>2, <3>3, <3>4
  <2> QED BY <2>1, <2>2, <2>3, SoundJoin
<1> QED BY <1>5, <1>7, <1>8, <1>9, <1>10, AnswerStep

\* httpServiceNet does not end before the output is on its way.
LEMMA ServiceKeeps == ASSUME IInv, Http1, FirstInv, Alive, Step, S = 1, Service
                      PROVE  Alive'
<1>0. /\ TypeOK /\ todo # <<>> /\ Types /\ 1 \in Streams /\ Head(todo).op = "Service" /\ Head(todo).n = Arg
      /\ todo \in Seq(Calls) /\ Len(todo) \in Nat /\ Len(todo) > 0 /\ todo[1] = Head(todo)
  BY TopOfStep, One DEF IInv, TypeOK, Types, Service, Do, Arg
<1>1. stream' = stream /\ rx' = rx /\ tx' = tx
  BY DEF Service
<1>2. SameAnswer
  BY <1>0, <1>1, Unseeing
<1>3. SameSound /\ Written' /\ Going' /\ Original' /\ SoundCalls \subseteq SoundCalls'
  BY <1>2, AnswerSame DEF Alive
<1>4. ~Idles(Head(todo))
  BY <1>0 DEF Idles
<1>5. CASE Arg = 0 /\ Work = {} /\ Then(<<>>)
  <2>1. todo' \in Seq(SoundCalls')
    BY <1>0, <1>3, <1>5, SoundJoin, SoundStep DEF Alive
  <2>2. todo' = Tail(todo) /\ Tail(todo) \in Seq(Fit \cap Lower)
    <3>1. Tail(todo) \in Seq(Fit \cap Lower)
      BY <1>0, FirstTop
    <3> QED BY <1>5, <3>1 DEF Then
  <2>3. \A d \in Lower : Idles(d)
    BY <1>0, <1>5 DEF Lower, Above, Serves, Idles
  <2>4. \A i \in 1..Len(todo') : Idles(todo'[i])
    BY <2>2, <2>3
  <2>5. tx[1].end # "queued"
    <3> SUFFICES ASSUME tx[1].end = "queued" PROVE FALSE
      OBVIOUS
    <3>1. Call("PumpOut", 1, 0) \in Work
      BY <1>0 DEF Work
    <3> QED BY <1>5, <3>1
  <2>6. Pumped'
    BY <1>1, <2>4, <2>5 DEF Pumped
  <2> QED BY <1>3, <2>1, <2>6 DEF Alive
<1>6. CASE Arg = 0 /\ \E work \in Work : todo' = <<work>> \o todo
  <2>1. PICK work \in Work : todo' = <<work>> \o todo
    BY <1>6
  <2>2. work \in Calls /\ work.op \in {"PumpIn", "PumpFile", "PumpOut", "Send"}
    BY <1>0, <2>1, WorkFirst DEF Easy
  <2>3. work \in SoundCalls'
    BY <2>2, ClearSound DEF Clear
  <2>4. todo \in Seq(SoundCalls')
    BY <1>3 DEF Alive
  <2>5. todo' \in Seq(SoundCalls')
    <3> HIDE DEF SoundCalls
    <3> QED BY <2>1, <2>3, <2>4
  <2>6. 2 \in 1..Len(todo') /\ todo'[2] = todo[1]
    BY <1>0, <2>1, <2>2
  <2>7. Serves(todo'[2])
    BY <1>0, <1>6, <2>6 DEF Serves
  <2>8. Pumped'
    BY <2>6, <2>7 DEF Pumped
  <2> QED BY <1>3, <2>5, <2>8 DEF Alive
<1>7. CASE Arg # 0 /\ Then(<<>>)
  <2>1. ~Serves(Head(todo))
    BY <1>0, <1>7 DEF Serves
  <2> QED BY <1>2, <1>4, <1>7, <2>1, SoundJoin, QuietStep
<1>8. CASE Arg = 1 /\ Then(ForAll("PumpIn") \o ForAll("PumpFile") \o [i \in Streams |-> Call("PumpOut", i, 1)])
  <2>1. ~Serves(Head(todo))
    BY <1>0, <1>8 DEF Serves
  <2>2. ForAll("PumpIn") \in Seq(Clear) /\ ForAll("PumpFile") \in Seq(Clear) /\ [i \in Streams |-> Call("PumpOut", i, 1)] \in Seq(Clear)
    <3>1. ASSUME NEW f, f \in [Streams -> Clear] PROVE f \in Seq(Clear)
      BY <3>1, RequestAssumption DEF Streams
    <3>2. 0 \in 0..9 /\ 1 \in 0..9 /\ {"PumpIn", "PumpFile", "PumpOut"} \subseteq ClearOps
      BY DEF ClearOps, Ops
    <3>3. \A s \in Streams : Call("PumpIn", s, 0) \in Clear /\ Call("PumpFile", s, 0) \in Clear /\ Call("PumpOut", s, 1) \in Clear
      BY <3>2, ClearCalls
    <3> HIDE DEF Clear
    <3>4. /\ ForAll("PumpIn") \in [Streams -> Clear] /\ ForAll("PumpFile") \in [Streams -> Clear]
          /\ [i \in Streams |-> Call("PumpOut", i, 1)] \in [Streams -> Clear]
      BY <3>3 DEF ForAll
    <3> QED BY <3>1, <3>4
  <2> DEFINE x == ForAll("PumpIn") \o ForAll("PumpFile") \o [i \in Streams |-> Call("PumpOut", i, 1)]
  <2>3. x \in Seq(SoundCalls)
    BY <2>2, ClearJoin
  <2>4. Then(x)
    BY <1>8
  <2> HIDE DEF x
  <2> QED BY <1>2, <1>4, <2>1, <2>3, <2>4, QuietStep
<1> QED BY <1>5, <1>6, <1>7, <1>8 DEF Service

\* The calls for the streams that HTTP/1 does not use
LEMMA UnusedAnswer == ASSUME IInv, Http1, FirstInv, Alive, Step, S # 1
                      PROVE  Alive'
<1>1. Then(<<>>) /\ stream'[1] = stream[1] /\ rx'[1] = rx[1] /\ tx'[1] = tx[1] /\ Head(todo).op \in FanOps
  BY UnusedKeeps
<1>2. SameAnswer
  BY <1>1 DEF SameAnswer
<1>3. Rests
  BY <1>1, <1>2, SoundJoin DEF Rests, FanOps
<1> QED BY <1>3, RestsKeeps

\* The loop enters a state that it may enter, and knows why it may.
LEMMA EnterMoves ==
  ASSUME TypeOK, Http1, FirstInv, Alive, S = 1, todo # <<>>, Head(todo).op \in {"SetState", "Update"},
         NEW next \in 1..10, NEW target \in 0..9, Enter(1, next, target) \/ Leave(1, next, target), rx' = rx, tx' = tx,
         target >= Finalized => Over, target = Complete => tx[1].finConn
  PROVE  Moves
<1>1. Types /\ 1 \in Streams /\ stream[1] \in StreamType
  BY One DEF TypeOK, Types
<1>2. Head(todo).op \notin {"ServiceEnd", "Enable", "Idle", "Error", "Service"}
  OBVIOUS
<1>3. stream'[1].error = stream[1].error /\ stream'[1].target = target /\ stream'[1].state \in {next, stream[1].state}
      /\ (stream'[1].state = next => next <= target \/ next = stream[1].state)
  <2>1. CASE Enter(1, next, target)
    <3>1. /\ next <= target
          /\ stream' = [stream EXCEPT ![1].setting = TRUE, ![1].state = next, ![1].target = target,
                                      ![1].counted = @ \/ next = First]
      BY <2>1 DEF Enter
    <3> QED BY <1>1, <3>1 DEF Types, StreamType
  <2>2. CASE Leave(1, next, target)
    <3>1. \E v : stream' = [stream EXCEPT ![1].setting = FALSE, ![1].target = target, ![1].completed = v]
      BY <2>2 DEF Leave
    <3> QED BY <1>1, <3>1 DEF Types, StreamType
  <2> QED BY <2>1, <2>2
<1>4. (Over' <=> Over) /\ (Cause' <=> Cause)
  BY <1>3 DEF Over, Cause, Acted
<1>5. SameSound
  BY <1>4 DEF SameSound
<1>6. Written' /\ Original'
  BY <1>3, <1>4 DEF Alive, Written, Original
<1>7. Going'
  BY <1>3, <1>4 DEF Alive, Going, Finalized, Complete
<1>8. \E x \in Seq(SoundCalls') : Then(x)
  <2>1. CASE Enter(1, next, target)
    <3>1. Then(Visit(1, next)) /\ next <= target
      BY <2>1 DEF Enter
    <3>2. {"First", "Headers", "Parsed", "Content", "Ready", "Finalized"} \subseteq ClearOps
      BY DEF ClearOps, Ops
    <3>3. \A op \in {"First", "Headers", "Parsed", "Content", "Ready", "Finalized"} : Call(op, 1, 0) \in SoundCalls'
      BY <1>1, <3>2, ClearCalls, ClearSound
    <3>4. ASSUME next # Finalized PROVE Call("Update", 1, next) \in SoundCalls'
      <4>1. next \in 0..9 /\ (next = Complete => tx[1].finConn)
        BY <3>1 DEF Complete
      <4>2. Call("Update", 1, next) \in Calls
        BY <1>1, <4>1, CallType DEF Ops
      <4>3. Call("Update", 1, next).op = "Update" /\ Call("Update", 1, next).n = next
        BY DEF Call
      <4> QED BY <3>4, <4>1, <4>2, <4>3 DEF SoundCalls, Sound
    <3>5. Visit(1, next) \in {<<Call("First", 1, 0)>>, <<Call("Headers", 1, 0), Call("Parsed", 1, 0)>>, <<Call("Content", 1, 0)>>,
                              <<Call("Ready", 1, 0)>>, <<Call("Finalized", 1, 0)>>}
          \/ (next # Finalized /\ Visit(1, next) = <<Call("Update", 1, next)>>)
      BY DEF Visit
    <3>6. Visit(1, next) \in Seq(SoundCalls')
      <4> HIDE DEF SoundCalls
      <4>1. \A c \in SoundCalls' : <<c>> \in Seq(SoundCalls')
        OBVIOUS
      <4>2. \A c, d \in SoundCalls' : <<c, d>> \in Seq(SoundCalls')
        OBVIOUS
      <4> QED BY <3>3, <3>4, <3>5, <4>1, <4>2
    <3> QED BY <3>1, <3>6
  <2>2. CASE Leave(1, next, target)
    <3>1. \/ Then(<<>> \o <<Call("Kick", 1, 0)>>)
          \/ Then(<<Call("Service", 1, 1)>> \o <<Call("Kick", 1, 0)>>)
      BY <2>2 DEF Leave, When
    <3>2. "Kick" \in ClearOps /\ "Service" \in ClearOps /\ 0 \in 0..9 /\ 1 \in 0..9
      BY DEF ClearOps, Ops
    <3>3. Call("Kick", 1, 0) \in SoundCalls' /\ Call("Service", 1, 1) \in SoundCalls'
      BY <1>1, <3>2, ClearCalls, ClearSound
    <3> QED BY <3>1, <3>3, SoundJoin
  <2> QED BY <2>1, <2>2
<1> QED BY <1>2, <1>5, <1>6, <1>7, <1>8 DEF Moves

LEMMA StateMoves == ASSUME TypeOK, Http1, FirstInv, Alive, S = 1, todo # <<>>, SetState \/ Update
                    PROVE  Moves
<1>1. /\ Types /\ 1 \in Streams /\ stream[1] \in StreamType /\ stream[1].state \in 0..9 /\ stream[1].target \in 0..9
      /\ Arg \in 0..9 /\ Sound(Head(todo)) /\ Head(todo).n = Arg /\ Head(todo).op \in {"SetState", "Update"}
  <2>1. Types /\ 1 \in Streams /\ Arg \in 0..9
    BY One, TopType DEF TypeOK, Types
  <2> QED BY <2>1, AliveHead DEF Types, StreamType, Arg, SetState, Update, Do
<1>2. rx' = rx /\ tx' = tx
  BY DEF SetState, Update
<1>3. /\ Arg >= Finalized => Over
      /\ Arg = Complete => tx[1].finConn
  <2>1. Arg = Complete => tx[1].finConn
    BY <1>1 DEF Sound
  <2>2. Arg = Finalized => Over
    BY <1>1 DEF Sound
  <2>3. Arg >= Finalized => Arg = Finalized \/ Arg = Complete
    BY <1>1 DEF Finalized, Complete
  <2> QED BY <2>1, <2>2, <2>3 DEF Over
<1>4. /\ stream[1].target >= Finalized => Over
      /\ stream[1].target = Complete => tx[1].finConn
  BY DEF Alive, Going
<1>5. LET m == Most(stream[1].target, Arg) IN m \in 0..9 /\ (m >= Finalized => Over) /\ (m = Complete => tx[1].finConn)
  BY <1>1, <1>3, <1>4 DEF Most
<1>6. CASE SetState /\ stream[1].setting
  <2>1. Then(<<>>) /\ stream' = [stream EXCEPT ![1].target = Most(@, Arg)]
    BY <1>6 DEF SetState
  <2>2. stream'[1].error = stream[1].error /\ stream'[1].state = stream[1].state
        /\ stream'[1].target = Most(stream[1].target, Arg)
    BY <1>1, <2>1 DEF Types, StreamType
  <2>3. (Over' <=> Over) /\ (Cause' <=> Cause)
    BY <1>2, <2>2 DEF Over, Cause, Acted
  <2>4. SameSound
    BY <1>2, <2>3 DEF SameSound
  <2>5. Written' /\ Original'
    BY <1>2, <2>2, <2>3 DEF Alive, Written, Original
  <2>6. Going'
    BY <1>2, <1>5, <2>2, <2>3 DEF Alive, Going
  <2>7. Head(todo).op \notin {"ServiceEnd", "Enable", "Idle", "Error", "Service"}
    BY <1>1
  <2> QED BY <2>1, <2>4, <2>5, <2>6, <2>7, SoundJoin DEF Moves
<1>7. CASE SetState /\ ~stream[1].setting
  <2> DEFINE next == stream[1].state + 1
  <2>1. Enter(1, next, Arg) \/ Leave(1, next, Arg)
    BY <1>7 DEF SetState
  <2>2. next \in 1..10
    BY <1>1
  <2> HIDE DEF next
  <2> QED BY <1>1, <1>2, <1>3, <2>1, <2>2, EnterMoves
<1>8. CASE Update
  <2> DEFINE next == IF Arg > stream[1].state THEN Arg ELSE stream[1].state + 1
             target == Most(stream[1].target, Arg)
  <2>1. Enter(1, next, target) \/ Leave(1, next, target)
    BY <1>8 DEF Update
  <2>2. next \in 1..10
    BY <1>1
  <2>3. target \in 0..9 /\ (target >= Finalized => Over) /\ (target = Complete => tx[1].finConn)
    BY <1>5
  <2> HIDE DEF next, target
  <2> QED BY <1>1, <1>2, <2>1, <2>2, <2>3, EnterMoves
<1> QED BY <1>6, <1>7, <1>8

\* A request is over, or it starts anew as that of its error document; then nothing of it is left.
LEMMA FinalizedKeeps == ASSUME IInv, VInv, Http1, FirstInv, Alive, Step, S = 1, ProcessFinalized
                        PROVE  Alive'
<1>1. /\ TypeOK /\ todo # <<>> /\ Types /\ 1 \in Streams /\ tx[1] \in TxType /\ stream[1] \in StreamType /\ rx[1] \in RxType
      /\ Head(todo).op = "Finalized"
  BY TopOfStep, One DEF IInv, TypeOK, Types, ProcessFinalized, Do
<1>2. ~Serves(Head(todo)) /\ ~Idles(Head(todo)) /\ Head(todo).op \notin {"ServiceEnd", "Enable", "Idle", "Error", "Service"}
  BY <1>1 DEF Serves, Idles
<1>3. stream[1].state = Finalized
  <2>1. WaitOK(1) /\ 1 \in 1..Len(todo) /\ todo[1] = Head(todo)
    BY <1>1 DEF TypeOK, VInv
  <2> QED BY <1>1, <2>1 DEF WaitOK, TurnOK, LoopOps, S
<1>4. CASE tx[1].errdoc /\ ~rx[1].errdoc
  <2>1. /\ stream' = [stream EXCEPT ![1].state = Parsed, ![1].target = Begin, ![1].error = FALSE,
                                    ![1].timer = "none", ![1].h2 = "idle"]
        /\ rx' = [rx EXCEPT ![1] = [FreshRx(net.proto) EXCEPT !.errdoc = TRUE]]
        /\ tx' = [tx EXCEPT ![1] = [FreshTx EXCEPT !.stale = IF tx[1].end \in {"queued", "socket"} THEN tx[1].end
                                                             ELSE tx[1].stale]]
        /\ Then(<<Call("Parsed", 1, 0)>>)
    BY <1>4 DEF ProcessFinalized, Run
  <2>2. tx[1].end = "none" /\ tx[1].stale = "none"
    BY <1>4 DEF Alive, Original, Written
  <2>3. rx'[1].errdoc
    BY <1>1, <2>1 DEF Types, FreshRx
  <2>4. tx'[1].end = "none" /\ tx'[1].stale = "none" /\ ~tx'[1].finConn /\ ~tx'[1].errdoc
    BY <1>1, <2>1, <2>2 DEF Types, FreshTx
  <2>5. stream'[1].state = Parsed /\ stream'[1].target = Begin
    BY <1>1, <2>1 DEF Types, StreamType
  <2>6. Written'
    BY <2>4 DEF Written
  <2>7. Going'
    BY <2>5 DEF Going, Finalized, Complete, Parsed, Begin
  <2>8. Original'
    BY <2>3 DEF Original
  <2>9. <<Call("Parsed", 1, 0)>> \in Seq(SoundCalls') /\ <<Call("Parsed", 1, 0)>> \in Seq(Calls)
    <3>1. "Parsed" \in ClearOps
      BY DEF ClearOps, Ops
    <3>2. Call("Parsed", 1, 0) \in SoundCalls' /\ Call("Parsed", 1, 0) \in Calls
      BY <1>1, <3>1, ClearCalls, ClearSound DEF Clear
    <3> QED BY <3>2, SoundJoin
  <2>10. Tail(todo) \in Seq(SoundCalls')
    <3>1. Tail(todo) \in Seq(Deep)
      BY <1>1, DeepTail DEF LoopOps
    <3>2. Tail(todo) \in Seq(SoundCalls \cap Lower)
      BY <1>1, FirstTop, Underneath DEF Alive
    <3>3. \A i \in 1..Len(Tail(todo)) : Tail(todo)[i] \in Deep \cap SoundCalls
      BY <3>1, <3>2
    <3>4. Tail(todo) \in Seq(Deep \cap SoundCalls)
      BY <3>1, <3>3, InSeq
    <3>5. Deep \cap SoundCalls \subseteq SoundCalls'
      <4> SUFFICES ASSUME NEW d \in Deep \cap SoundCalls PROVE d \in SoundCalls'
        OBVIOUS
      <4>1. d \in Calls /\ Sound(d) /\ ~AtOnce(d) /\ d.op # "Update"
        BY DEF Deep, SoundCalls, Fit, LoopOps
      <4>2. d.op # "FinalizeConnector"
        BY <2>2, <4>1 DEF Sound
      <4>3. Sound(d)'
        BY <2>3, <4>1, <4>2 DEF Sound, AtOnce
      <4> QED BY <4>1, <4>3 DEF SoundCalls
    <3> QED BY <3>4, <3>5
  <2>11. todo' \in Seq(SoundCalls')
    BY <2>1, <2>9, <2>10, SoundJoin DEF Then
  <2>12. Pumped'
    BY <1>1, <1>2, <2>1, <2>9, PumpedStep DEF Alive
  <2> QED BY <2>6, <2>7, <2>8, <2>11, <2>12 DEF Alive
<1>5. CASE ~(tx[1].errdoc /\ ~rx[1].errdoc)
  <2>1. /\ tx' = [tx EXCEPT ![1].opened = FALSE, ![1].working = FALSE]
        /\ rx' = rx
        /\ stream' = stream \/ stream' = [stream EXCEPT ![1].counted = FALSE]
        /\ (tx[1].errdoc /\ Then(<<Call("Update", 1, Finalized)>>)) \/ (~tx[1].errdoc /\ Then(<<Call("Update", 1, Complete)>>))
    BY <1>5 DEF ProcessFinalized
  <2>2. /\ ~tx'[1].working
        /\ tx'[1].handler = tx[1].handler /\ tx'[1].pipeline = tx[1].pipeline /\ tx'[1].started = tx[1].started
        /\ tx'[1].ready = tx[1].ready /\ tx'[1].file = tx[1].file
        /\ tx'[1].pending = tx[1].pending /\ tx'[1].finOut = tx[1].finOut /\ tx'[1].finConn = tx[1].finConn
        /\ tx'[1].headers = tx[1].headers /\ tx'[1].end = tx[1].end /\ tx'[1].stale = tx[1].stale
        /\ tx'[1].errdoc = tx[1].errdoc
    BY <1>1, <2>1 DEF Types, TxType
  <2>3. stream'[1].error = stream[1].error /\ stream'[1].state = stream[1].state /\ stream'[1].target = stream[1].target
    BY <1>1, <2>1 DEF Types, StreamType
  <2>4. (Over' <=> Over) /\ (Cause' <=> Cause)
    BY <2>2, <2>3 DEF Over, Cause, Acted
  <2>5. SameSound
    BY <2>1, <2>2, <2>4 DEF SameSound
  <2>6. Written' /\ Going'
    BY <2>2, <2>3, <2>4 DEF Alive, Written, Going
  <2>7. Original'
    BY <2>1, <2>2, <2>3, <2>4 DEF Alive, Original
  <2>8. \E x \in Seq(SoundCalls') : Then(x)
    <3>1. ~tx[1].errdoc => tx'[1].finConn
      BY <1>3, <2>2 DEF Alive, Going, Over
    <3>2. Finalized \in 0..9 /\ Complete \in 0..9 /\ Finalized # Complete
      BY DEF Finalized, Complete
    <3>3. Call("Update", 1, Finalized) \in Calls /\ Call("Update", 1, Complete) \in Calls
      BY <1>1, <3>2, CallType DEF Ops
    <3>4. /\ Call("Update", 1, Finalized).op = "Update" /\ Call("Update", 1, Finalized).n = Finalized
          /\ Call("Update", 1, Complete).op = "Update" /\ Call("Update", 1, Complete).n = Complete
      BY DEF Call
    <3>5. tx[1].errdoc => Call("Update", 1, Finalized) \in SoundCalls'
      BY <2>2, <3>2, <3>3, <3>4 DEF SoundCalls, Sound, Over
    <3>6. ~tx[1].errdoc => Call("Update", 1, Complete) \in SoundCalls'
      BY <3>1, <3>2, <3>3, <3>4 DEF SoundCalls, Sound
    <3> QED BY <2>1, <3>5, <3>6, SoundJoin
  <2>9. Moves
    BY <1>2, <2>5, <2>6, <2>7, <2>8 DEF Moves
  <2> QED BY <2>9, MovesKeeps
<1> QED BY <1>4, <1>5

\* Each call keeps what AnswerInv says of a connection that is there to stay.
LEMMA AliveStep == ASSUME IInv, VInv, Http1, FirstInv, Alive, Step, ~Gone, ~Spent'
                   PROVE  Alive'
<1>1. TypeOK /\ todo # <<>>
  BY TopOfStep DEF IInv
<1>2. CASE S # 1
  BY <1>2, UnusedAnswer
<1>3. CASE S = 1
  <2>1. /\ Head(todo).op \notin EndOps \cup {"Hang", "NetError", "Disconnect"}
        /\ Head(todo).op \notin FilterOps
    BY <1>1, AliveTop, FirstTop DEF Fits
  <2>2. ~Gone'
    BY DEF Spent
  <2>3. CASE Kick \/ InputEnd \/ PumpIn \/ FinalizeInput \/ CheckFinalized \/ SetFinalized \/ Finalize \/ AfterError \/ Filed
    BY <1>1, <1>3, <2>3, FinishRests, RestsKeeps
  <2>4. CASE ParseLine \/ ParseFields \/ ProcessFirst \/ ProcessHeaders \/ ProcessContent \/ ProcessReady \/ ProcessParsed
    BY <1>1, <1>3, <2>4, ParseRests, ParsedRests, RestsKeeps
  <2>5. CASE SetState \/ Update
    BY <1>1, <1>3, <2>5, StateMoves, MovesKeeps
  <2>6. CASE FinalizeOutput \/ FinalizeConnector \/ Redirect
    BY <1>1, <1>3, <2>6, OutputMoves, MovesKeeps
  <2>7. CASE Route
    BY <1>1, <1>3, <2>7, RouteMoves, RestsKeeps, MovesKeeps
  <2>8. CASE Open \/ Revert
    BY <1>1, <1>3, <2>8, OpenMoves, MovesKeeps
  <2>9. CASE StartHandler
    BY <1>1, <1>3, <2>9, StartMoves, RestsKeeps, MovesKeeps
  <2>10. CASE Pending \/ ReadyHandler
    BY <1>1, <1>3, <2>10, ReadyMoves, MovesKeeps
  <2>11. CASE PumpFile
    BY <1>1, <1>3, <2>11, FileMoves, MovesKeeps
  <2>12. CASE PumpOut
    BY <1>1, <1>3, <2>12, PumpMoves, RestsKeeps, MovesKeeps
  <2>13. CASE Send
    BY <1>1, <1>3, <2>2, <2>13, SendMoves, RestsKeeps, MovesKeeps
  <2>14. CASE ServiceEnd \/ Idle \/ Enable
    BY <1>3, <2>14, IdleKeeps
  <2>15. CASE ProcessFinalized \/ RaiseError \/ Service
    BY <1>3, <2>15, FinalizedKeeps, ErrorKeeps, ServiceKeeps
  <2>16. ~(NetError \/ Fail \/ Disconnect \/ Hang \/ DestroyStream \/ Free \/ CloseStream \/ Abandon \/ DestroyNet
           \/ RemoveStream \/ Destroyed)
    BY <2>1 DEF EndOps, Do, NetError, Fail, Disconnect, Hang, DestroyStream, Free, CloseStream, Abandon, DestroyNet,
       RemoveStream, Destroyed
  <2>17. ~(PumpFilter \/ SendReset \/ FrameDone \/ FrameClosed)
    BY <2>1 DEF FilterOps, Do, PumpFilter, SendReset, FrameDone, FrameClosed
  <2> QED BY <2>3, <2>4, <2>5, <2>6, <2>7, <2>8, <2>9, <2>10, <2>11, <2>12, <2>13, <2>14, <2>15, <2>16, <2>17 DEF Step
<1> QED BY <1>2, <1>3

\* A connection that is lost stays lost.
LEMMA LostStays == ASSUME IInv, Http1, FirstInv, Step
                   PROVE  (Gone => Gone') /\ (Spent => Spent')
<1>1. CASE S = 1
  BY <1>1, GoneStays
<1>2. CASE S # 1
  <2>1. Then(<<>>) /\ net' = net /\ stream'[1] = stream[1] /\ Head(todo).op \in FanOps
    BY <1>2, UnusedKeeps
  <2>2. TypeOK /\ todo # <<>> /\ <<>> \in Seq(Calls) /\ Head(todo).op \notin {"Hang", "NetError", "Disconnect"}
    BY <2>1, TopOfStep DEF IInv, FanOps
  <2>3. \A op \in {"Hang", "NetError", "Disconnect"} : Has(op) => Has(op)'
    BY <2>1, <2>2, HasKept
  <2>4. Hanging => Hanging'
    BY <2>3 DEF Hanging
  <2> QED BY <2>1, <2>4 DEF Gone, Spent
<1> QED BY <1>1, <1>2

\* A step that leaves the connection neither lost nor spent has found it so.
LEMMA AnswerInvStep == ASSUME IInv, VInv, FirstInv, AnswerInv, Step
                       PROVE  AnswerInv'
<1> SUFFICES ASSUME Http1', ~Spent' PROVE Alive'
  BY DEF AnswerInv, Alive
<1>1. Http1
  BY Monotone DEF IInv, Http1
<1>2. ~Spent /\ ~Gone
  BY <1>1, LostStays DEF Spent
<1>3. Alive
  BY <1>1, <1>2 DEF AnswerInv, Alive
<1> QED BY <1>1, <1>2, <1>3, AliveStep

-----------------------------------------------------------------------------
(* AnswerInv, event by event *)

\* An event does not bring back a connection that is lost.
LEMMA EventLost == ASSUME TypeOK, Http1, FirstInv, Event
                   PROVE  todo = <<>> /\ (Gone => Gone') /\ (Spent => Spent')
<1>0. Types /\ 1 \in Streams /\ stream[1] \in StreamType /\ net \in NetType
  BY One DEF TypeOK, Types
<1>1. todo = <<>>
  BY FirstEvents DEF ReadHeader, ReadBody, ReadWindow, PeerClose, Writable, Hangup, NetTimeout, Recall, HttpTimer, StreamTimeout,
     CgiOutput, CgiEnd, Readable, Quiet
<1>2. ~Hanging
  BY <1>1, RestFirst DEF Hanging
<1>3. (net.error => net'.error) /\ (net.eof => net'.eof)
  BY <1>0, FirstEvents DEF ReadHeader, ReadBody, ReadWindow, PeerClose, Writable, Hangup, NetTimeout, Recall, HttpTimer,
     StreamTimeout, CgiOutput, CgiEnd, Activate, CgiCall, NetType
<1>4. stream'[1].disconnect = stream[1].disconnect /\ (stream[1].keep = 0 => stream'[1].keep = 0)
  <2>1. CASE ReadWindow \/ PeerClose \/ Writable \/ Hangup \/ NetTimeout \/ Recall \/ CgiEnd(1)
    BY <2>1 DEF ReadWindow, PeerClose, Writable, Hangup, NetTimeout, Recall, CgiEnd
  <2>2. CASE ReadHeader
    BY <1>0, <2>2 DEF ReadHeader, Types, StreamType
  <2>3. CASE ReadBody
    <3>1. stream' = stream \/ \E k \in {0, stream[1].keep} : stream' = [stream EXCEPT ![1].keep = k]
      BY <2>3 DEF ReadBody
    <3> QED BY <1>0, <3>1 DEF Types, StreamType
  <2>4. CASE HttpTimer(1) \/ StreamTimeout(1)
    <3>1. \E v : stream' = [stream EXCEPT ![1].timer = v]
      BY <2>4 DEF HttpTimer, StreamTimeout
    <3> QED BY <1>0, <3>1 DEF Types, StreamType
  <2>5. CASE CgiOutput(1)
    <3>1. stream' = stream \/ stream' = Spend(1)
      BY <2>5 DEF CgiOutput
    <3> QED BY <1>0, <3>1 DEF Spend, Types, StreamType
  <2> QED BY <2>1, <2>2, <2>3, <2>4, <2>5, FirstEvents
<1> QED BY <1>1, <1>2, <1>3, <1>4 DEF Gone, Spent

\* What an event ends with services the connection.
LEMMA EventAnswer ==
  ASSUME NEW y \in Seq(SoundCalls'), Written', Going', Original',
         IOEvent(y) \/ CgiCall(y) \/ (todo' = y /\ tx'[1].end # "queued" /\ \A i \in 1..Len(y) : Idles(y[i]))
  PROVE  Alive'
<1> DEFINE a == Call("Service", 1, 0)
           b == Call("ServiceEnd", 1, 0)
           c == Call("Idle", 1, 0)
<1>1. a \in SoundCalls' /\ b \in SoundCalls' /\ c \in SoundCalls' /\ Serves(a)
  <2>1. {"Service", "ServiceEnd", "Idle"} \subseteq ClearOps /\ 0 \in 0..9
    BY DEF ClearOps, Ops
  <2>2. a \in Clear /\ b \in Clear /\ c \in Clear
    BY <2>1, ClearCalls, One
  <2>3. a.op = "Service" /\ a.n = 0
    BY DEF Call
  <2> HIDE DEF a, b, c
  <2> QED BY <2>2, <2>3, ClearSound DEF Serves
<1> HIDE DEF SoundCalls
<1>2. CASE IOEvent(y)
  <2>1. todo' = y \o <<a, b, c>>
    BY <1>2 DEF IOEvent, ServiceNet
  <2> HIDE DEF a, b, c
  <2>2. todo' \in Seq(SoundCalls') /\ Len(y) + 1 \in 1..Len(todo') /\ todo'[Len(y) + 1] = a
    BY <1>1, <2>1
  <2>3. Pumped'
    BY <1>1, <2>2 DEF Pumped
  <2> QED BY <2>2, <2>3 DEF Alive
<1>3. CASE CgiCall(y)
  <2>1. todo' = y \o <<a>>
    BY <1>3 DEF CgiCall
  <2> HIDE DEF a, b, c
  <2>2. todo' \in Seq(SoundCalls') /\ Len(y) + 1 \in 1..Len(todo') /\ todo'[Len(y) + 1] = a
    BY <1>1, <2>1
  <2>3. Pumped'
    BY <1>1, <2>2 DEF Pumped
  <2> QED BY <2>2, <2>3 DEF Alive
<1>4. CASE todo' = y /\ tx'[1].end # "queued" /\ \A i \in 1..Len(y) : Idles(y[i])
  <2>1. Pumped'
    BY <1>4 DEF Pumped
  <2> QED BY <1>4, <2>1 DEF Alive
<1> QED BY <1>2, <1>3, <1>4

\* Calls that an event makes, whatever has become of the request
LEMMA ClearEvents == /\ SetTo(1, Begin) \in Seq(SoundCalls') /\ Error(1, Close) \in Seq(SoundCalls')
                     /\ <<Call("Line", 1, 0)>> \in Seq(SoundCalls') /\ <<Call("InputEnd", 1, 0)>> \in Seq(SoundCalls')
                     /\ <<Call("Enable", 1, 0)>> \in Seq(SoundCalls')
<1>1. {"Line", "InputEnd", "Enable"} \subseteq ClearOps /\ 0 \in 0..9 /\ Begin \in 0..7
  BY DEF ClearOps, Ops, Begin
<1>2. /\ Call("SetState", 1, Begin) \in SoundCalls' /\ Call("Error", 1, Close) \in SoundCalls'
      /\ Call("Line", 1, 0) \in SoundCalls' /\ Call("InputEnd", 1, 0) \in SoundCalls' /\ Call("Enable", 1, 0) \in SoundCalls'
  BY <1>1, ClearCalls, ClearSound, One
<1> QED BY <1>2, SoundJoin DEF SetTo, Error

\* An event that leaves the request as it is
LEMMA QuietEvent ==
  ASSUME Alive, todo = <<>>, SameAnswer, NEW y \in Seq(SoundCalls'),
         IOEvent(y) \/ CgiCall(y) \/ (todo' = y /\ \A i \in 1..Len(y) : Idles(y[i]))
  PROVE  Alive'
<1>1. Written' /\ Going' /\ Original'
  BY AnswerSame DEF Alive
<1>2. tx'[1].end # "queued"
  <2>1. Len(todo) = 0
    OBVIOUS
  <2> QED BY <2>1 DEF Alive, Pumped, SameAnswer
<1> QED BY <1>1, <1>2, EventAnswer

LEMMA NetAnswer == ASSUME TypeOK, Http1, FirstInv, Alive, todo = <<>>,
                          ReadWindow \/ PeerClose \/ Writable \/ Hangup \/ NetTimeout \/ Recall
                   PROVE  Alive'
<1>1. stream' = stream /\ rx' = rx /\ tx' = tx
  BY DEF ReadWindow, PeerClose, Writable, Hangup, NetTimeout, Recall
<1>2. SameAnswer
  BY <1>1, Unseeing, One DEF TypeOK, Types
<1>3. CASE IOEvent(<<>>)
  BY <1>2, <1>3, SoundJoin, QuietEvent
<1>4. CASE todo' = <<Call("Enable", 1, 0)>>
  <2>1. \A i \in 1..Len(<<Call("Enable", 1, 0)>>) : Idles(<<Call("Enable", 1, 0)>>[i])
    BY DEF Idles, Call
  <2> QED BY <1>2, <1>4, <2>1, ClearEvents, QuietEvent
<1> QED BY <1>3, <1>4 DEF ReadWindow, PeerClose, Writable, Hangup, NetTimeout, Recall

LEMMA ReadAnswer == ASSUME TypeOK, Http1, FirstInv, Alive, todo = <<>>, ~Spent', ReadHeader \/ ReadBody
                    PROVE  Alive'
<1>0. Types /\ 1 \in Streams /\ net \in NetType
  BY One DEF TypeOK, Types
<1>1. CASE ReadBody
  <2>1. /\ tx' = tx
        /\ rx' = rx \/ rx' = [rx EXCEPT ![1].more = FALSE]
        /\ stream' = stream \/ \E k \in {0, stream[1].keep} : stream' = [stream EXCEPT ![1].keep = k]
        /\ IOEvent(<<Call("InputEnd", 1, 0)>>) \/ IOEvent(Error(1, Close))
    BY <1>1 DEF ReadBody
  <2>2. rx'[1].routed = rx[1].routed /\ rx'[1].errdoc = rx[1].errdoc
    BY <1>0, <2>1 DEF Types, RxType
  <2>3. /\ stream'[1].error = stream[1].error /\ stream'[1].state = stream[1].state
        /\ stream'[1].target = stream[1].target
    BY <1>0, <2>1 DEF Types, StreamType
  <2>4. SameAnswer
    BY <2>1, <2>2, <2>3 DEF SameAnswer
  <2> QED BY <2>1, <2>4, ClearEvents, QuietEvent
<1>2. CASE ReadHeader
  <2>1. CASE stream' = stream /\ rx' = rx /\ tx' = tx /\ (IOEvent(<<>> \o <<Call("Line", 1, 0)>>) \/ IOEvent(SetTo(1, Begin) \o <<Call("Line", 1, 0)>>))
    <3>1. SameAnswer
      BY <1>0, <2>1, Unseeing
    <3> QED BY <2>1, <3>1, ClearEvents, SoundJoin, QuietEvent
  <2>2. CASE net' = [net EXCEPT !.error = TRUE, !.active = TRUE]
    <3>1. net'.error
      BY <1>0, <2>2 DEF NetType
    <3> QED BY <3>1 DEF Spent, Gone
  <2>3. CASE /\ stream' = [stream EXCEPT ![1].state = 0, ![1].target = 0, ![1].error = FALSE, ![1].completed = FALSE,
                                         ![1].timer = "none"]
             /\ rx' = [rx EXCEPT ![1] = FreshRx(1)]
             /\ tx' = [tx EXCEPT ![1] = FreshTx]
             /\ IOEvent(SetTo(1, Begin) \o <<Call("Line", 1, 0)>>)
    <3>1. /\ ~tx'[1].finConn /\ tx'[1].stale = "none" /\ tx'[1].end = "none" /\ ~tx'[1].finOut /\ ~tx'[1].pending
          /\ ~tx'[1].file /\ ~tx'[1].working /\ ~tx'[1].errdoc
      BY <1>0, <2>3 DEF Types, FreshTx
    <3>2. stream'[1].state = 0 /\ stream'[1].target = 0
      BY <1>0, <2>3 DEF Types, StreamType
    <3>3. Written' /\ Original'
      BY <3>1 DEF Written, Original
    <3>4. Going'
      BY <3>2 DEF Going, Finalized, Complete
    <3> QED BY <2>3, <3>3, <3>4, ClearEvents, SoundJoin, EventAnswer
  <2>4. When(stream[1].state = 0, SetTo(1, Begin)) \in {SetTo(1, Begin), <<>>}
    BY DEF When
  <2> QED BY <1>2, <2>1, <2>2, <2>3, <2>4 DEF ReadHeader
<1> QED BY <1>1, <1>2

LEMMA TimerAnswer == ASSUME TypeOK, Http1, FirstInv, Alive, todo = <<>>, ~Spent', HttpTimer(1) \/ StreamTimeout(1)
                     PROVE  Alive'
<1>0. Types /\ 1 \in Streams
  BY One DEF TypeOK, Types
<1>1. rx' = rx /\ tx' = tx /\ \E v : stream' = [stream EXCEPT ![1].timer = v]
  BY DEF HttpTimer, StreamTimeout
<1>2. /\ stream'[1].error = stream[1].error /\ stream'[1].state = stream[1].state
      /\ stream'[1].target = stream[1].target
  BY <1>0, <1>1 DEF Types, StreamType
<1>3. SameAnswer
  BY <1>1, <1>2 DEF SameAnswer
<1>4. CASE todo' = <<>>
  <2>1. \A i \in 1..Len(<<>>) : Idles(<<>>[i])
    OBVIOUS
  <2> QED BY <1>3, <1>4, <2>1, SoundJoin, QuietEvent
<1>5. CASE todo' = Error(1, Close)
  <2>1. \A i \in 1..Len(Error(1, Close)) : Idles(Error(1, Close)[i])
    BY DEF Idles, Error, Call
  <2> QED BY <1>3, <1>5, <2>1, ClearEvents, QuietEvent
<1>6. todo' # <<Call("Disconnect", 1, 0)>>
  <2> SUFFICES ASSUME todo' = <<Call("Disconnect", 1, 0)>> PROVE FALSE
    OBVIOUS
  <2>1. 1 \in 1..Len(todo') /\ todo'[1].op = "Disconnect"
    BY DEF Call
  <2>2. Has("Disconnect")'
    BY <2>1 DEF Has
  <2> QED BY <2>2 DEF Spent, Gone, Hanging
<1> QED BY <1>4, <1>5, <1>6 DEF HttpTimer, StreamTimeout

LEMMA CgiAnswer == ASSUME TypeOK, Http1, FirstInv, Alive, todo = <<>>, CgiOutput(1) \/ CgiEnd(1)
                   PROVE  Alive'
<1>0. Types /\ 1 \in Streams /\ tx[1] \in TxType
  BY One DEF TypeOK, Types
<1>1. rx' = rx /\ tx[1].working /\ (stream' = stream \/ stream' = Spend(1))
  BY DEF CgiOutput, CgiEnd
<1>2. /\ stream'[1].error = stream[1].error /\ stream'[1].state = stream[1].state
      /\ stream'[1].target = stream[1].target
  BY <1>0, <1>1 DEF Types, StreamType, Spend
<1>3. tx' = tx \/ tx' = [tx EXCEPT ![1].headers = TRUE] \/ tx' = [tx EXCEPT ![1].working = FALSE]
  BY DEF CgiOutput, CgiEnd
<1>4. /\ tx[1].headers => tx'[1].headers
      /\ tx'[1].working => tx[1].working
      /\ tx'[1].handler = tx[1].handler /\ tx'[1].pipeline = tx[1].pipeline /\ tx'[1].started = tx[1].started
      /\ tx'[1].ready = tx[1].ready /\ tx'[1].file = tx[1].file
      /\ tx'[1].pending = tx[1].pending /\ tx'[1].finOut = tx[1].finOut /\ tx'[1].finConn = tx[1].finConn
      /\ tx'[1].end = tx[1].end /\ tx'[1].stale = tx[1].stale
      /\ tx'[1].errdoc = tx[1].errdoc
  BY <1>0, <1>3 DEF Types, TxType
<1>5. (Over' <=> Over) /\ (Cause' <=> Cause)
  BY <1>2, <1>4 DEF Over, Cause, Acted
<1>6. Written' /\ Going' /\ Original'
  <2>1. Written' /\ Going'
    BY <1>2, <1>4, <1>5 DEF Alive, Written, Going
  <2>2. Original'
    BY <1>1, <1>2, <1>4, <1>5 DEF Alive, Original
  <2> QED BY <2>1, <2>2
<1>7. <<Call("Finalize", 1, 0)>> \in Seq(SoundCalls')
  <2>1. ASSUME ~rx[1].errdoc PROVE Cause
    <3>1. tx[1].started /\ (tx[1].handler = "cgi" \/ stream[1].error) /\ (tx[1].file => tx[1].handler = "file" \/ stream[1].error)
      BY <1>1, <2>1 DEF Alive, Original
    <3>2. tx[1].pipeline
      BY <3>1, StartedPipeline
    <3> QED BY <3>1, <3>2 DEF Cause, Acted
  <2>2. Call("Finalize", 1, 0) \in Calls
    BY <1>0, CallType DEF Ops
  <2>3. Call("Finalize", 1, 0).op = "Finalize"
    BY DEF Call
  <2>4. Call("Finalize", 1, 0) \in SoundCalls'
    BY <1>1, <1>5, <2>1, <2>2, <2>3 DEF SoundCalls, Sound
  <2> QED BY <2>4, SoundJoin
<1>8. Error(1, Soft) \in Seq(SoundCalls')
  <2>1. tx[1].end # "queued"
    <3>1. Len(todo) = 0
      OBVIOUS
    <3> QED BY <3>1 DEF Alive, Pumped
  <2>2. Unanswered'
    BY <1>4, <2>1 DEF Alive, Written, Unanswered
  <2>3. Soft \in 0..9
    BY DEF Soft
  <2>4. Call("Error", 1, Soft) \in Calls
    BY <1>0, <2>3, CallType DEF Ops
  <2>5. Call("Error", 1, Soft).op = "Error"
    BY DEF Call
  <2>6. Call("Error", 1, Soft) \in SoundCalls'
    BY <2>2, <2>4, <2>5 DEF SoundCalls, Sound
  <2> QED BY <2>6, SoundJoin DEF Error
<1>9. \/ CgiCall(<<>>) \/ CgiCall(<<Call("Finalize", 1, 0)>>)
      \/ CgiCall(<<>> \o <<Call("Finalize", 1, 0)>>) \/ CgiCall(Error(1, Soft) \o <<Call("Finalize", 1, 0)>>)
  <2>1. \A b \in BOOLEAN : When(b, Error(1, Soft)) \in {Error(1, Soft), <<>>}
    BY DEF When
  <2> QED BY <2>1 DEF CgiOutput, CgiEnd
<1> QED BY <1>6, <1>7, <1>8, <1>9, SoundJoin, EventAnswer

\* Events begin with an empty stack, and serve the connection at the end of what they do.
LEMMA AnswerEvent == ASSUME TypeOK, FirstInv, AnswerInv, Event
                     PROVE  AnswerInv'
<1> SUFFICES ASSUME Http1', ~Spent' PROVE Alive'
  BY DEF AnswerInv, Alive
<1>1. Http1
  <2>1. [Next]_vars
    BY DEF Next
  <2> QED BY <2>1, ProtoStays DEF Http1
<1>2. todo = <<>> /\ ~Spent
  BY <1>1, EventLost
<1>3. Alive
  BY <1>1, <1>2 DEF AnswerInv, Alive
<1>4. CASE ReadHeader \/ ReadBody
  BY <1>1, <1>2, <1>3, <1>4, ReadAnswer
<1>5. CASE ReadWindow \/ PeerClose \/ Writable \/ Hangup \/ NetTimeout \/ Recall
  BY <1>1, <1>2, <1>3, <1>5, NetAnswer
<1>6. CASE HttpTimer(1) \/ StreamTimeout(1)
  BY <1>1, <1>2, <1>3, <1>6, TimerAnswer
<1>7. CASE CgiOutput(1) \/ CgiEnd(1)
  BY <1>1, <1>2, <1>3, <1>7, CgiAnswer
<1> QED BY <1>1, <1>4, <1>5, <1>6, <1>7, FirstEvents

LEMMA AnswerInit == ASSUME Init
                    PROVE  AnswerInv
<1>1. todo = <<>> /\ Len(todo) = 0 /\ <<>> \in Seq(SoundCalls)
  BY DEF Init
<1>2. PICK proto \in Protocols : /\ rx = [s \in Streams |-> FreshRx(proto)]
                                /\ stream = [s \in Streams |-> FreshStream(IF proto = 1 THEN KeepAlive ELSE 0)]
                                /\ tx = [s \in Streams |-> FreshTx]
  BY DEF Init
<1>3. tx[1] = FreshTx /\ stream[1].state = 0 /\ stream[1].target = 0 /\ ~stream[1].error
  BY <1>2, One DEF FreshStream
<1>4. Written /\ Original
  BY <1>3 DEF Written, Original, FreshTx
<1>5. Going /\ Pumped
  BY <1>1, <1>3 DEF Going, Pumped, FreshTx, Finalized, Complete
<1> QED BY <1>1, <1>4, <1>5 DEF AnswerInv

\* AnswerInv is inductive, given what holds of the loops and of the stack.
LEMMA AnswerKeeps == ASSUME IInv, VInv, FirstInv, AnswerInv, [Next]_vars
                     PROVE  AnswerInv'
<1>1. CASE Step
  BY <1>1, AnswerInvStep
<1>2. CASE Event
  BY <1>2, AnswerEvent DEF IInv
<1>3. CASE UNCHANGED vars
  <2>1. todo' = todo /\ net' = net /\ stream' = stream /\ rx' = rx /\ tx' = tx
    BY <1>3 DEF vars
  <2>2. SoundCalls' = SoundCalls
    BY <2>1 DEF SoundCalls, Sound, Over, Cause, Acted, Unanswered
  <2>3. (Spent' <=> Spent) /\ (Http1' <=> Http1)
    BY <2>1 DEF Spent, Gone, Hanging, Has, Http1
  <2>4. (Written' <=> Written) /\ (Going' <=> Going) /\ (Original' <=> Original)
    BY <2>1 DEF Written, Going, Original, Over, Cause, Acted
  <2>5. Pumped' <=> Pumped
    BY <2>1 DEF Pumped
  <2> QED BY <2>1, <2>2, <2>3, <2>4, <2>5 DEF AnswerInv
<1> QED BY <1>1, <1>2, <1>3 DEF Next, Done

-----------------------------------------------------------------------------
(* A request of HTTP/1 is answered before it is reported done *)

\* What a request keeps that has been reported done
StaysDone == /\ stream'[1].state = stream[1].state /\ stream'[1].completed = stream[1].completed
             /\ tx[1].end = "sent" => tx'[1].end = "sent"

LEMMA CalmState == ASSUME Calm
                   PROVE  stream'[1].state = stream[1].state /\ stream'[1].completed = stream[1].completed
BY One DEF Calm, SameStreams, SameStream

LEMMA LoopsStayDone ==
  ASSUME TypeOK, S = 1,
         \/ Kick \/ ProcessHeaders \/ InputEnd \/ Revert \/ Pending \/ ReadyHandler
         \/ ProcessFirst \/ ProcessParsed \/ ProcessContent \/ ProcessReady \/ Route \/ Open \/ StartHandler
  PROVE  StaysDone
<1>0. Types /\ 1 \in Streams /\ tx[1] \in TxType
  BY One DEF TypeOK, Types
<1>1. stream'[1].state = stream[1].state /\ stream'[1].completed = stream[1].completed
  <2>1. CASE Kick \/ ProcessHeaders \/ InputEnd \/ Revert \/ Pending \/ ReadyHandler
    BY <2>1, ProcessCalm, CalmState
  <2>2. CASE ProcessFirst \/ ProcessParsed \/ ProcessContent \/ ProcessReady \/ Route \/ Open \/ StartHandler
    BY <2>2 DEF ProcessFirst, ProcessParsed, ProcessContent, ProcessReady, Route, Open, StartHandler
  <2> QED BY <2>1, <2>2
<1>2. tx'[1].end = tx[1].end
  <2>1. CASE Kick \/ ProcessHeaders \/ InputEnd \/ ProcessFirst \/ ProcessParsed \/ ProcessContent \/ ProcessReady
    BY <2>1 DEF Kick, ProcessHeaders, InputEnd, ProcessFirst, ProcessParsed, ProcessContent, ProcessReady
  <2>2. CASE Revert \/ Pending \/ ReadyHandler \/ Route
    BY <1>0, <2>2 DEF Revert, Pending, ReadyHandler, Route, Types, TxType
  <2>3. CASE Open
    <3>1. \E a : tx' = [tx EXCEPT ![1].pipeline = TRUE, ![1].opened = a]
      BY <2>3 DEF Open
    <3> QED BY <1>0, <3>1 DEF Types, TxType
  <2>4. CASE StartHandler
    <3>1. \/ tx' = tx \/ tx' = [tx EXCEPT ![1].started = TRUE]
          \/ \E a : tx' = [tx EXCEPT ![1].started = TRUE, ![1].file = a]
          \/ \E a : tx' = [tx EXCEPT ![1].started = TRUE, ![1].working = a]
      BY <2>4 DEF StartHandler
    <3> QED BY <1>0, <3>1 DEF Types, TxType
  <2> QED BY <2>1, <2>2, <2>3, <2>4
<1> QED BY <1>1, <1>2 DEF StaysDone

LEMMA CallsStayDone ==
  ASSUME TypeOK, S = 1,
         \/ RaiseError \/ Redirect \/ AfterError \/ NetError \/ Fail
         \/ Finalize \/ FinalizeOutput \/ FinalizeInput \/ CheckFinalized \/ SetFinalized \/ FinalizeConnector \/ Disconnect \/ Hang
         \/ Service \/ PumpIn \/ PumpFile \/ Filed \/ PumpOut \/ Send
         \/ Idle \/ Abandon \/ Enable \/ ParseLine \/ ParseFields \/ ServiceEnd
  PROVE  StaysDone
<1>0. Types /\ 1 \in Streams /\ tx[1] \in TxType
  BY One DEF TypeOK, Types
<1>1. stream'[1].state = stream[1].state /\ stream'[1].completed = stream[1].completed
  <2>1. CASE ServiceEnd
    BY <2>1 DEF ServiceEnd
  <2> QED BY <2>1, ErrorCalm, FinishCalm, QueueCalm, NetCalm, CalmState
<1>2. tx[1].end = "sent" => tx'[1].end = "sent"
  <2>1. CASE RaiseError \/ AfterError \/ NetError \/ Fail \/ Finalize \/ CheckFinalized \/ Hang \/ Service \/ PumpIn \/ Filed
             \/ Idle \/ Abandon \/ Enable \/ ParseLine \/ ParseFields \/ ServiceEnd
    BY <2>1 DEF RaiseError, AfterError, NetError, Fail, Finalize, CheckFinalized, Hang, Service, PumpIn, Filed, Idle, Abandon,
       Enable, ParseLine, ParseFields, ServiceEnd
  <2>2. CASE Redirect \/ FinalizeInput \/ SetFinalized \/ FinalizeConnector \/ Disconnect
    BY <1>0, <2>2 DEF Redirect, FinalizeInput, SetFinalized, FinalizeConnector, Disconnect, Types, TxType
  <2>3. CASE FinalizeOutput
    <3>1. tx' = [tx EXCEPT ![1].finOut = TRUE, ![1].pending = @ \/ (~tx[1].finOut /\ ~tx[1].pipeline),
                           ![1].end = IF (~tx[1].finOut /\ tx[1].pipeline) /\ @ = "none" THEN "queued" ELSE @]
      BY <2>3 DEF FinalizeOutput
    <3> QED BY <1>0, <3>1 DEF Types, TxType
  <2>4. CASE PumpFile
    <3>1. PICK ok \in BOOLEAN :
            tx' = [tx EXCEPT ![1].file = FALSE,
                             ![1].end = IF (tx[1].file /\ stream[1].state < Complete) /\ ok /\ ~tx[1].finOut /\ @ = "none"
                                        THEN "queued" ELSE @]
      BY <2>4 DEF PumpFile
    <3> QED BY <1>0, <3>1 DEF Types, TxType
  <2>5. CASE PumpOut
    <3>1. tx[1].end = "sent" => tx' = tx \/ tx' = [tx EXCEPT ![1].headers = TRUE, ![1].stale = "socket"]
      BY <2>5 DEF PumpOut
    <3> QED BY <1>0, <3>1 DEF Types, TxType
  <2>6. CASE Send
    <3>1. tx' = tx \/ tx' = [tx EXCEPT ![1].stale = IF @ = "socket" THEN "none" ELSE @,
                                     ![1].end = IF tx[1].stale # "socket" THEN "sent" ELSE @]
      BY <2>6 DEF Send
    <3>2. ASSUME tx' = [tx EXCEPT ![1].stale = IF @ = "socket" THEN "none" ELSE @,
                                  ![1].end = IF tx[1].stale # "socket" THEN "sent" ELSE @]
          PROVE  tx'[1].end \in {"sent", tx[1].end}
      BY <1>0, <3>2 DEF Types, TxType
    <3> QED BY <3>1, <3>2
  <2> QED BY <2>1, <2>2, <2>3, <2>4, <2>6, <2>5
<1> QED BY <1>1, <1>2 DEF StaysDone

\* What a turn of the loop does to the end of a request
LEMMA TurnEnds ==
  ASSUME TypeOK, Http1, S = 1, SetState \/ Update
  PROVE  /\ stream[1].state = Complete => stream'[1].state = Complete
         /\ stream'[1].completed => \/ stream[1].completed
                                    \/ /\ stream[1].state = Complete
                                       /\ stream[1].keep = 0 => net'.eof
<1>0. /\ Types /\ 1 \in Streams /\ stream[1] \in StreamType /\ stream[1].state \in 0..9 /\ stream[1].target \in 0..9
      /\ net \in NetType /\ Arg \in 0..9
  <2>1. Types /\ 1 \in Streams /\ net \in NetType /\ Arg \in 0..9
    BY One, TopType DEF TypeOK, Types, SetState, Update, Do
  <2> QED BY <2>1 DEF Types, StreamType
<1>1. ASSUME NEW next \in 1..10, NEW target \in 0..9, next > stream[1].state, Enter(1, next, target)
      PROVE  stream[1].state # Complete /\ stream'[1].completed = stream[1].completed
  <2>1. /\ next <= target
        /\ stream' = [stream EXCEPT ![1].setting = TRUE, ![1].state = next, ![1].target = target,
                                    ![1].counted = @ \/ next = First]
    BY <1>1 DEF Enter
  <2>2. stream'[1].completed = stream[1].completed
    BY <1>0, <2>1 DEF Types, StreamType
  <2> QED BY <1>0, <1>1, <2>1, <2>2 DEF Complete
<1>2. ASSUME NEW next, NEW target, Leave(1, next, target)
      PROVE  /\ stream'[1].state = stream[1].state
             /\ stream'[1].completed => \/ stream[1].completed
                                        \/ stream[1].state = Complete /\ (stream[1].keep = 0 => net'.eof)
  <2>1. /\ stream' = [stream EXCEPT ![1].setting = FALSE, ![1].target = target,
                                    ![1].completed = @ \/ stream[1].state = Complete]
        /\ net' = [net EXCEPT !.eof = @ \/ ((stream[1].state = Complete /\ ~stream[1].completed) /\ Http1 /\ stream[1].keep = 0)]
    BY <1>2 DEF Leave
  <2>2. stream'[1].state = stream[1].state /\ stream'[1].completed = (stream[1].completed \/ stream[1].state = Complete)
    BY <1>0, <2>1 DEF Types, StreamType
  <2>3. net'.eof = (net.eof \/ ((stream[1].state = Complete /\ ~stream[1].completed) /\ Http1 /\ stream[1].keep = 0))
    BY <1>0, <2>1 DEF NetType
  <2> QED BY <2>2, <2>3
<1>3. CASE SetState /\ stream[1].setting
  <2>1. stream' = [stream EXCEPT ![1].target = Most(@, Arg)]
    BY <1>3 DEF SetState
  <2>2. stream'[1].state = stream[1].state /\ stream'[1].completed = stream[1].completed
    BY <1>0, <2>1 DEF Types, StreamType
  <2> QED BY <2>2
<1>4. CASE SetState /\ ~stream[1].setting
  <2> DEFINE next == stream[1].state + 1
  <2>1. Enter(1, next, Arg) \/ Leave(1, next, Arg)
    BY <1>4 DEF SetState
  <2>2. next \in 1..10 /\ next > stream[1].state
    BY <1>0
  <2> HIDE DEF next
  <2> QED BY <1>0, <1>1, <1>2, <2>1, <2>2
<1>5. CASE Update
  <2> DEFINE next == IF Arg > stream[1].state THEN Arg ELSE stream[1].state + 1
             target == Most(stream[1].target, Arg)
  <2>1. Enter(1, next, target) \/ Leave(1, next, target)
    BY <1>5 DEF Update
  <2>2. next \in 1..10 /\ next > stream[1].state /\ target \in 0..9
    BY <1>0 DEF Most
  <2> HIDE DEF next, target
  <2> QED BY <1>1, <1>2, <2>1, <2>2
<1> QED BY <1>3, <1>4, <1>5

\* The last turn of the loop closes a connection that is spent, and reports a request that is answered.
LEMMA LeaveDone ==
  ASSUME TypeOK, Http1, ~Gone, ~Gone', AnswerInv, DoneInv, S = 1, SetState \/ Update, stream'[1].completed
  PROVE  tx'[1].end = "sent" /\ stream'[1].state = Complete
<1>1. tx' = tx
  BY DEF SetState, Update
<1>2. stream[1].state = Complete /\ stream'[1].state = Complete
  BY TurnEnds DEF DoneInv
<1>3. CASE stream[1].completed
  BY <1>1, <1>2, <1>3 DEF DoneInv
<1>4. CASE ~stream[1].completed
  <2>1. stream[1].keep # 0
    BY <1>4, TurnEnds DEF Gone
  <2>2. Written /\ Going
    BY <2>1 DEF AnswerInv, Spent
  <2>3. tx[1].end = "sent"
    BY <1>2, <2>2 DEF Written, Going
  <2> QED BY <1>1, <1>2, <2>3
<1> QED BY <1>3, <1>4

\* No call takes back the answer of a request that has been reported done.
LEMMA DoneStep == ASSUME IInv, FirstInv, AnswerInv, DoneInv, Step
                  PROVE  DoneInv'
<1> SUFFICES ASSUME Http1', ~Gone', stream'[1].completed PROVE tx'[1].end = "sent" /\ stream'[1].state = Complete
  BY DEF DoneInv
<1>1. TypeOK /\ todo # <<>> /\ Http1
  BY TopOfStep, Monotone DEF IInv, Http1
<1>2. ~Gone
  BY <1>1, LostStays
<1>3. stream[1].completed => tx[1].end = "sent" /\ stream[1].state = Complete
  BY <1>1, <1>2 DEF DoneInv
<1>4. CASE S # 1
  BY <1>1, <1>3, <1>4, UnusedKeeps
<1>5. CASE S = 1
  <2>1. /\ Head(todo).op \notin EndOps \cup {"Hang", "NetError", "Disconnect"}
        /\ Head(todo).op \notin FilterOps
    BY <1>1, <1>2, AliveTop, FirstTop DEF Fits
  <2>2. CASE SetState \/ Update
    BY <1>1, <1>2, <1>5, <2>2, LeaveDone
  <2>3. CASE StaysDone
    BY <1>3, <2>3 DEF StaysDone
  <2>4. CASE ProcessFinalized
    <3>1. 1 \in 1..Len(todo) /\ todo[1] = Head(todo) /\ Head(todo).op = "Finalized"
      BY <1>1, <2>4 DEF TypeOK, ProcessFinalized, Do
    <3>2. stream[1].state = Finalized
      BY <1>5, <3>1 DEF IInv, CallOK, S
    <3>3. ~stream[1].completed
      BY <1>3, <3>2 DEF Finalized, Complete
    <3>4. \/ stream' = stream
          \/ stream' = [stream EXCEPT ![1].state = Parsed, ![1].target = Begin, ![1].error = FALSE, ![1].timer = "none", ![1].h2 = "idle"]
          \/ stream' = [stream EXCEPT ![1].counted = FALSE]
      BY <1>5, <2>4 DEF ProcessFinalized
    <3>5. stream \in [Streams -> StreamType] /\ stream[1] \in StreamType /\ 1 \in Streams
      BY <1>1, One DEF TypeOK
    <3>6. stream'[1].completed = stream[1].completed
      <4>1. stream' = stream => stream'[1].completed = stream[1].completed
        OBVIOUS
      <4>2. ASSUME stream' = [stream EXCEPT ![1].counted = FALSE] PROVE stream'[1].completed = stream[1].completed
        BY <3>5, <4>2 DEF StreamType
      <4>3. ASSUME stream' = [stream EXCEPT ![1].state = Parsed, ![1].target = Begin, ![1].error = FALSE,
                                            ![1].timer = "none", ![1].h2 = "idle"]
            PROVE  stream'[1].completed = stream[1].completed
        BY <3>5, <4>3 DEF StreamType
      <4> QED BY <3>4, <4>1, <4>2, <4>3
    <3> QED BY <3>3, <3>6
  <2>5. CASE Kick \/ ProcessHeaders \/ InputEnd \/ Revert \/ Pending \/ ReadyHandler
             \/ ProcessFirst \/ ProcessParsed \/ ProcessContent \/ ProcessReady \/ Route \/ Open \/ StartHandler
    BY <1>1, <1>5, <2>3, <2>5, LoopsStayDone
  <2>6. CASE \/ RaiseError \/ Redirect \/ AfterError
             \/ Finalize \/ FinalizeOutput \/ FinalizeInput \/ CheckFinalized \/ SetFinalized \/ FinalizeConnector
             \/ Service \/ PumpIn \/ PumpFile \/ Filed \/ PumpOut \/ Send
             \/ Idle \/ Enable \/ ParseLine \/ ParseFields \/ ServiceEnd
    BY <1>1, <1>5, <2>3, <2>6, CallsStayDone
  <2>7. ~(NetError \/ Fail \/ Disconnect \/ Hang \/ DestroyStream \/ Free \/ CloseStream \/ Abandon \/ DestroyNet
           \/ RemoveStream \/ Destroyed)
    BY <2>1 DEF EndOps, Do, NetError, Fail, Disconnect, Hang, DestroyStream, Free, CloseStream, Abandon, DestroyNet,
       RemoveStream, Destroyed
  <2>8. ~(PumpFilter \/ SendReset \/ FrameDone \/ FrameClosed)
    BY <2>1 DEF FilterOps, Do, PumpFilter, SendReset, FrameDone, FrameClosed
  <2> QED BY <2>2, <2>4, <2>5, <2>6, <2>7, <2>8 DEF Step
<1> QED BY <1>4, <1>5

\* An event leaves a request that has been reported done, or resets it for the next one.
LEMMA DoneEvent == ASSUME TypeOK, FirstInv, DoneInv, Event
                   PROVE  DoneInv'
<1>1. Http1' => Http1
  <2>1. [Next]_vars
    BY DEF Next
  <2> QED BY <2>1, ProtoStays DEF Http1
<1> SUFFICES ASSUME Http1', ~Gone', stream'[1].completed PROVE tx'[1].end = "sent" /\ stream'[1].state = Complete
  BY DEF DoneInv
<1>2. Http1 /\ ~Gone
  BY <1>1, EventLost
<1>3. stream[1].completed => tx[1].end = "sent" /\ stream[1].state = Complete
  BY <1>2 DEF DoneInv
<1>4. Types /\ 1 \in Streams /\ tx[1] \in TxType /\ stream[1] \in StreamType
  BY One DEF TypeOK, Types
<1>5. CASE ReadHeader
  <2>1. \/ stream' = stream /\ tx' = tx
        \/ stream' = [stream EXCEPT ![1].state = 0, ![1].target = 0, ![1].error = FALSE, ![1].completed = FALSE,
                                    ![1].timer = "none"]
    BY <1>5 DEF ReadHeader
  <2>2. stream' = stream /\ tx' = tx
    BY <1>4, <2>1 DEF Types, StreamType
  <2> QED BY <1>3, <2>2
<1>6. CASE ReadBody \/ ReadWindow \/ PeerClose \/ Writable \/ Hangup \/ NetTimeout \/ Recall \/ HttpTimer(1) \/ StreamTimeout(1)
           \/ CgiOutput(1) \/ CgiEnd(1)
  <2>1. \/ stream' = stream \/ \E k : stream' = [stream EXCEPT ![1].keep = k]
        \/ \E v : stream' = [stream EXCEPT ![1].timer = v]
    <3>1. CASE ReadWindow \/ PeerClose \/ Writable \/ Hangup \/ NetTimeout \/ Recall \/ CgiEnd(1)
      BY <3>1 DEF ReadWindow, PeerClose, Writable, Hangup, NetTimeout, Recall, CgiEnd
    <3>2. CASE ReadBody
      <4>1. stream' = stream \/ \E k \in {0, stream[1].keep} : stream' = [stream EXCEPT ![1].keep = k]
        BY <3>2 DEF ReadBody
      <4> QED BY <4>1
    <3>3. CASE HttpTimer(1) \/ StreamTimeout(1)
      BY <3>3 DEF HttpTimer, StreamTimeout
    <3>4. CASE CgiOutput(1)
      <4>1. stream' = stream \/ stream' = Spend(1)
        BY <3>4 DEF CgiOutput
      <4>2. stream' = stream \/ stream' = [stream EXCEPT ![1].keep = IF Http1 /\ ~tx[1].headers /\ @ > 0 THEN @ - 1 ELSE @]
        BY <4>1 DEF Spend
      <4>3. stream' = stream \/ stream' = [stream EXCEPT ![1].keep = IF Http1 /\ ~tx[1].headers /\ stream[1].keep > 0
                                                                     THEN stream[1].keep - 1 ELSE stream[1].keep]
        BY <1>4, <4>2
      <4> QED BY <4>3
    <3> QED BY <1>6, <3>1, <3>2, <3>3, <3>4
  <2>2. stream'[1].state = stream[1].state /\ stream'[1].completed = stream[1].completed
    <3>1. ASSUME NEW k, stream' = [stream EXCEPT ![1].keep = k]
          PROVE  stream'[1].state = stream[1].state /\ stream'[1].completed = stream[1].completed
      BY <1>4, <3>1 DEF Types, StreamType
    <3>2. ASSUME NEW v, stream' = [stream EXCEPT ![1].timer = v]
          PROVE  stream'[1].state = stream[1].state /\ stream'[1].completed = stream[1].completed
      BY <1>4, <3>2 DEF Types, StreamType
    <3> QED BY <2>1, <3>1, <3>2
  <2>3. tx' = tx \/ tx' = [tx EXCEPT ![1].headers = TRUE] \/ tx' = [tx EXCEPT ![1].working = FALSE]
    BY <1>6 DEF ReadBody, ReadWindow, PeerClose, Writable, Hangup, NetTimeout, Recall, HttpTimer, StreamTimeout, CgiOutput, CgiEnd
  <2>4. tx'[1].end = tx[1].end
    BY <1>4, <2>3 DEF Types, TxType
  <2> QED BY <1>3, <2>2, <2>4
<1> QED BY <1>2, <1>5, <1>6, FirstEvents

\* DoneInv is inductive, given AnswerInv for the moment of the report.
LEMMA DoneKeeps == ASSUME IInv, FirstInv, AnswerInv, DoneInv, [Next]_vars
                   PROVE  DoneInv'
<1>1. CASE Step
  BY <1>1, DoneStep
<1>2. CASE Event
  BY <1>2, DoneEvent DEF IInv
<1>3. CASE UNCHANGED vars
  BY <1>3 DEF vars, DoneInv, Http1, Gone, Hanging, Has
<1> QED BY <1>1, <1>2, <1>3 DEF Next, Done

LEMMA DoneInit == ASSUME Init
                  PROVE  DoneInv
<1>1. PICK proto \in Protocols : stream = [s \in Streams |-> FreshStream(IF proto = 1 THEN KeepAlive ELSE 0)]
  BY DEF Init
<1>2. ~stream[1].completed
  BY <1>1, One DEF FreshStream
<1> QED BY <1>2 DEF DoneInv

\* At rest nothing but the loss of the connection excuses a request that was not answered.
LEMMA DoneAnswered == ASSUME IInv, VInv, FirstInv, DoneInv
                      PROVE  AnsweredFirst
<1> SUFFICES ASSUME todo = <<>>, Http1, stream[1].state = Complete, ~net.error, ~net.eof, ~net.destroyed
             PROVE  tx[1].end = "sent"
  BY DEF AnsweredFirst, Resting
<1>1. 1 \in Streams /\ Len(todo) = 0
  BY One
<1>2. ~Hanging /\ ~Has("AfterError")
  BY RestFirst DEF Hanging
<1>3. ~Gone
  BY <1>2 DEF Gone, FirstInv
<1>4. ~stream[1].destroyed
  <2>1. stream[1].destroyed => Leaving(0)
    BY <1>1 DEF IInv, StreamOK
  <2>2. ~Leaving(0)
    BY <1>1 DEF Leaving
  <2> QED BY <2>1, <2>2
<1>5. stream[1].completed
  <2>1. ReportOK(1)
    BY <1>1 DEF VInv, VisitOK
  <2> QED BY <1>1, <1>4, <2>1 DEF ReportOK
<1> QED BY <1>3, <1>5 DEF DoneInv

\* Before an HTTP/1 connection may be used again the response of the last request has been written: whatever an error,
\* an error document or a handler has done, a request gets to COMPLETE only behind its END packet, or on a connection
\* that is lost. (checkFinalized, processFinalized, httpReadIO)
THEOREM AnswersFirst == Spec => []AnsweredFirst
<1>1. Init => AnswerInv /\ DoneInv
  BY AnswerInit, DoneInit
<1>2. IInv /\ VInv /\ FirstInv /\ (AnswerInv /\ DoneInv) /\ [Next]_vars => (AnswerInv /\ DoneInv)'
  BY AnswerKeeps, DoneKeeps
<1>3. IInv /\ VInv /\ FirstInv /\ (AnswerInv /\ DoneInv) => AnsweredFirst
  BY DoneAnswered
<1> QED BY <1>1, <1>2, <1>3, Inductive, VisitInductive, FirstInductive, PTL DEF Spec

=============================================================================
