------------------------------ MODULE Request ------------------------------
(***************************************************************************)
(* The life of a request: the state machine of a stream, its errors, error *)
(* documents and timeouts, keep-alive, the streams that an HTTP/2          *)
(* connection multiplexes, and the end of the connection.                  *)
(* Sources: httpLib.c, its parts process.c, error.c, tx.c, stream.c,       *)
(* pipeline.c, net.c, netConnector.c, http1Filter.c, http2Filter.c,        *)
(* fileHandler.c and passHandler.c; cgiHandler.c.                          *)
(*                                                                         *)
(* The functions of these files call each other deeply and httpSetState is *)
(* entered again from its own callees, so the model keeps the calls that   *)
(* are still to be made: todo is the stack of the connection's dispatcher, *)
(* a step runs the call on its top up to the calls it makes in turn, and   *)
(* an event of the outside comes when the stack is empty.  The body of a   *)
(* request and of a response are one packet and its END; what flow control *)
(* does with longer ones is in Pipeline.                                   *)
(***************************************************************************)
EXTENDS Naturals, Sequences, FiniteSets

CONSTANTS
  N,             \* streams of an HTTP/2 connection; HTTP/1 uses the first one
  Protocols,     \* 1 is HTTP/1.1, 2 is HTTP/2
  KeepAlive,     \* limits->keepAliveMax
  Limit,         \* limits->requestsPerClientMax
  MaxFaults,     \* how often something may go wrong: bad input, a failing handler or write, a peer that faults
  Documents      \* do the routes name error documents?

ASSUME RequestAssumption ==
  /\ N \in Nat \ {0} /\ Protocols \subseteq {1, 2}
  /\ KeepAlive \in Nat \ {0} /\ Limit \in Nat /\ MaxFaults \in [{1, 2} -> Nat]
  /\ Documents \in BOOLEAN

VARIABLES
  net,           \* the connection
  stream,        \* HttpStream of each stream
  rx, tx,        \* stream->rx and stream->tx
  active,        \* HTTP_COUNTER_ACTIVE_REQUESTS
  todo,          \* the calls on the stack, the next one first
  faults,        \* how often something has gone wrong so far
  seen           \* history: the states that each request was notified of, how often of DONE, and its timeout

vars == <<net, stream, rx, tx, active, todo, faults, seen>>

Streams == 1..N

\* HTTP_STATE_XXX; zero is a stream that has not been created, or is reset
Begin == 1
First == 3
Parsed == 4
Content == 5
Ready == 6
Running == 7
Finalized == 8
Complete == 9

\* How httpError is called: with a status, with HTTP_CLOSE or HTTP_ABORT too, or without any
Soft == 0
Close == 1
Abort == 2
Silent == 3

Ops == {"SetState", "First", "Headers", "Parsed", "Content", "Ready", "Finalized", "Update", "Kick",
        "Error", "Redirect", "AfterError", "Finalize", "FinalizeOutput", "FinalizeInput", "CheckFinalized",
        "SetFinalized", "FinalizeConnector", "Disconnect", "Hang", "NetError", "Fail", "InputEnd",
        "Route", "Open", "Revert", "StartHandler", "Pending", "ReadyHandler",
        "Service", "PumpIn", "PumpFile", "Filed", "PumpOut", "PumpFilter", "Send", "SendReset", "Free",
        "ServiceEnd", "Idle", "CloseStream", "Abandon", "DestroyStream", "DestroyNet", "RemoveStream",
        "Destroyed", "Enable", "Line", "Fields", "FrameDone", "FrameClosed"}
Calls == [op : Ops, s : Streams, n : 0..9]
Call(op, s, n) == [op |-> op, s |-> s, n |-> n]
Do(op) == todo # <<>> /\ Head(todo).op = op
S == Head(todo).s
Arg == Head(todo).n
Then(calls) == todo' = calls \o Tail(todo)
When(c, calls) == IF c THEN calls ELSE <<>>
Run(op) == <<Call(op, S, 0)>>
Error(s, kind) == <<Call("Error", s, kind)>>
SetTo(s, state) == <<Call("SetState", s, state)>>
ForAll(op) == [s \in Streams |-> Call(op, s, 0)]           \* for every stream of the connection

\* If c, something goes wrong here.
Fault(c) == /\ c => faults < MaxFaults[net.proto]
            /\ faults' = IF c THEN faults + 1 ELSE faults

Most(a, b) == IF a < b THEN b ELSE a
Http1 == net.proto = 1
Listed(s) == stream[s].state > 0 /\ ~stream[s].destroyed   \* is it in net->streams?

FreshRx(proto) == [eof |-> FALSE, inputEnded |-> FALSE, more |-> proto = 2, routed |-> FALSE, streaming |-> FALSE,
            queued |-> FALSE, errdoc |-> FALSE]
FreshTx == [handler |-> "none", pipeline |-> FALSE, opened |-> FALSE, started |-> FALSE, ready |-> FALSE,
            working |-> FALSE, file |-> FALSE, pending |-> FALSE, finIn |-> FALSE, finOut |-> FALSE,
            finConn |-> FALSE, finalized |-> FALSE, headers |-> FALSE, end |-> "none", stale |-> "none", errdoc |-> FALSE]
FreshStream(keep) ==
  [state |-> 0, target |-> 0, setting |-> FALSE, error |-> FALSE, disconnect |-> FALSE, keep |-> keep,
   completed |-> FALSE, counted |-> FALSE, timer |-> "none", h2 |-> "idle", destroyed |-> FALSE]
Unseen == [states |-> {}, done |-> 0, late |-> FALSE]

NetType ==
  [proto : {1, 2}, eof : BOOLEAN, error : BOOLEAN, active : BOOLEAN, mask : SUBSET {"read", "write"},
   closed : BOOLEAN, blocked : BOOLEAN, stalled : BOOLEAN, goaway : BOOLEAN, timer : BOOLEAN, recall : BOOLEAN,
   destroyed : BOOLEAN]
StreamType ==
  [state : 0..9, target : 0..9, setting : BOOLEAN, error : BOOLEAN, disconnect : BOOLEAN, keep : 0..KeepAlive,
   completed : BOOLEAN, counted : BOOLEAN, timer : {"none", "queued", "fired"},
   h2 : {"idle", "open", "local", "remote", "closed", "error"}, destroyed : BOOLEAN]
RxType == [eof : BOOLEAN, inputEnded : BOOLEAN, more : BOOLEAN, routed : BOOLEAN, streaming : BOOLEAN,
           queued : BOOLEAN, errdoc : BOOLEAN]
TxType == [handler : {"none", "pass", "refuse", "file", "cgi"}, pipeline : BOOLEAN, opened : BOOLEAN,
           started : BOOLEAN, ready : BOOLEAN, working : BOOLEAN, file : BOOLEAN, pending : BOOLEAN,
           finIn : BOOLEAN, finOut : BOOLEAN, finConn : BOOLEAN, finalized : BOOLEAN, headers : BOOLEAN,
           end : {"none", "queued", "filter", "socket", "sent", "dropped"},
           stale : {"none", "queued", "socket"}, errdoc : BOOLEAN]
SeenType == [states : SUBSET (1..9), done : Nat, late : BOOLEAN]

TypeOK ==
  /\ net \in NetType
  /\ stream \in [Streams -> StreamType]
  /\ rx \in [Streams -> RxType] /\ tx \in [Streams -> TxType]
  /\ seen \in [Streams -> SeenType]
  /\ active \in Nat /\ faults \in Nat
  /\ todo \in Seq(Calls)

-----------------------------------------------------------------------------
(* process.c: the state machine *)

\* What httpStateMachine does in a state; BEGIN, CONNECTED, RUNNING and COMPLETE do nothing.
Visit(s, state) ==
  CASE state = First -> <<Call("First", s, 0)>>
    [] state = Parsed -> <<Call("Headers", s, 0), Call("Parsed", s, 0)>>
    [] state = Content -> <<Call("Content", s, 0)>>
    [] state = Ready -> <<Call("Ready", s, 0)>>
    [] state = Finalized -> <<Call("Finalized", s, 0)>>
    [] OTHER -> <<Call("Update", s, state)>>

\* One more turn of the loop of httpSetState, with the notifier, and what follows the loop.
\* processFirst counts the request.
Enter(s, state, target) ==
  /\ state <= target
  /\ stream' = [stream EXCEPT ![s].setting = TRUE, ![s].state = state, ![s].target = target,
                              ![s].counted = @ \/ state = First]
  /\ active' = IF state = First THEN active + 1 ELSE active
  /\ seen' = [seen EXCEPT ![s].states = @ \cup {state}]
  /\ Then(Visit(s, state))
  /\ UNCHANGED net

\* processComplete and httpPumpOutput
Leave(s, state, target) ==
  LET complete == stream[s].state = Complete
      first == complete /\ ~stream[s].completed
  IN /\ state > target
     /\ stream' = [stream EXCEPT ![s].setting = FALSE, ![s].target = target, ![s].completed = @ \/ complete]
     /\ seen' = [seen EXCEPT ![s].done = IF first THEN @ + 1 ELSE @]
     /\ net' = [net EXCEPT !.eof = @ \/ (first /\ Http1 /\ stream[s].keep = 0)]
     /\ Then(When(~complete /\ tx[s].started, <<Call("Service", s, 1)>>) \o <<Call("Kick", s, 0)>>)
     /\ UNCHANGED active

\* An invocation from a callee only raises the target.
SetState ==
  /\ Do("SetState")
  /\ IF stream[S].setting
     THEN /\ stream' = [stream EXCEPT ![S].target = Most(@, Arg)]
          /\ Then(<<>>) /\ UNCHANGED <<net, active, seen>>
     ELSE Enter(S, stream[S].state + 1, Arg) \/ Leave(S, stream[S].state + 1, Arg)
  /\ UNCHANGED <<rx, tx, faults>>

\* The loop goes to the target at once.
Update_Target ==
  /\ Do("Update")
  /\ LET next == Most(stream[S].target, stream[S].state + 1)
         target == Most(stream[S].target, Arg)
     IN Enter(S, next, target) \/ Leave(S, next, target)
  /\ UNCHANGED <<rx, tx, faults>>

Update ==
  /\ Do("Update")
  /\ LET next == IF Arg > stream[S].state THEN Arg ELSE stream[S].state + 1
         target == Most(stream[S].target, Arg)
     IN Enter(S, next, target) \/ Leave(S, next, target)
  /\ UNCHANGED <<rx, tx, faults>>

\* The end of httpSetState
Kick ==
  /\ Do("Kick")
  /\ Then(When(Http1 /\ net.mask = {} /\ ~net.active, Run("Enable")))
  /\ UNCHANGED <<net, stream, rx, tx, active, faults, seen>>

\* processFirst: the request is refused over the limit of its client, or for want of memory.
ProcessFirst ==
  /\ Do("First")
  /\ \E full \in BOOLEAN :
       /\ Fault(full)
       /\ Then(IF full \/ active > Limit THEN Error(S, Close) \o <<Call("Update", S, 0)>>
               ELSE <<Call("Update", S, First)>>)
  /\ UNCHANGED <<net, stream, rx, tx, active, seen>>

\* processHeaders.  An HTTP/2 request tells by END_STREAM whether more follows.
ProcessHeaders ==
  /\ Do("Headers")
  /\ \/ stream[S].error /\ Then(<<>>) /\ UNCHANGED <<stream, rx, faults>>
     \/ \E more, streaming, closing \in BOOLEAN :
          /\ ~stream[S].error
          /\ Http1 \/ (more /\ ~closing)
          /\ rx' = [rx EXCEPT ![S].more = more, ![S].streaming = streaming]
          /\ stream' = [stream EXCEPT ![S].keep = IF closing THEN 0 ELSE @]
          /\ Then(<<>>) /\ UNCHANGED faults
     \/ ~stream[S].error /\ Fault(TRUE) /\ Then(Error(S, Close)) /\ UNCHANGED <<stream, rx>>
  /\ UNCHANGED <<net, tx, active, seen>>

\* processParsed
ProcessParsed ==
  /\ Do("Parsed")
  /\ IF stream[S].disconnect
     THEN Then(<<Call("Update", S, Ready)>>) /\ UNCHANGED faults
     ELSE \E badQuery, tooBig \in BOOLEAN :
            /\ Fault(badQuery \/ tooBig)
            /\ tooBig => Http1 /\ rx[S].more /\ ~rx[S].errdoc
            /\ Then(When(badQuery, Error(S, Soft))
                    \o When(rx[S].streaming, Run("Route") \o Run("StartHandler"))
                    \o When(tooBig, Error(S, Close)) \o <<Call("Update", S, Content)>>)
  /\ UNCHANGED <<net, stream, rx, tx, active, seen>>

\* processContent: a request without a body ends here.
ProcessContent ==
  /\ Do("Content")
  /\ Then(IF rx[S].more THEN <<Call("Update", S, Content)>> ELSE Run("InputEnd") \o <<Call("Update", S, Ready)>>)
  /\ UNCHANGED <<net, stream, rx, tx, active, faults, seen>>

\* httpAddInputEndPacket
InputEnd ==
  /\ Do("InputEnd")
  /\ rx' = [rx EXCEPT ![S].inputEnded = TRUE, ![S].eof = TRUE, ![S].queued = @ \/ ~rx[S].inputEnded]
  /\ Then(<<>>)
  /\ UNCHANGED <<net, stream, tx, active, faults, seen>>

\* processReady
ProcessReady ==
  /\ Do("Ready")
  /\ Then(When(rx[S].eof, Run("Route") \o Run("StartHandler"))
          \o <<Call("Service", S, 1), Call("ReadyHandler", S, 0), Call("Update", S, Running)>>)
  /\ UNCHANGED <<net, stream, rx, tx, active, faults, seen>>

\* The stream stays marked as counted.
ProcessFinalized_Counted ==
  /\ Do("Finalized")
  /\ IF tx[S].errdoc
     THEN IF rx[S].errdoc
          THEN /\ tx' = [tx EXCEPT ![S].opened = FALSE, ![S].working = FALSE]
               /\ Then(<<Call("Update", S, Finalized)>>) /\ UNCHANGED <<stream, rx, active, seen>>
          ELSE /\ stream' = [stream EXCEPT ![S].state = Parsed, ![S].target = Begin, ![S].error = FALSE,
                                           ![S].timer = "none", ![S].h2 = "idle"]
               /\ rx' = [rx EXCEPT ![S] = [FreshRx(net.proto) EXCEPT !.errdoc = TRUE]]
               /\ tx' = [tx EXCEPT ![S] = [FreshTx EXCEPT !.stale = IF tx[S].end \in {"queued", "socket"} THEN tx[S].end
                                                              ELSE tx[S].stale]]
               /\ Then(Run("Parsed")) /\ UNCHANGED <<active, seen>>
     ELSE /\ tx' = [tx EXCEPT ![S].opened = FALSE, ![S].working = FALSE]
          /\ active' = active - 1
          /\ Then(<<Call("Update", S, Complete)>>)
          /\ UNCHANGED <<stream, rx, seen>>
  /\ UNCHANGED <<net, faults>>

\* processFinalized and prepErrorDoc: the error document is requested on the same stream, or the request is over.
\* The names of two documents are never the same, because the document's own is made absolute.  An END packet of
\* the request that is still on its way stays on it.
ProcessFinalized ==
  /\ Do("Finalized")
  /\ IF tx[S].errdoc
     THEN IF rx[S].errdoc
          THEN /\ tx' = [tx EXCEPT ![S].opened = FALSE, ![S].working = FALSE]
               /\ Then(<<Call("Update", S, Finalized)>>) /\ UNCHANGED <<stream, rx, active, seen>>
          ELSE /\ stream' = [stream EXCEPT ![S].state = Parsed, ![S].target = Begin, ![S].error = FALSE,
                                           ![S].timer = "none", ![S].h2 = "idle"]
               /\ rx' = [rx EXCEPT ![S] = [FreshRx(net.proto) EXCEPT !.errdoc = TRUE]]
               /\ tx' = [tx EXCEPT ![S] = [FreshTx EXCEPT !.stale = IF tx[S].end \in {"queued", "socket"} THEN tx[S].end
                                                              ELSE tx[S].stale]]
               /\ Then(Run("Parsed")) /\ UNCHANGED <<active, seen>>
     ELSE /\ tx' = [tx EXCEPT ![S].opened = FALSE, ![S].working = FALSE]
          /\ active' = active - 1
          /\ stream' = [stream EXCEPT ![S].counted = FALSE]
          /\ Then(<<Call("Update", S, Complete)>>)
          /\ UNCHANGED <<rx, seen>>
  /\ UNCHANGED <<net, faults>>

-----------------------------------------------------------------------------
(* error.c *)

\* errorv.  An error document is looked up by the status once there is a route.
RaiseError ==
  /\ Do("Error")
  /\ LET kind == IF tx[S].headers THEN Abort ELSE Arg
         fresh == ~stream[S].error
     IN /\ stream' = [stream EXCEPT ![S].error = TRUE, ![S].keep = IF Arg \in {Close, Abort} THEN 0 ELSE @,
                                    ![S].disconnect = @ \/ (fresh /\ kind = Abort)]
        /\ rx' = [rx EXCEPT ![S].eof = @ \/ Arg \in {Close, Abort},
                            ![S].queued = @ /\ ~(fresh /\ kind = Abort)]
        /\ \E document \in BOOLEAN :
             /\ document => Documents /\ fresh /\ ~tx[S].headers /\ rx[S].routed /\ kind \in {Soft, Close}
             /\ Then(When(document, Run("Redirect"))
                     \o When(fresh, IF kind \in {Close, Abort} THEN Run("Finalize") ELSE Run("FinalizeOutput"))
                     \o Run("AfterError"))
  /\ UNCHANGED <<net, tx, active, faults, seen>>

\* errorRedirect
Redirect ==
  /\ Do("Redirect")
  /\ tx' = [tx EXCEPT ![S].errdoc = TRUE, ![S].finalized = TRUE, ![S].finIn = TRUE, ![S].finOut = TRUE]
  /\ Then(SetTo(S, Finalized))
  /\ UNCHANGED <<net, stream, rx, active, faults, seen>>

AfterError ==
  /\ Do("AfterError")
  /\ Then(When(stream[S].disconnect /\ Http1, Run("Disconnect")))
  /\ UNCHANGED <<net, stream, rx, tx, active, faults, seen>>

\* httpNetError: every request of the connection fails.
NetError ==
  /\ Do("NetError")
  /\ net' = [net EXCEPT !.error = TRUE, !.eof = TRUE]
  /\ Then(When(~net.error, ForAll("Fail")))
  /\ UNCHANGED <<stream, rx, tx, active, faults, seen>>

Fail ==
  /\ Do("Fail")
  /\ Then(When(Listed(S), Error(S, Abort) \o Run("FinalizeConnector")))
  /\ UNCHANGED <<net, stream, rx, tx, active, faults, seen>>

-----------------------------------------------------------------------------
(* tx.c and stream.c: what has to be over before a request is *)

Finalize ==
  /\ Do("Finalize")
  /\ Then(Run("FinalizeOutput") \o Run("FinalizeInput") \o Run("CheckFinalized"))
  /\ UNCHANGED <<net, stream, rx, tx, active, faults, seen>>

\* Before there is a pipeline the END packet has to wait for the start of the handler.
FinalizeOutput ==
  /\ Do("FinalizeOutput")
  /\ LET go == ~tx[S].finOut
         put == go /\ tx[S].pipeline
     IN /\ tx' = [tx EXCEPT ![S].finOut = TRUE, ![S].pending = @ \/ (go /\ ~tx[S].pipeline),
                            ![S].end = IF put /\ @ = "none" THEN "queued" ELSE @]
        /\ Then(When(put, Run("CheckFinalized")))
  /\ UNCHANGED <<net, stream, rx, active, faults, seen>>

FinalizeInput ==
  /\ Do("FinalizeInput")
  /\ tx' = [tx EXCEPT ![S].finIn = TRUE]
  /\ rx' = [rx EXCEPT ![S].eof = @ \/ ~tx[S].finIn]
  /\ Then(When(~tx[S].finIn, SetTo(S, Ready) \o Run("CheckFinalized")))
  /\ UNCHANGED <<net, stream, active, faults, seen>>

\* The request is over before its response has been written.
CheckFinalized_Unsent ==
  /\ Do("CheckFinalized")
  /\ Then(When(~tx[S].finalized /\ tx[S].finIn /\ tx[S].finOut,
               SetTo(S, Finalized) \o <<Call("SetFinalized", S, IF rx[S].errdoc THEN 1 ELSE 0)>>))
  /\ UNCHANGED <<net, stream, rx, tx, active, faults, seen>>

\* The tx that is marked is the one that was looked at: Arg tells the request's own from the error document's.
CheckFinalized ==
  /\ Do("CheckFinalized")
  /\ Then(When(~tx[S].finalized /\ tx[S].finIn /\ tx[S].finOut /\ tx[S].finConn,
               SetTo(S, Finalized) \o <<Call("SetFinalized", S, IF rx[S].errdoc THEN 1 ELSE 0)>>))
  /\ UNCHANGED <<net, stream, rx, tx, active, faults, seen>>

SetFinalized ==
  /\ Do("SetFinalized")
  /\ tx' = [tx EXCEPT ![S].finalized = @ \/ rx[S].errdoc = (Arg = 1)]
  /\ Then(<<>>)
  /\ UNCHANGED <<net, stream, rx, active, faults, seen>>

FinalizeConnector ==
  /\ Do("FinalizeConnector")
  /\ tx' = [tx EXCEPT ![S].finConn = TRUE]
  /\ Then(Run("CheckFinalized"))
  /\ UNCHANGED <<net, stream, rx, active, faults, seen>>

\* httpDisconnectStream
Disconnect ==
  /\ Do("Disconnect")
  /\ stream' = [stream EXCEPT ![S].error = TRUE]
  /\ tx' = [tx EXCEPT ![S].finConn = TRUE]
  /\ Then(Run("FinalizeInput") \o Run("Finalize") \o When(Http1, Run("Hang")))
  /\ UNCHANGED <<net, rx, active, faults, seen>>

Hang ==
  /\ Do("Hang")
  /\ net' = [net EXCEPT !.closed = TRUE, !.error = TRUE]
  /\ Then(<<>>)
  /\ UNCHANGED <<stream, rx, tx, active, faults, seen>>

\* The pipeline is not closed.
DestroyStream_Open ==
  /\ Do("DestroyStream")
  /\ IF stream[S].destroyed THEN UNCHANGED <<stream, active>>
     ELSE /\ active' = IF stream[S].counted THEN active - 1 ELSE active
          /\ stream' = [stream EXCEPT ![S].counted = FALSE, ![S].state = Complete, ![S].destroyed = TRUE]
  /\ Then(<<>>)
  /\ UNCHANGED <<net, rx, tx, faults, seen>>

DestroyStream ==
  /\ Do("DestroyStream")
  /\ IF stream[S].destroyed THEN UNCHANGED <<stream, tx, active>>
     ELSE /\ tx' = [tx EXCEPT ![S].opened = FALSE, ![S].working = FALSE]
          /\ active' = IF stream[S].counted THEN active - 1 ELSE active
          /\ stream' = [stream EXCEPT ![S].counted = FALSE, ![S].state = Complete, ![S].destroyed = TRUE]
  /\ Then(<<>>)
  /\ UNCHANGED <<net, rx, faults, seen>>

-----------------------------------------------------------------------------
(* process.c and pipeline.c: routing and the handlers *)

\* routeRequest.  A request that has failed gets the pass handler, which sends what the error has prepared.
Route ==
  /\ Do("Route")
  /\ IF rx[S].routed THEN Then(<<>>) /\ UNCHANGED <<rx, tx, faults>>
     ELSE /\ rx' = [rx EXCEPT ![S].routed = TRUE]
          /\ \/ \E handler \in {"file", "cgi", "refuse"} :
                  /\ ~stream[S].error /\ Fault(handler = "refuse")
                  /\ tx' = [tx EXCEPT ![S].handler = IF tx[S].finalized \/ tx[S].pending THEN "pass" ELSE handler]
                  /\ Then(Run("Open"))
             \/ /\ Fault(~stream[S].error)
                /\ tx' = [tx EXCEPT ![S].handler = "pass"]
                /\ Then(When(~stream[S].error, Error(S, Soft)) \o Run("Open"))
  /\ UNCHANGED <<net, stream, active, seen>>

\* httpCreatePipeline.  A file that is not there is an error of a handler that has been opened.
Open ==
  /\ Do("Open")
  /\ \E ok \in BOOLEAN :
       /\ ~ok => tx[S].handler \in {"file", "cgi"}
       /\ Fault(~ok)
       /\ tx' = [tx EXCEPT ![S].pipeline = TRUE,
                           ![S].opened = tx[S].handler = "file" \/ (tx[S].handler = "cgi" /\ ok)]
       /\ Then(When(~ok, Error(S, Soft)) \o Run("Revert"))
  /\ UNCHANGED <<net, stream, rx, active, seen>>

Revert ==
  /\ Do("Revert")
  /\ tx' = [tx EXCEPT ![S].handler = IF stream[S].error THEN "pass" ELSE @]
  /\ Then(<<>>)
  /\ UNCHANGED <<net, stream, rx, active, faults, seen>>

\* httpStartHandler: GET or HEAD of a file; a CGI program is started.
StartHandler ==
  /\ Do("StartHandler")
  /\ \/ tx[S].started /\ Then(<<>>) /\ UNCHANGED <<tx, faults>>
     \/ /\ ~tx[S].started /\ tx[S].handler \notin {"file", "cgi"}
        /\ tx' = [tx EXCEPT ![S].started = TRUE]
        /\ Then(Run("Pending")) /\ UNCHANGED faults
     \/ \E body \in BOOLEAN :
          /\ ~tx[S].started /\ tx[S].handler = "file"
          /\ tx' = [tx EXCEPT ![S].started = TRUE, ![S].file = body]
          /\ Then(When(~body, Run("FinalizeOutput")) \o Run("Pending")) /\ UNCHANGED faults
     \/ \E ok \in BOOLEAN :
          /\ ~tx[S].started /\ tx[S].handler = "cgi" /\ Fault(~ok)
          /\ tx' = [tx EXCEPT ![S].started = TRUE, ![S].working = ok]
          /\ Then(When(~ok, Error(S, Soft)) \o Run("Pending"))
  /\ UNCHANGED <<net, stream, rx, active, seen>>

Pending ==
  /\ Do("Pending")
  /\ tx' = [tx EXCEPT ![S].finOut = @ /\ ~tx[S].pending]
  /\ Then(When(tx[S].pending, Run("FinalizeOutput")))
  /\ UNCHANGED <<net, stream, rx, active, faults, seen>>

\* httpReadyHandler
ReadyHandler ==
  /\ Do("ReadyHandler")
  /\ tx' = [tx EXCEPT ![S].ready = TRUE]
  /\ Then(When(~tx[S].ready /\ tx[S].handler = "refuse" /\ ~stream[S].error, Error(S, Soft))
          \o When(~tx[S].ready /\ tx[S].handler \in {"pass", "refuse"}, Run("Finalize")))
  /\ UNCHANGED <<net, stream, rx, active, faults, seen>>

-----------------------------------------------------------------------------
(* httpServiceNetQueues: the END packets on their way, of requests to the handler and of responses to the socket *)

AtSocket(s) == "socket" \in {tx[s].end, tx[s].stale}

\* What there is to service
Work ==
  {Call("PumpIn", s, 0) : s \in {r \in Streams : rx[r].queued}} \cup
  {Call("PumpFile", s, 0) : s \in {r \in Streams : tx[r].file}} \cup
  {Call("PumpOut", s, 0) : s \in {r \in Streams : "queued" \in {tx[r].end, tx[r].stale}}} \cup
  {Call("PumpFilter", s, 0) : s \in {r \in Streams : tx[r].end = "filter" /\ ~net.stalled}} \cup
  {Call("Send", s, 0) : s \in {r \in Streams : AtSocket(r) /\ ~net.blocked}}

\* Called with HTTP_CURRENT (Arg = 1), each queue that is scheduled is serviced once; a response may need more.
Service ==
  /\ Do("Service")
  /\ \/ Work = {} /\ Then(<<>>)
     \/ Arg = 0 /\ (\E work \in Work : todo' = <<work>> \o todo)
     \/ Arg = 1 /\ Work # {} /\ Then(ForAll("PumpIn") \o ForAll("PumpFile") \o [i \in Streams |-> Call("PumpOut", i, 1)])
  /\ UNCHANGED <<net, stream, rx, tx, active, faults, seen>>

\* The END of the request gets to the handler: httpDefaultIncoming, incomingFile.
PumpIn ==
  /\ Do("PumpIn")
  /\ rx' = [rx EXCEPT ![S].queued = FALSE]
  /\ Then(When(rx[S].queued, Run("FinalizeInput")))
  /\ UNCHANGED <<net, stream, tx, active, faults, seen>>

\* outgoingFileService puts the END itself.
PumpFile ==
  /\ Do("PumpFile")
  /\ \E ok \in BOOLEAN :
       LET go == tx[S].file /\ stream[S].state < Complete
       IN /\ ~ok => go
          /\ Fault(~ok)
          /\ tx' = [tx EXCEPT ![S].file = FALSE,
                              ![S].end = IF go /\ ok /\ ~tx[S].finOut /\ @ = "none" THEN "queued" ELSE @]
          /\ Then(When(go, IF ok THEN Run("FinalizeOutput") \o Run("Filed") ELSE Error(S, Soft)))
  /\ UNCHANGED <<net, stream, rx, active, seen>>

Filed ==
  /\ Do("Filed")
  /\ Then(When(~tx[S].finalized /\ tx[S].finOut /\ tx[S].finIn, Run("Finalize")))
  /\ UNCHANGED <<net, stream, rx, tx, active, faults, seen>>

\* The headers of the response are made: they announce whether the connection stays open.
Spend(s) == [stream EXCEPT ![s].keep = IF Http1 /\ ~tx[s].headers /\ @ > 0 THEN @ - 1 ELSE @]

\* The queues of the stream up to the one of the connection; a pass with HTTP_CURRENT may end on the way.
PumpOut ==
  /\ Do("PumpOut")
  /\ \/ /\ tx[S].end = "queued"
        /\ tx' = [tx EXCEPT ![S].headers = TRUE, ![S].end = IF Http1 THEN "socket" ELSE "filter"]
        /\ stream' = Spend(S)
        /\ Then(When(Http1, Run("Send")))
     \/ /\ tx[S].stale = "queued"
        /\ tx' = [tx EXCEPT ![S].headers = TRUE, ![S].stale = "socket"]
        /\ stream' = Spend(S)
        /\ Then(Run("Send"))
     \/ /\ "queued" \notin {tx[S].end, tx[S].stale} \/ Arg = 1
        /\ Then(<<>>) /\ UNCHANGED <<stream, tx>>
  /\ UNCHANGED <<net, rx, active, faults, seen>>

\* outgoingHttp2Service: sending has rules of its own after the stream has been reset or closed.
PumpFilter ==
  /\ Do("PumpFilter")
  /\ \/ /\ ~net.error /\ Fault(TRUE)      \* the window is closed
        /\ net' = [net EXCEPT !.stalled = TRUE]
        /\ Then(<<>>) /\ UNCHANGED <<stream, tx>>
     \/ /\ net.error \/ stream[S].destroyed
        /\ tx' = [tx EXCEPT ![S].end = "dropped"]
        /\ Then(<<>>) /\ UNCHANGED <<net, stream, faults>>
     \/ /\ ~net.error /\ ~stream[S].destroyed /\ stream[S].h2 \in {"local", "closed", "error"}
        /\ tx' = [tx EXCEPT ![S].end = "dropped"]
        /\ stream' = [stream EXCEPT ![S].h2 = "error"]
        /\ net' = [net EXCEPT !.goaway = TRUE]
        /\ Then(<<>>) /\ UNCHANGED faults
     \/ /\ ~net.error /\ ~stream[S].destroyed /\ stream[S].h2 \in {"idle", "open", "remote"}
        /\ IF stream[S].disconnect
           THEN /\ tx' = [tx EXCEPT ![S].end = "dropped"] /\ UNCHANGED stream /\ Then(Run("SendReset"))
           ELSE /\ tx' = [tx EXCEPT ![S].end = "socket"]
                /\ stream' = [stream EXCEPT ![S].h2 = IF @ = "remote" THEN "closed" ELSE "local"]
                /\ Then(Run("Send"))
        /\ UNCHANGED <<net, faults>>
  /\ UNCHANGED <<rx, active, seen>>

SendReset ==
  /\ Do("SendReset")
  /\ IF stream[S].destroyed THEN UNCHANGED <<net, stream>> /\ Then(<<>>)
     ELSE IF stream[S].h2 = "error"
          THEN net' = [net EXCEPT !.goaway = TRUE] /\ UNCHANGED stream /\ Then(<<>>)
          ELSE stream' = [stream EXCEPT ![S].h2 = "closed"] /\ UNCHANGED net /\ Then(Error(S, Soft))
  /\ UNCHANGED <<rx, tx, active, faults, seen>>

\* netOutgoingService: the write ends the transmission, waits for the socket, or fails.
Send ==
  /\ Do("Send")
  /\ \/ /\ net.blocked \/ ~AtSocket(S)
        /\ Then(<<>>) /\ UNCHANGED <<net, tx, faults>>
     \/ /\ ~net.blocked /\ ~net.closed /\ AtSocket(S)
        /\ tx' = [tx EXCEPT ![S].stale = IF @ = "socket" THEN "none" ELSE @,
                            ![S].end = IF tx[S].stale # "socket" THEN "sent" ELSE @]
        /\ Then(Run("FinalizeConnector")) /\ UNCHANGED <<net, faults>>
     \/ /\ ~net.blocked /\ ~net.closed /\ AtSocket(S) /\ Fault(TRUE)
        /\ net' = [net EXCEPT !.blocked = TRUE]
        /\ Then(When("write" \notin net.mask, Run("Enable"))) /\ UNCHANGED tx
     \/ /\ ~net.blocked /\ AtSocket(S) /\ Fault(~net.closed)
        /\ Then(Run("NetError") \o ForAll("Free") \o Run("Enable")) /\ UNCHANGED <<net, tx>>
  /\ UNCHANGED <<stream, rx, active, seen>>

\* freeNetPackets after a failed write
Free ==
  /\ Do("Free")
  /\ tx' = [tx EXCEPT ![S].end = IF @ = "socket" THEN "dropped" ELSE @, ![S].stale = IF @ = "socket" THEN "none" ELSE @]
  /\ Then(When(AtSocket(S), Run("FinalizeConnector")))
  /\ UNCHANGED <<net, stream, rx, active, faults, seen>>

-----------------------------------------------------------------------------
(* net.c and netConnector.c *)

\* httpServiceNet
ServiceNet == <<Call("Service", 1, 0), Call("ServiceEnd", 1, 0), Call("Idle", 1, 0)>>

ServiceEnd ==
  /\ Do("ServiceEnd")
  /\ Then(IF net.error \/ net.eof \/ (net.goaway /\ ~net.blocked)
          THEN ForAll("CloseStream") \o Run("DestroyNet") ELSE Run("Enable"))
  /\ UNCHANGED <<net, stream, rx, tx, active, faults, seen>>

Idle ==
  /\ Do("Idle")
  /\ net' = [net EXCEPT !.active = FALSE]
  /\ Then(<<>>)
  /\ UNCHANGED <<stream, rx, tx, active, faults, seen>>

\* closeStreams: an error for what is not complete, then on to COMPLETE.
CloseStream ==
  /\ Do("CloseStream")
  /\ rx' = [rx EXCEPT ![S].eof = @ \/ Listed(S)]
  /\ Then(When(Listed(S) /\ stream[S].state > Begin,
               When(stream[S].state < Parsed \/ ~tx[S].finOut \/ ~tx[S].finIn, Error(S, Silent))
               \o Run("Abandon")))
  /\ UNCHANGED <<net, stream, tx, active, faults, seen>>

Abandon ==
  /\ Do("Abandon")
  /\ Then(When(stream[S].state \in (Begin + 1)..(Complete - 1), SetTo(S, Complete)))
  /\ UNCHANGED <<net, stream, rx, tx, active, faults, seen>>

\* httpDestroyNet
DestroyNet ==
  /\ Do("DestroyNet")
  /\ Then(ForAll("RemoveStream") \o Run("Destroyed"))
  /\ UNCHANGED <<net, stream, rx, tx, active, faults, seen>>

RemoveStream ==
  /\ Do("RemoveStream")
  /\ Then(When(Listed(S), Run("Abandon") \o Run("DestroyStream")))
  /\ UNCHANGED <<net, stream, rx, tx, active, faults, seen>>

Destroyed ==
  /\ Do("Destroyed")
  /\ net' = [net EXCEPT !.destroyed = TRUE]
  /\ Then(<<>>)
  /\ UNCHANGED <<stream, rx, tx, active, faults, seen>>

Left == Work # {} \/ \E s \in Streams : AtSocket(s)       \* is there output to send?

\* What the socket did not take is not waited for.
Mask_Unwritten ==
  {e \in {"read", "write"} :
     \/ e = "write" /\ ~net.error /\ ~net.eof /\ Work # {}
     \/ e = "read" /\ (~Http1 \/ net.error \/ stream[1].state < Ready \/ stream[1].state = Complete)}

\* httpEnableNetEvents with httpGetNetEventMask: an HTTP/1 request that is being served is not read from.
Mask ==
  {e \in {"read", "write"} :
     \/ e = "write" /\ ~net.error /\ ~net.eof /\ Left
     \/ e = "read" /\ (~Http1 \/ net.error \/ stream[1].state < Ready \/ stream[1].state = Complete)}

Enable ==
  /\ Do("Enable")
  /\ net' = [net EXCEPT !.mask = IF net.destroyed THEN @ ELSE Mask]
  /\ Then(<<>>)
  /\ UNCHANGED <<stream, rx, tx, active, faults, seen>>

-----------------------------------------------------------------------------
(* http1Filter.c and http2Filter.c *)

\* parseHeaders1: the header is not complete, too large, or its line is bad; the fields are parsed in any other case.
ParseLine ==
  /\ Do("Line")
  /\ \/ Then(<<>>) /\ UNCHANGED faults
     \/ Fault(TRUE) /\ (Then(Error(S, Close)) \/ Then(Error(S, Close) \o Run("Fields")))
     \/ Then(SetTo(S, First) \o Run("Fields")) /\ UNCHANGED faults
  /\ UNCHANGED <<net, stream, rx, tx, active, seen>>

ParseFields ==
  /\ Do("Fields")
  /\ \/ Fault(~stream[S].error) /\ Then(Error(S, Close))
     \/ UNCHANGED faults /\ Then(SetTo(S, Parsed))
  /\ UNCHANGED <<net, stream, rx, tx, active, seen>>

\* incomingHttp2, when the handler of a frame has returned and its effects have been serviced
FrameDone ==
  /\ Do("FrameDone")
  /\ Then(When(stream[S].disconnect /\ ~stream[S].destroyed, Run("SendReset")) \o Run("FrameClosed"))
  /\ UNCHANGED <<net, stream, rx, tx, active, faults, seen>>

FrameClosed ==
  /\ Do("FrameClosed")
  /\ Then(When(stream[S].h2 = "closed", Run("DestroyStream")))
  /\ UNCHANGED <<net, stream, rx, tx, active, faults, seen>>

Step ==
  \/ SetState \/ Update \/ Kick \/ ProcessFirst \/ ProcessHeaders \/ ProcessParsed \/ ProcessContent \/ InputEnd
  \/ ProcessReady \/ ProcessFinalized \/ RaiseError \/ Redirect \/ AfterError \/ NetError \/ Fail
  \/ Finalize \/ FinalizeOutput \/ FinalizeInput \/ CheckFinalized \/ SetFinalized \/ FinalizeConnector
  \/ Disconnect \/ Hang \/ DestroyStream \/ Route \/ Open \/ Revert \/ StartHandler \/ Pending \/ ReadyHandler
  \/ Service \/ PumpIn \/ PumpFile \/ Filed \/ PumpOut \/ PumpFilter \/ SendReset \/ Send \/ Free
  \/ ServiceEnd \/ Idle \/ CloseStream \/ Abandon \/ DestroyNet \/ RemoveStream \/ Destroyed \/ Enable
  \/ ParseLine \/ ParseFields \/ FrameDone \/ FrameClosed

-----------------------------------------------------------------------------
(* Events: the dispatcher runs a callback of the connection. *)

Quiet == todo = <<>> /\ ~net.destroyed
Readable == Quiet /\ "read" \in net.mask /\ ~net.closed

\* httpIOEvent: what the event has found, then httpServiceNet
IOEvent(calls) == todo' = calls \o ServiceNet
Activate == net' = [net EXCEPT !.active = TRUE]

\* httpReadIO: a header on a new connection, or on one that has been kept alive: httpResetServerStream
ReadHeader ==
  /\ Readable /\ Http1
  /\ \/ /\ stream[1].state < Parsed
        /\ IOEvent(When(stream[1].state = 0, SetTo(1, Begin)) \o <<Call("Line", 1, 0)>>)
        /\ Activate /\ UNCHANGED <<stream, rx, tx, seen>>
     \/ /\ stream[1].state = Complete /\ stream[1].keep = 0
        /\ net' = [net EXCEPT !.error = TRUE, !.active = TRUE]
        /\ IOEvent(<<>>) /\ UNCHANGED <<stream, rx, tx, seen>>
     \/ /\ stream[1].state = Complete /\ stream[1].keep > 0
        /\ stream' = [stream EXCEPT ![1].state = 0, ![1].target = 0, ![1].error = FALSE, ![1].completed = FALSE,
                                    ![1].timer = "none"]
        /\ rx' = [rx EXCEPT ![1] = FreshRx(1)]
        /\ tx' = [tx EXCEPT ![1] = FreshTx]
        /\ seen' = [seen EXCEPT ![1] = Unseen]
        /\ IOEvent(SetTo(1, Begin) \o <<Call("Line", 1, 0)>>) /\ Activate
  /\ UNCHANGED <<active, faults>>

\* incomingChunk: the end of the body, with more than the body or not, or a body that is refused
ReadBody ==
  /\ Readable /\ Http1 /\ stream[1].state = Content /\ rx[1].more /\ ~rx[1].inputEnded
  /\ \/ /\ rx' = [rx EXCEPT ![1].more = FALSE]
        /\ \E extra \in BOOLEAN : /\ Fault(extra)
                                /\ stream' = [stream EXCEPT ![1].keep = IF extra THEN 0 ELSE @]
        /\ IOEvent(<<Call("InputEnd", 1, 0)>>)
     \/ Fault(TRUE) /\ IOEvent(Error(1, Close)) /\ UNCHANGED <<stream, rx>>
  /\ Activate /\ UNCHANGED <<tx, active, seen>>

\* parseHeaderFrame.  A header that cannot be accepted without an answer resets the stream.
ReadHeaders(s) ==
  /\ Readable /\ ~Http1 /\ ~net.goaway
  /\ stream[s].state = 0 /\ \A r \in 1..(s - 1) : stream[r].state > 0
  /\ \E last, rejected \in BOOLEAN :
       /\ Fault(rejected)
       /\ stream' = [stream EXCEPT ![s].h2 = IF last THEN "remote" ELSE "open", ![s].error = rejected]
       /\ IOEvent(SetTo(s, Begin)
                  \o (IF rejected THEN <<Call("SendReset", s, 0)>>
                      ELSE When(last, <<Call("InputEnd", s, 0)>>) \o SetTo(s, Parsed))
                  \o <<Call("Service", s, 0), Call("FrameDone", s, 0)>>)
  /\ Activate /\ UNCHANGED <<rx, tx, active, seen>>

\* parseDataFrame with END_STREAM; the body may be over its limit.
ReadData(s) ==
  /\ Readable /\ ~Http1 /\ Listed(s) /\ stream[s].h2 \in {"open", "local"} /\ ~rx[s].inputEnded
  /\ stream' = [stream EXCEPT ![s].h2 = IF @ = "open" THEN "remote" ELSE "closed"]
  /\ \E ok \in BOOLEAN :
       Fault(~ok) /\ IOEvent((IF ok THEN <<Call("InputEnd", s, 0)>> ELSE Error(s, Close))
               \o <<Call("Service", s, 0), Call("FrameDone", s, 0)>>)
  /\ Activate /\ UNCHANGED <<rx, tx, active, seen>>

\* parseResetFrame
ReadReset(s) ==
  /\ Readable /\ ~Http1 /\ Listed(s) /\ Fault(TRUE)
  /\ stream' = [stream EXCEPT ![s].h2 = IF @ = "error" THEN @ ELSE "closed"]
  /\ IOEvent(<<Call("Service", s, 0), Call("FrameDone", s, 0)>>)
  /\ Activate /\ UNCHANGED <<rx, tx, active, seen>>

\* The queue stays suspended.
ReadWindow_Suspended ==
  /\ Readable /\ net.stalled
  /\ net' = [net EXCEPT !.active = TRUE]
  /\ IOEvent(<<>>)
  /\ UNCHANGED <<stream, rx, tx, active, faults, seen>>

\* parseWindowFrame for the connection
ReadWindow ==
  /\ Readable /\ net.stalled
  /\ net' = [net EXCEPT !.stalled = FALSE, !.active = TRUE]
  /\ IOEvent(<<>>)
  /\ UNCHANGED <<stream, rx, tx, active, faults, seen>>

PeerClose ==
  /\ Readable /\ Fault(TRUE)
  /\ net' = [net EXCEPT !.eof = TRUE, !.active = TRUE]
  /\ IOEvent(<<>>)
  /\ UNCHANGED <<stream, rx, tx, active, seen>>

Writable ==
  /\ Quiet /\ "write" \in net.mask /\ ~net.closed
  /\ net' = [net EXCEPT !.blocked = FALSE, !.active = TRUE]
  /\ IOEvent(<<>>)
  /\ UNCHANGED <<stream, rx, tx, active, faults, seen>>

\* The event does not find the end of the input.
Hangup_Unseen ==
  /\ Quiet /\ net.closed /\ net.mask # {}
  /\ net' = [net EXCEPT !.blocked = FALSE, !.active = TRUE]
  /\ IOEvent(<<>>)
  /\ UNCHANGED <<stream, rx, tx, active, faults, seen>>

\* The event that mprDisconnectSocket provokes, if there is a mask
Hangup ==
  /\ Quiet /\ net.closed /\ net.mask # {}
  /\ net' = [net EXCEPT !.eof = @ \/ "read" \in net.mask, !.blocked = FALSE, !.active = TRUE]
  /\ IOEvent(<<>>)
  /\ UNCHANGED <<stream, rx, tx, active, faults, seen>>

\* httpTimer finds a request that is late: httpStreamTimeout queues an event, once.
HttpTimer(s) ==
  /\ Quiet /\ Listed(s) /\ stream[s].timer = "none"
  /\ stream' = [stream EXCEPT ![s].timer = "queued"] /\ Fault(TRUE)
  /\ UNCHANGED <<net, rx, tx, active, todo, seen>>

\* streamTimeout
StreamTimeout(s) ==
  /\ Quiet /\ stream[s].timer = "queued"
  /\ stream' = [stream EXCEPT ![s].timer = "fired"]
  /\ seen' = [seen EXCEPT ![s].late = TRUE]
  /\ todo' = IF stream[s].destroyed THEN <<>>
             ELSE IF stream[s].state < First \/ stream[s].state = Complete
                  THEN <<Call("Disconnect", s, 0)>>
                  ELSE Error(s, IF Http1 THEN Close ELSE Soft)
  /\ UNCHANGED <<net, rx, tx, active, faults>>

\* netTimeout, which httpNetTimeout queues once
NetTimeout ==
  /\ Quiet /\ ~net.timer
  /\ net' = [net EXCEPT !.timer = TRUE, !.closed = TRUE]
  /\ todo' = <<Call("Enable", 1, 0)>>
  /\ UNCHANGED <<stream, rx, tx, active, faults, seen>>

\* cgiCallback: output or a redirection, then the end of the program.  The queues are serviced, and an event is
\* queued that has the connection serviced.
CgiCall(calls) == todo' = calls \o <<Call("Service", 1, 0)>> /\ net' = [net EXCEPT !.recall = TRUE]

CgiOutput(s) ==
  /\ Quiet /\ tx[s].working /\ ~tx[s].finOut /\ ~tx[s].headers
  /\ \/ /\ tx' = [tx EXCEPT ![s].headers = TRUE]
        /\ stream' = Spend(s)
        /\ CgiCall(<<>>)
     \/ CgiCall(<<Call("Finalize", s, 0)>>) /\ UNCHANGED <<stream, tx>>
  /\ UNCHANGED <<rx, active, faults, seen>>

CgiEnd(s) ==
  /\ Quiet /\ tx[s].working
  /\ tx' = [tx EXCEPT ![s].working = FALSE]
  /\ \E ok \in BOOLEAN : Fault(~ok) /\ CgiCall(When(~ok, Error(s, Soft)) \o <<Call("Finalize", s, 0)>>)
  /\ UNCHANGED <<stream, rx, active, seen>>

Recall ==
  /\ Quiet /\ net.recall
  /\ net' = [net EXCEPT !.recall = FALSE, !.active = TRUE]
  /\ IOEvent(<<>>)
  /\ UNCHANGED <<stream, rx, tx, active, faults, seen>>

\* The connection is gone.
Done == net.destroyed /\ todo = <<>> /\ UNCHANGED vars

Event ==
  \/ ReadHeader \/ ReadBody \/ ReadWindow \/ PeerClose \/ Writable \/ Hangup \/ NetTimeout \/ Recall
  \/ \E s \in Streams : ReadHeaders(s) \/ ReadData(s) \/ ReadReset(s) \/ HttpTimer(s) \/ StreamTimeout(s)
                        \/ CgiOutput(s) \/ CgiEnd(s)

Init ==
  /\ \E proto \in Protocols :
       /\ net = [proto |-> proto, eof |-> FALSE, error |-> FALSE, active |-> FALSE, mask |-> {"read"},
                 closed |-> FALSE, blocked |-> FALSE, stalled |-> FALSE, goaway |-> FALSE, timer |-> FALSE,
                 recall |-> FALSE, destroyed |-> FALSE]
       /\ stream = [s \in Streams |-> FreshStream(IF proto = 1 THEN KeepAlive ELSE 0)]
       /\ rx = [s \in Streams |-> FreshRx(proto)]
  /\ tx = [s \in Streams |-> FreshTx]
  /\ active = 0 /\ todo = <<>> /\ faults = 0
  /\ seen = [s \in Streams |-> Unseen]

Next == Step \/ Event \/ Done
Spec == Init /\ [][Next]_vars

\* The scheduling of the dispatcher; programs end, and the peer reads as long as it is connected.
\* Nothing is assumed of the timers.
FairSpec ==
  /\ Spec
  /\ []<>(todo = <<>>) \/ []<><<Step>>_vars
  /\ WF_vars(Writable) /\ WF_vars(Hangup) /\ WF_vars(Recall) /\ WF_vars(ReadWindow) /\ \A s \in Streams : WF_vars(CgiEnd(s))

-----------------------------------------------------------------------------
(* Properties *)

Resting == todo = <<>>

\* The counter of active requests, by which clients are limited, is exact: a request counts from its first line
\* to its end, however often an error starts it anew as the request of an error document.
\* (processFirst, processFinalized, httpDestroyStream)
ActiveExact ==
  /\ active = Cardinality({s \in Streams : stream[s].counted})
  /\ \A s \in Streams : /\ stream[s].state \in First..Running => stream[s].counted
                        /\ stream[s].counted /\ Resting => stream[s].state \in First..Finalized

\* Before an HTTP/1 connection may be used again the response of the last request has been written.
\* (checkFinalized, httpReadIO)
AnsweredFirst ==
  Resting /\ Http1 /\ stream[1].state = Complete /\ ~net.error /\ ~net.eof /\ ~net.destroyed
    => tx[1].end = "sent"

\* Whatever happened to it, a request whose stream rests in COMPLETE has been through all states, in CONTENT unless
\* it was aborted, and was reported DONE once; no request is reported DONE twice. An HTTP/2 stream that has been
\* destroyed is the exception: it is gone without a report. (the notifier in httpSetState, processComplete)
AllVisited ==
  \A s \in Streams :
    /\ seen[s].done <= 1
    /\ Resting /\ stream[s].state = Complete /\ ~stream[s].destroyed
         => /\ seen[s].done = 1
            /\ (Begin..Complete) \ seen[s].states \subseteq (IF stream[s].disconnect THEN {Content} ELSE {})

\* A handler that was opened is open until its request is complete and no longer. (httpClosePipeline)
HandlerClosed ==
  \A s \in Streams : tx[s].opened \/ tx[s].working => stream[s].state \in Parsed..Finalized

\* When the dispatcher comes to rest, there is an event to wait for whatever output is left: only the timeout of a
\* request leaves a response behind that nobody sends. (httpGetNetEventMask, streamTimeout)
OutputAwaited ==
  Resting /\ ~net.destroyed /\ ~net.closed /\ Left
    => "write" \in net.mask \/ net.recall \/ \E s \in Streams : seen[s].late

\* A request that has come whole is over some day without the help of a timeout, but for one of HTTP/2 that is
\* aborted: its stream is reset and stays. (httpSetState, the pipeline, incomingHttp2)
Served ==
  \A s \in Streams :
    (stream[s].state \in Ready..Finalized)
      ~> (\/ stream[s].state \notin Ready..Finalized \/ (~Http1 /\ stream[s].disconnect)
          \/ seen[s].late \/ net.timer)

\* A connection whose timeout has fired goes away, and takes its requests out of the count. (netTimeout, httpDestroyNet)
TimeoutDestroys == net.timer ~> (net.destroyed /\ active = 0)
=============================================================================
