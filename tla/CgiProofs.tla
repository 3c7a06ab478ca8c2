------------------------------ MODULE CgiProofs ------------------------------
(***************************************************************************)
(* Proofs about Cgi, for any requests and scripts and any sizes of the     *)
(* pipe and the queues: what the run checks of a response and of what is   *)
(* left of a request, from one inductive invariant.                        *)
(***************************************************************************)
EXTENDS Cgi, TLAPS, FiniteSetTheorems, SequenceTheorems

USE DEF In, Out, Err, Channels, END

-----------------------------------------------------------------------------
(* The inductive invariant *)

Client == [mode : {"stream", "form", "chunked"}, left : Nat, ended : BOOLEAN, gone : BOOLEAN]
Process ==
  [state : {"none", "running", "exited", "reaped"}, status : {0, 1}, sig : {"none", "term", "kill"},
   out : Nat, length : Nat \cup {-1}, location : BOOLEAN, head : 0 .. 2, wrote : Nat,
   eof : BOOLEAN, open : SUBSET Channels]
Command ==
  [pid : BOOLEAN, status : {-1, 0, 1}, fd : SUBSET Channels, handlers : SUBSET Channels,
   on : SUBSET Channels, eofCount : 0 .. 2, complete : BOOLEAN, signal : BOOLEAN, callback : BOOLEAN]
Handler ==
  [state : {"open", "closed"}, started : BOOLEAN, defer : BOOLEAN, cmd : BOOLEAN, seenHeader : BOOLEAN,
   location : BOOLEAN, bodyBytes : Nat]
Stream ==
  [error : BOOLEAN, input : BOOLEAN, output : BOOLEAN, connector : BOOLEAN, created : BOOLEAN,
   redirected : BOOLEAN, suspended : BOOLEAN]
Place == [at : {"idle", "start", "serve", "after", "reset", "short", Out, Err}, then : {"idle", "short"}]
Packet == {"data", END}
Queue == [packets : Seq(Packet), suspended : BOOLEAN]
Output == {"part", "head", "data"}

ClientTyped == client \in Client
ScriptTyped == script \in Process
CmdTyped == cmd \in Command
CgiTyped == cgi \in Handler
StreamTyped == stream \in Stream
PlaceTyped == pc \in Place
EventsTyped == sched \subseteq {"cgiq", "writeq"} /\ events \subseteq Channels \cup {"sigchld", "child"}
PipeTyped == pipe \in [Channels -> Seq(Output)]
CgiqTyped == cgiq \in Queue
ResponseTyped == writeq \in Queue /\ down \in Seq(Packet)

\* What the steps rely on
States == ScriptTyped /\ CmdTyped /\ CgiTyped /\ StreamTyped /\ PlaceTyped

\* The n-th unit that the script writes to its output
Item(n) == IF n = 1 THEN "part" ELSE IF n = 2 THEN "head" ELSE "data"

\* What is in the pipe is the last of what the script wrote.
Written ==
  /\ script.wrote > 0 => script.head = 2
  /\ script.head + script.wrote >= Len(pipe[Out])
  /\ \A i \in 1 .. Len(pipe[Out]) : pipe[Out][i] = Item(script.head + script.wrote - Len(pipe[Out]) + i)

\* What has been passed on is what it wrote, but for what is in the pipe.
Passed ==
  \/ Closed \/ stream.error \/ stream.output
  \/ cgi.bodyBytes = IF Len(pipe[Out]) <= script.wrote THEN script.wrote - Len(pipe[Out]) ELSE 0

\* Descriptors, handlers, and the count of the outputs that have ended
Ends(fd) == (IF Out \in fd THEN 0 ELSE 1) + (IF Err \in fd THEN 0 ELSE 1)
Descriptors ==
  /\ cmd.on \subseteq cmd.handlers /\ cmd.handlers \subseteq cmd.fd
  /\ (cmd.fd = {} /\ cmd.eofCount = 0) \/ cmd.eofCount = Ends(cmd.fd)
  /\ cmd.complete => cmd.eofCount = 2

\* The response is decided when the output has ended.
Decided == cmd.eofCount > 0 /\ Out \notin cmd.fd => Closed \/ stream.error \/ stream.output

\* There is a process until it is reaped.
Processes == cmd.pid <=> script.state \in {"running", "exited"}

\* Before the start, and while it is deferred
Fresh == script.state = "none" /\ ~cmd.signal /\ cmd.fd = {} /\ cmd.eofCount = 0 /\ ~cgi.seenHeader
Before ==
  /\ ~cgi.started \/ cgi.defer => pc.at # "start"
  /\ ~cgi.started => ~cgi.defer
  /\ ~cgi.started \/ cgi.defer \/ At("start") => Fresh /\ ~cgi.cmd
  /\ At("start") => pc.then = "idle" /\ cgi.state = "open"

\* While a command is destroyed, and when there is none
Gone == script.state \in {"none", "reaped"} \/ script.sig = "kill"
Quiet == cmd.fd = {} /\ ~cmd.signal /\ Gone
After ==
  /\ pc.at \in {Out, Err} => cgi.state = "open"
  /\ ~cgi.cmd => cmd.fd = {} /\ (At("reset") \/ Quiet)
  /\ At("reset") => cmd.fd = {} /\ script.sig # "none" /\ cmd.pid /\ (pc.then = "short" \/ ~cgi.cmd)
  /\ pc.then = "short" \/ At("short") => cmd.fd = {} /\ stream.error /\ (At("reset") \/ Quiet)
  /\ Closed => ~cgi.cmd

\* The end of the body comes once, and last; a body that ends too soon has no other end.
Short == pc.then = "short" \/ At("short")
EndLast ==
  /\ Short => client.ended
  /\ \A i \in DOMAIN cgiq.packets :
       cgiq.packets[i] = END => i = Len(cgiq.packets) /\ client.ended /\ ~Short

\* A location comes from the script.
Located == cgi.location => script.location

\* No pipe holds more than it can, and the script writes what it was to write.
Bounds == (\A c \in Channels : Len(pipe[c]) <= PipeSize) /\ script.wrote <= script.out

IInv ==
  /\ ClientTyped /\ ScriptTyped /\ CmdTyped /\ CgiTyped /\ StreamTyped /\ PlaceTyped
  /\ EventsTyped /\ PipeTyped /\ CgiqTyped /\ ResponseTyped
  /\ Descriptors /\ Decided /\ Processes /\ Before /\ After
  /\ Written /\ Passed /\ EndLast /\ Located /\ Bounds /\ ResponseWhole

\* What has been said stays said.
Lasting ==
  /\ stream.error => stream'.error
  /\ stream.output => stream'.output
  /\ stream.redirected => stream'.redirected

-----------------------------------------------------------------------------
(* The command *)

\* A descriptor that is closed: the end of an output counts once.
LEMMA CloseCmdFdIs ==
  ASSUME CmdTyped, Descriptors, NEW ch \in Channels, NEW c, c = CloseCmdFd(ch)
  PROVE  /\ c \in Command
         /\ c.fd = cmd.fd \ {ch} /\ c.on \subseteq c.handlers /\ c.handlers \subseteq c.fd
         /\ c.eofCount = cmd.eofCount + (IF ch \in cmd.fd /\ ch # In THEN 1 ELSE 0)
         /\ c.pid = cmd.pid /\ c.signal = cmd.signal /\ c.callback = cmd.callback /\ c.status = cmd.status
         /\ c.complete => c.eofCount = 2
         /\ (c.fd = {} /\ c.eofCount = 0) \/ c.eofCount = Ends(c.fd)
<1> DEFINE e == cmd.eofCount + (IF ch \in cmd.fd /\ ch # In THEN 1 ELSE 0)
           d == [cmd EXCEPT !.handlers = @ \ {ch}, !.on = @ \ {ch}, !.fd = @ \ {ch},
                            !.eofCount = IF ch \in cmd.fd /\ ch # In THEN @ + 1 ELSE @]
<1>1. (cmd.fd \ {ch} = {} /\ e = 0) \/ e = Ends(cmd.fd \ {ch})
  BY DEF CmdTyped, Command, Descriptors, Ends
<1>2. e \in 0 .. 2 /\ (cmd.complete => e = 2)
  BY <1>1 DEF CmdTyped, Command, Descriptors, Ends
<1>3. /\ d.fd = cmd.fd \ {ch} /\ d.on = cmd.on \ {ch} /\ d.handlers = cmd.handlers \ {ch} /\ d.eofCount = e
      /\ d.pid = cmd.pid /\ d.signal = cmd.signal /\ d.callback = cmd.callback /\ d.status = cmd.status
      /\ d.complete = cmd.complete
  BY DEF CmdTyped, Command
<1>4. d \in Command
  BY <1>2 DEF CmdTyped, Command
<1>5. c = d \/ (c = Completed(d) /\ d.eofCount >= 2)
  BY DEF CloseCmdFd
<1> HIDE DEF d
<1>6. CASE c = d
  BY <1>1, <1>2, <1>3, <1>4, <1>6 DEF Descriptors
<1>7. CASE c = Completed(d) /\ d.eofCount >= 2
  <2>1. c \in Command /\ c.handlers = {} /\ c.on = {} /\ c.fd = d.fd /\ c.eofCount = d.eofCount
    BY <1>4, <1>7 DEF Completed, Command
  <2>2. c.pid = d.pid /\ c.signal = d.signal /\ c.callback = d.callback /\ c.status = d.status
    BY <1>4, <1>7 DEF Completed, Command
  <2> QED
    BY <1>1, <1>2, <1>3, <1>7, <2>1, <2>2
<1> QED
  BY <1>5, <1>6, <1>7

\* What mprEnableCmdEvents and its like leave alone
Alike(c, d) ==
  /\ c \in Command /\ c.on \subseteq c.handlers /\ c.handlers = d.handlers /\ c.fd = d.fd
  /\ c.eofCount = d.eofCount /\ c.complete = d.complete /\ c.pid = d.pid /\ c.signal = d.signal

\* ... for the output channels
LEMMA EnableOutputIs ==
  ASSUME NEW c \in Command, c.on \subseteq c.handlers, NEW b \in BOOLEAN
  PROVE  Alike(EnableOutput(c, b), c)
BY DEF EnableOutput, Alike, Command

\* ... for the input channel
LEMMA EnableInputIs ==
  ASSUME NEW c \in Command, c.on \subseteq c.handlers, NEW b \in BOOLEAN
  PROVE  Alike(EnableInput(c, b), c)
BY DEF EnableInput, Alike, Command

\* reapCmd: the process is gone, and the handler of its signal
LEMMA ReapedIs ==
  ASSUME CmdTyped, ScriptTyped, Descriptors
  PROVE  /\ Reaped \in Command /\ Reaped.fd = cmd.fd /\ Reaped.eofCount = cmd.eofCount
         /\ Reaped.on \subseteq Reaped.handlers /\ Reaped.handlers \subseteq Reaped.fd
         /\ ~Reaped.pid /\ ~Reaped.signal /\ (Reaped.complete => Reaped.eofCount = 2)
<1> DEFINE d == [cmd EXCEPT !.pid = FALSE, !.status = script.status, !.signal = FALSE]
<1>1. d \in Command
  BY DEF CmdTyped, Command, ScriptTyped, Process
<1>2. /\ d.fd = cmd.fd /\ d.eofCount = cmd.eofCount /\ d.on = cmd.on /\ d.handlers = cmd.handlers
      /\ ~d.pid /\ ~d.signal /\ d.complete = cmd.complete
  BY DEF CmdTyped, Command
<1>3. Reaped = d \/ (Reaped = Completed(d) /\ d.eofCount >= 2)
  BY DEF Reaped
<1> HIDE DEF d
<1>4. CASE Reaped = d
  BY <1>1, <1>2, <1>4 DEF Descriptors
<1>5. CASE Reaped = Completed(d) /\ d.eofCount >= 2
  <2>1. /\ Reaped \in Command /\ Reaped.handlers = {} /\ Reaped.on = {} /\ Reaped.fd = d.fd
        /\ Reaped.eofCount = d.eofCount /\ Reaped.pid = d.pid /\ Reaped.signal = d.signal
    BY <1>1, <1>5 DEF Completed, Command
  <2>2. d.eofCount \in 0 .. 2
    BY <1>1 DEF Command
  <2> QED
    BY <1>2, <1>5, <2>1, <2>2
<1> QED
  BY <1>3, <1>4, <1>5

\* mprStartCmd: all the pipes, and none has ended.
LEMMA StartedIs ==
  ASSUME CmdTyped, NEW b \in BOOLEAN
  PROVE  /\ Started(b) \in Command /\ Started(b).pid = b
         /\ Started(b).fd = Channels /\ Started(b).handlers = Channels /\ Started(b).on = Channels
         /\ Started(b).eofCount = 0 /\ ~Started(b).complete
<1>1. Started(b) \in Command
  <2>1. PICK all \in SUBSET Channels, zero \in 0 .. 2, failed \in {-1, 0, 1}, yes \in BOOLEAN, no \in BOOLEAN :
          all = Channels /\ zero = 0 /\ failed = -1 /\ yes = TRUE /\ no = FALSE
    <3>1. Channels \in SUBSET Channels /\ 0 \in 0 .. 2 /\ -1 \in {-1, 0, 1} /\ TRUE \in BOOLEAN /\ FALSE \in BOOLEAN
      OBVIOUS
    <3> QED
      BY <3>1, Zenon
  <2>2. Started(b) = [cmd EXCEPT !.pid = b, !.status = failed, !.fd = all, !.handlers = all, !.on = all,
                                 !.eofCount = zero, !.complete = no, !.signal = yes, !.callback = yes]
    BY <2>1, Zenon DEF Started
  <2>3. [cmd EXCEPT !.pid = b, !.status = failed, !.fd = all, !.handlers = all, !.on = all,
                    !.eofCount = zero, !.complete = no, !.signal = yes, !.callback = yes] \in Command
    BY DEF CmdTyped, Command
  <2> QED
    BY <2>2, <2>3
<1> QED
  BY <1>1 DEF Started, CmdTyped, Command

\* resetCmd: nothing is left of the pipes and the wait handlers.
LEMMA ShutIs ==
  ASSUME CmdTyped
  PROVE  /\ Shut \in Command /\ [Shut EXCEPT !.callback = FALSE] \in Command
         /\ Shut.fd = {} /\ Shut.handlers = {} /\ Shut.on = {} /\ Shut.eofCount = 0 /\ ~Shut.complete
         /\ Shut.pid = cmd.pid /\ (cmd.pid \/ ~Shut.signal)
<1>1. Shut \in Command
  <2>1. PICK none \in SUBSET Channels, zero \in 0 .. 2, failed \in {-1, 0, 1}, no \in BOOLEAN, b \in BOOLEAN :
          none = {} /\ zero = 0 /\ failed = -1 /\ no = FALSE /\ b = (cmd.signal /\ cmd.pid)
    <3>1. {} \in SUBSET Channels /\ 0 \in 0 .. 2 /\ -1 \in {-1, 0, 1} /\ FALSE \in BOOLEAN
          /\ (cmd.signal /\ cmd.pid) \in BOOLEAN
      OBVIOUS
    <3> QED
      BY <3>1, Zenon
  <2>2. Shut = [cmd EXCEPT !.handlers = none, !.on = none, !.fd = none, !.eofCount = zero, !.complete = no,
                           !.status = failed, !.signal = b]
    BY <2>1, Zenon DEF Shut
  <2>3. [cmd EXCEPT !.handlers = none, !.on = none, !.fd = none, !.eofCount = zero, !.complete = no,
                    !.status = failed, !.signal = b] \in Command
    BY DEF CmdTyped, Command
  <2> QED
    BY <2>2, <2>3
<1>2. /\ Shut.fd = {} /\ Shut.handlers = {} /\ Shut.on = {} /\ Shut.eofCount = 0 /\ ~Shut.complete
      /\ Shut.pid = cmd.pid /\ (cmd.pid \/ ~Shut.signal)
  BY DEF Shut, CmdTyped, Command
<1>3. [Shut EXCEPT !.callback = FALSE] \in Command
  BY <1>1 DEF Command
<1> QED
  BY <1>1, <1>2, <1>3

\* The error of a stream stays, and its output is finalized with it.
LEMMA RaiseIs ==
  ASSUME NEW st \in Stream, NEW queues, NEW close \in BOOLEAN, RaiseErrorOn(st, queues, close)
  PROVE  /\ stream' \in Stream /\ stream'.error /\ stream'.redirected = st.redirected
         /\ st.output => stream'.output
         /\ writeq' = writeq \/ writeq'.packets = <<>> \/ writeq'.packets = <<END>>
         /\ writeq \in Queue => writeq' \in Queue
         /\ sched' \subseteq queues \cup {"writeq"}
<1>1. CASE st.error
  BY <1>1 DEF RaiseErrorOn
<1>2. CASE ~st.error /\ st.created
  <2>1. stream' = [st EXCEPT !.error = TRUE, !.output = TRUE, !.input = TRUE, !.connector = TRUE]
    BY <1>2 DEF RaiseErrorOn
  <2>2. writeq' = [packets |-> <<>>, suspended |-> FALSE] /\ sched' = queues
    BY <1>2 DEF RaiseErrorOn
  <2>3. writeq' \in Queue
    BY <2>2 DEF Queue
  <2> QED
    BY <2>1, <2>2, <2>3 DEF Stream
<1>3. CASE ~st.error /\ ~st.created
  <2>1. stream' = [st EXCEPT !.error = TRUE, !.output = TRUE, !.input = @ \/ close]
    BY <1>3 DEF RaiseErrorOn
  <2>2. writeq' = [packets |-> <<END>>, suspended |-> FALSE] /\ sched' = queues \cup {"writeq"}
    BY <1>3 DEF RaiseErrorOn
  <2>3. <<END>> \in Seq(Packet)
    BY DEF Packet
  <2>4. writeq' \in Queue
    BY <2>2, <2>3 DEF Queue
  <2> QED
    BY <2>1, <2>2, <2>4 DEF Stream
<1> QED
  BY <1>1, <1>2, <1>3

\* The steps that enable, disable or take up events, and close the input at most
Adjusts ==
  /\ cmd'.fd \in {cmd.fd, cmd.fd \ {In}} /\ cmd'.eofCount = cmd.eofCount
  /\ cmd'.pid = cmd.pid /\ cmd'.signal = cmd.signal

\* The service of the queues, the end of cgiCallback and the delivery of an event do no more.
LEMMA AdjustsIs ==
  ASSUME CmdTyped, Descriptors,
         ServeCgi \/ ServeCgiBroken \/ ServeWriteq \/ AfterCallback \/ \E ch \in Channels : QueueIOEvent(ch)
  PROVE  Adjusts /\ CmdTyped' /\ Descriptors'
<1>1. PICK x : x = CloseCmdFd(In)
  OBVIOUS
<1>2. /\ x \in Command /\ x.fd = cmd.fd \ {In} /\ x.on \subseteq x.handlers /\ x.handlers \subseteq x.fd
      /\ x.eofCount = cmd.eofCount /\ x.pid = cmd.pid /\ x.signal = cmd.signal
      /\ x.complete => x.eofCount = 2
      /\ (x.fd = {} /\ x.eofCount = 0) \/ x.eofCount = Ends(x.fd)
  <2>1. In \in Channels
    OBVIOUS
  <2>2. cmd.eofCount + 0 = cmd.eofCount
    BY DEF CmdTyped, Command
  <2> QED
    BY <1>1, <2>1, <2>2, CloseCmdFdIs
<1>3. CASE \E b \in BOOLEAN : cmd' = EnableInput(x, b) \/ cmd' = EnableInput(cmd, b) \/ cmd' = EnableOutput(cmd, b)
  <2>1. Alike(cmd', x) \/ Alike(cmd', cmd)
    BY <1>2, <1>3, EnableInputIs, EnableOutputIs DEF CmdTyped, Descriptors
  <2> QED
    BY <1>2, <2>1 DEF Alike, Adjusts, CmdTyped, Descriptors
<1>4. CASE cmd' = x
  BY <1>2, <1>4 DEF Adjusts, CmdTyped, Descriptors
<1>5. CASE cmd' = cmd
  BY <1>5 DEF Adjusts, CmdTyped, Descriptors
<1>6. CASE ServeCgi
  <2> DEFINE rest == SubSeq(cgiq.packets, Writable + 1, Len(cgiq.packets))
             full == Units(rest) > 0
  <2>1. cmd' = EnableInput(IF full \/ rest = <<>> THEN cmd ELSE CloseCmdFd(In), full)
    BY <1>6 DEF ServeCgi
  <2>2. full \in BOOLEAN
    OBVIOUS
  <2> HIDE DEF rest, full
  <2>3. cmd' = EnableInput(cmd, full) \/ cmd' = EnableInput(x, full)
    BY <1>1, <2>1
  <2> QED
    BY <1>3, <2>2, <2>3
<1>7. CASE ServeCgiBroken
  BY <1>1, <1>4, <1>7 DEF ServeCgiBroken
<1>8. CASE ServeWriteq
  BY <1>3, <1>5, <1>8 DEF ServeWriteq
<1>9. CASE AfterCallback
  <2>1. (~writeq.suspended) \in BOOLEAN
    OBVIOUS
  <2> QED
    BY <1>3, <1>5, <1>9, <2>1 DEF AfterCallback
<1>10. ASSUME NEW ch \in Channels, QueueIOEvent(ch)
       PROVE  Adjusts /\ CmdTyped' /\ Descriptors'
  <2>1. cmd' = [cmd EXCEPT !.on = @ \ {ch}]
    BY <1>10 DEF QueueIOEvent
  <2> QED
    BY <2>1 DEF Adjusts, CmdTyped, Command, Descriptors
<1> QED
  BY <1>6, <1>7, <1>8, <1>9, <1>10

-----------------------------------------------------------------------------
(* Types *)

\* A stream keeps its types, and what has been said of it.
LEMMA StreamTypedStep ==
  ASSUME StreamTyped, CgiTyped, [Next]_vars
  PROVE  StreamTyped' /\ Lasting
<1>1. ASSUME Launch PROVE StreamTyped' /\ Lasting
  <2>1. CASE RaiseError(FALSE)
    BY <2>1, RaiseIs DEF RaiseError, StreamTyped, Lasting
  <2>2. CASE UNCHANGED stream
    BY <2>2 DEF StreamTyped, Lasting
  <2> QED
    BY <1>1, <2>1, <2>2 DEF Launch, streamVars
<1>2. ASSUME ServeCgi PROVE StreamTyped' /\ Lasting
  BY <1>2 DEF ServeCgi, At, Lasting, StreamTyped, Stream, CgiTyped, Handler
<1>3. ASSUME ServeCgiBroken PROVE StreamTyped' /\ Lasting
  <2>1. [stream EXCEPT !.suspended = FALSE] \in Stream
    BY DEF StreamTyped, Stream
  <2>2. RaiseErrorOn([stream EXCEPT !.suspended = FALSE], sched \ {"cgiq"}, FALSE)
    BY <1>3 DEF ServeCgiBroken
  <2>3. PICK st \in Stream : st = [stream EXCEPT !.suspended = FALSE]
    BY <2>1
  <2>4. st.error = stream.error /\ st.output = stream.output /\ st.redirected = stream.redirected
    BY <2>3 DEF StreamTyped, Stream
  <2> QED
    BY <2>2, <2>3, <2>4, RaiseIs DEF StreamTyped, Lasting
<1>4. ASSUME ServeWriteq PROVE StreamTyped' /\ Lasting
  BY <1>4 DEF ServeWriteq, At, EnableOutput, Lasting, StreamTyped, Stream, CgiTyped, Handler
<1>5. ASSUME ReadData PROVE StreamTyped' /\ Lasting
  <2>1. CASE RaiseError(TRUE)
    BY <2>1, RaiseIs DEF RaiseError, StreamTyped, Lasting
  <2>2. CASE UNCHANGED stream
    BY <2>2 DEF StreamTyped, Lasting
  <2> QED
    BY <1>5, <2>1, <2>2 DEF ReadData, streamVars
<1>6. ASSUME NEW ch \in {Out, Err}, ReadEnd(ch) PROVE StreamTyped' /\ Lasting
  <2>1. CASE RaiseError(TRUE) \/ RaiseError(FALSE)
    BY <2>1, RaiseIs DEF RaiseError, StreamTyped, Lasting
  <2>2. CASE UNCHANGED stream
    BY <2>2 DEF StreamTyped, Lasting
  <2>3. CASE FinalizeOutput
    BY <2>3 DEF FinalizeOutput, StreamTyped, Stream, Lasting
  <2> QED
    BY <1>6, <2>1, <2>2, <2>3 DEF ReadEnd, streamVars
<1>7. ASSUME AfterCallback PROVE StreamTyped' /\ Lasting
  <2>1. CASE UNCHANGED stream
    BY <2>1 DEF StreamTyped, Lasting
  <2>2. CASE Finalize(cgi.location)
    BY <2>2 DEF Finalize, StreamTyped, Stream, CgiTyped, Handler, Lasting
  <2> QED
    BY <1>7, <2>1, <2>2 DEF AfterCallback, streamVars
<1>8. ASSUME BrowserData PROVE StreamTyped' /\ Lasting
  BY <1>8 DEF BrowserData, MayReceive, Idle, PutToCgi, Goto, Lasting, StreamTyped, Stream, CgiTyped, Handler
<1>9. ASSUME BrowserEnd PROVE StreamTyped' /\ Lasting
  BY <1>9 DEF BrowserEnd, MayReceive, Idle, PutToCgi, Goto, Lasting, StreamTyped, Stream, CgiTyped, Handler
<1>10. ASSUME BrowserShort PROVE StreamTyped' /\ Lasting
  BY <1>10, RaiseIs DEF BrowserShort, RaiseError, StreamTyped, Lasting
<1>11. ASSUME NetSend PROVE StreamTyped' /\ Lasting
  BY <1>11 DEF NetSend, Idle, Goto, Lasting, StreamTyped, Stream, CgiTyped, Handler
<1>12. ASSUME ChildDeath PROVE StreamTyped' /\ Lasting
  <2>1. CASE RaiseError(FALSE)
    BY <2>1, RaiseIs DEF RaiseError, StreamTyped, Lasting
  <2>2. CASE UNCHANGED stream
    BY <2>2 DEF StreamTyped, Lasting
  <2> QED
    BY <1>12, <2>1, <2>2 DEF ChildDeath, streamVars
<1>13. ASSUME \/ ShortDone \/ ReapAtReset \/ KillAtReset \/ GiveUp \/ ServeCgiEarly \/ ServeDone
              \/ ReadStops \/ ReadPart \/ ReadHead \/ StartCgi \/ Close \/ StdinEvent
              \/ ServiceSignals \/ ScriptHeads \/ ScriptAnswers \/ ScriptReads
              \/ \E ch \in {Out, Err} : OutputEvent(ch)
              \/ \E ch \in Channels : QueueIOEvent(ch)
              \/ \E ch \in Channels : ScriptCloses(ch)
              \/ \E status \in {0, 1} : ScriptExits(status)
              \/ UNCHANGED vars
     PROVE  StreamTyped' /\ Lasting
  <2>1. UNCHANGED <<stream>>
    BY <1>13, SMT, ZenonT(60) DEF ShortDone, PutToCgi, ReapAtReset, Goto, streamVars, KillAtReset, GiveUp,
        ServeCgiEarly, ServeDone, ReadStops, ReadPart, Take, ReadHead, StartCgi, Close, Reset, StdinEvent,
            OutputEvent, QueueIOEvent, ServiceSignals, ScriptHeads, ScriptWrites, ScriptStep,
                ScriptAnswers, ScriptReads, ScriptCloses, ScriptExits, vars
  <2> QED
    BY <2>1 DEF Lasting, StreamTyped, Stream, CgiTyped, Handler
<1> QED
  BY <1>1, <1>2, <1>3, <1>4, <1>5, <1>6, <1>7, <1>8, <1>9, <1>10, <1>11, <1>12, <1>13 DEF Next, Call,
      Calls, Service, Script, Serve

\* The handler keeps its types.
LEMMA CgiTypedStep ==
  ASSUME CgiTyped, ScriptTyped, [Next]_vars
  PROVE  CgiTyped'
<1>1. ASSUME Launch PROVE CgiTyped'
  BY <1>1 DEF Launch, At, Goto, Started, RaiseError, RaiseErrorOn, streamVars, CgiTyped, Handler,
      ScriptTyped, Process
<1>2. ASSUME ShortDone PROVE CgiTyped'
  BY <1>2 DEF ShortDone, At, PutToCgi, CgiTyped, Handler, ScriptTyped, Process
<1>3. ASSUME ReadHead PROVE CgiTyped'
  BY <1>3 DEF ReadHead, Reading, At, Take, streamVars, CgiTyped, Handler, ScriptTyped, Process
<1>4. ASSUME ReadData PROVE CgiTyped'
  BY <1>4 DEF ReadData, Reading, At, Take, Goto, RaiseError, RaiseErrorOn, streamVars, CgiTyped, Handler,
      ScriptTyped, Process
<1>5. ASSUME AfterCallback PROVE CgiTyped'
  <2>1. cgi' = cgi \/ cgi' = [cgi EXCEPT !.location = FALSE]
    BY <1>5 DEF AfterCallback
  <2> QED
    BY <2>1 DEF CgiTyped, Handler
<1>6. ASSUME StartCgi PROVE CgiTyped'
  BY <1>6 DEF StartCgi, MayStart, Idle, Goto, streamVars, CgiTyped, Handler, ScriptTyped, Process
<1>7. ASSUME BrowserEnd PROVE CgiTyped'
  BY <1>7 DEF BrowserEnd, MayReceive, Idle, PutToCgi, Goto, CgiTyped, Handler, ScriptTyped, Process
<1>8. ASSUME Close PROVE CgiTyped'
  BY <1>8 DEF Close, Idle, Reset, Shut, CgiTyped, Handler, ScriptTyped, Process
<1>9. ASSUME \/ ReapAtReset \/ KillAtReset \/ GiveUp \/ ServeCgiEarly \/ ServeCgi \/ ServeCgiBroken
             \/ ServeWriteq \/ ServeDone \/ ReadStops \/ ReadPart \/ BrowserData \/ BrowserShort
             \/ NetSend \/ StdinEvent \/ ChildDeath \/ ServiceSignals \/ ScriptHeads
             \/ ScriptAnswers \/ ScriptReads
             \/ \E ch \in {Out, Err} : ReadEnd(ch)
             \/ \E ch \in {Out, Err} : OutputEvent(ch)
             \/ \E ch \in Channels : QueueIOEvent(ch)
             \/ \E ch \in Channels : ScriptCloses(ch)
             \/ \E status \in {0, 1} : ScriptExits(status)
             \/ UNCHANGED vars
     PROVE  CgiTyped'
  <2>1. UNCHANGED <<cgi>>
    BY <1>9, SMT, ZenonT(60) DEF ReapAtReset, Goto, streamVars, KillAtReset, GiveUp, ServeCgiEarly,
        ServeCgi, ServeCgiBroken, ServeWriteq, ServeDone, ReadStops, ReadPart, Take, ReadEnd, BrowserData,
            PutToCgi, BrowserShort, Reset, NetSend, StdinEvent, OutputEvent, ChildDeath, QueueIOEvent,
                ServiceSignals, ScriptHeads, ScriptWrites, ScriptStep, ScriptAnswers, ScriptReads,
                    ScriptCloses, ScriptExits, vars
  <2> QED
    BY <2>1 DEF CgiTyped, Handler, ScriptTyped, Process
<1> QED
  BY <1>1, <1>2, <1>3, <1>4, <1>5, <1>6, <1>7, <1>8, <1>9 DEF Next, Call, Calls, Service, Script, Serve

\* The process keeps its types.
LEMMA ScriptTypedStep ==
  ASSUME ScriptTyped, [Next]_vars
  PROVE  ScriptTyped'
<1>1. ASSUME Launch PROVE ScriptTyped'
  <2>1. PICK all \in SUBSET Channels : all = Channels
    OBVIOUS
  <2>2. CASE script' = script
    BY <2>2 DEF ScriptTyped
  <2>3. CASE script' = [script EXCEPT !.open = all]
    BY <2>3 DEF ScriptTyped, Process
  <2>4. CASE script' = [script EXCEPT !.state = "running", !.open = all]
    BY <2>4, ZenonT(60) DEF ScriptTyped, Process
  <2> QED
    BY <1>1, <2>1, <2>2, <2>3, <2>4 DEF Launch
<1>2. ASSUME ReapAtReset PROVE ScriptTyped'
  BY <1>2 DEF ReapAtReset, At, Goto, Reaped, Completed, streamVars, ScriptTyped, Process
<1>3. ASSUME KillAtReset PROVE ScriptTyped'
  BY <1>3 DEF KillAtReset, At, streamVars, ScriptTyped, Process
<1>4. ASSUME BrowserShort PROVE ScriptTyped'
  BY <1>4 DEF BrowserShort, MayReceive, Idle, Reset, Shut, RaiseError, RaiseErrorOn, ScriptTyped, Process
<1>5. ASSUME Close PROVE ScriptTyped'
  BY <1>5 DEF Close, Idle, Reset, Shut, ScriptTyped, Process
<1>6. ASSUME ChildDeath PROVE ScriptTyped'
  BY <1>6 DEF ChildDeath, Idle, Goto, Reaped, Completed, RaiseError, RaiseErrorOn, streamVars, ScriptTyped,
      Process
<1>7. ASSUME ScriptHeads PROVE ScriptTyped'
  BY <1>7 DEF ScriptHeads, ScriptWrites, MayWrite, Running, ScriptStep, streamVars, ScriptTyped, Process
<1>8. ASSUME ScriptAnswers PROVE ScriptTyped'
  BY <1>8 DEF ScriptAnswers, ScriptWrites, MayWrite, Running, ScriptStep, streamVars, ScriptTyped, Process
<1>9. ASSUME ScriptReads PROVE ScriptTyped'
  <2>1. script' = script \/ script' = [script EXCEPT !.eof = TRUE]
    BY <1>9 DEF ScriptReads
  <2> QED
    BY <2>1 DEF ScriptTyped, Process
<1>10. ASSUME NEW ch \in Channels, ScriptCloses(ch) PROVE ScriptTyped'
  BY <1>10 DEF ScriptCloses, Running, ScriptStep, streamVars, ScriptTyped, Process
<1>11. ASSUME NEW status \in {0, 1}, ScriptExits(status) PROVE ScriptTyped'
  BY <1>11 DEF ScriptExits, Running, ScriptStep, streamVars, ScriptTyped, Process
<1>12. ASSUME \/ ShortDone \/ GiveUp \/ ServeCgiEarly \/ ServeCgi \/ ServeCgiBroken \/ ServeWriteq
              \/ ServeDone \/ ReadStops \/ ReadPart \/ ReadHead \/ ReadData \/ AfterCallback
              \/ StartCgi \/ BrowserData \/ BrowserEnd \/ NetSend \/ StdinEvent \/ ServiceSignals
              \/ \E ch \in {Out, Err} : ReadEnd(ch)
              \/ \E ch \in {Out, Err} : OutputEvent(ch)
              \/ \E ch \in Channels : QueueIOEvent(ch)
              \/ UNCHANGED vars
     PROVE  ScriptTyped'
  <2>1. UNCHANGED <<script>>
    BY <1>12, SMT, ZenonT(60) DEF ShortDone, PutToCgi, GiveUp, Goto, streamVars, ServeCgiEarly, ServeCgi,
        ServeCgiBroken, ServeWriteq, ServeDone, ReadStops, ReadPart, Take, ReadHead, ReadData, ReadEnd,
            AfterCallback, StartCgi, BrowserData, BrowserEnd, NetSend, StdinEvent, OutputEvent,
                QueueIOEvent, ServiceSignals, vars
  <2> QED
    BY <2>1 DEF ScriptTyped, Process
<1> QED
  BY <1>1, <1>2, <1>3, <1>4, <1>5, <1>6, <1>7, <1>8, <1>9, <1>10, <1>11, <1>12 DEF Next, Call, Calls,
      Service, Script, Serve

\* The command keeps its types, and the account of its descriptors.
LEMMA CmdStep ==
  ASSUME CmdTyped, Descriptors, ScriptTyped, [Next]_vars
  PROVE  CmdTyped' /\ Descriptors'
<1>1. ASSUME Launch PROVE CmdTyped' /\ Descriptors'
  <2>1. CASE cmd' = [cmd EXCEPT !.callback = TRUE]
    BY <2>1 DEF CmdTyped, Command, Descriptors
  <2>2. ASSUME NEW b \in BOOLEAN, cmd' = Started(b) PROVE CmdTyped' /\ Descriptors'
    BY <2>2, StartedIs DEF CmdTyped, Descriptors, Ends
  <2> QED
    BY <1>1, <2>1, <2>2 DEF Launch
<1>2. ASSUME ReapAtReset PROVE CmdTyped' /\ Descriptors'
  <2>1. CASE cmd' = Reaped
    BY <2>1, ReapedIs DEF CmdTyped, Descriptors
  <2>2. CASE cmd' = cmd
    BY <2>2 DEF CmdTyped, Descriptors
  <2> QED
    BY <1>2, <2>1, <2>2 DEF ReapAtReset
<1>3. ASSUME GiveUp PROVE CmdTyped' /\ Descriptors'
  BY <1>3 DEF GiveUp, At, Goto, streamVars, CmdTyped, Command, Descriptors, Ends
<1>4. ASSUME ServeCgi PROVE CmdTyped' /\ Descriptors'
  BY <1>4, AdjustsIs
<1>5. ASSUME ServeCgiBroken PROVE CmdTyped' /\ Descriptors'
  BY <1>5, AdjustsIs
<1>6. ASSUME ServeWriteq PROVE CmdTyped' /\ Descriptors'
  BY <1>6, AdjustsIs
<1>7. ASSUME NEW ch \in {Out, Err}, ReadEnd(ch) PROVE CmdTyped' /\ Descriptors'
  <2>1. ch \in Channels
    OBVIOUS
  <2>2. CASE cmd' = CloseCmdFd(ch)
    BY <2>1, <2>2, CloseCmdFdIs DEF CmdTyped, Descriptors
  <2>3. CASE cmd' = cmd
    BY <2>3 DEF CmdTyped, Descriptors
  <2> QED
    BY <1>7, <2>2, <2>3 DEF ReadEnd
<1>8. ASSUME AfterCallback PROVE CmdTyped' /\ Descriptors'
  BY <1>8, AdjustsIs
<1>9. ASSUME BrowserShort PROVE CmdTyped' /\ Descriptors'
  <2>1. CASE cmd' = Shut
    BY <2>1, ShutIs DEF CmdTyped, Descriptors
  <2>2. CASE cmd' = cmd
    BY <2>2 DEF CmdTyped, Descriptors
  <2> QED
    BY <1>9, <2>1, <2>2 DEF BrowserShort
<1>10. ASSUME Close PROVE CmdTyped' /\ Descriptors'
  <2>1. CASE cmd' = [Shut EXCEPT !.callback = FALSE]
    <3>1. /\ cmd'.fd = {} /\ cmd'.handlers = {} /\ cmd'.on = {} /\ cmd'.eofCount = 0 /\ ~cmd'.complete
      BY <2>1, ShutIs DEF Command
    <3> QED
      BY <2>1, <3>1, ShutIs DEF CmdTyped, Descriptors
  <2>2. CASE cmd' = cmd
    BY <2>2 DEF CmdTyped, Descriptors
  <2> QED
    BY <1>10, <2>1, <2>2 DEF Close
<1>11. ASSUME NEW ch \in {Out, Err}, OutputEvent(ch) PROVE CmdTyped' /\ Descriptors'
  <2>1. ch \in Channels
    OBVIOUS
  <2>2. CASE cmd' = CloseCmdFd(ch)
    BY <2>1, <2>2, CloseCmdFdIs DEF CmdTyped, Descriptors
  <2>3. CASE cmd' = cmd
    BY <2>3 DEF CmdTyped, Descriptors
  <2> QED
    BY <1>11, <2>2, <2>3 DEF OutputEvent
<1>12. ASSUME ChildDeath PROVE CmdTyped' /\ Descriptors'
  <2>1. CASE cmd' = Reaped
    BY <2>1, ReapedIs DEF CmdTyped, Descriptors
  <2>2. CASE cmd' = cmd
    BY <2>2 DEF CmdTyped, Descriptors
  <2> QED
    BY <1>12, <2>1, <2>2 DEF ChildDeath
<1>13. ASSUME NEW ch \in Channels, QueueIOEvent(ch) PROVE CmdTyped' /\ Descriptors'
  BY <1>13, AdjustsIs
<1>14. ASSUME \/ ShortDone \/ KillAtReset \/ ServeCgiEarly \/ ServeDone \/ ReadStops \/ ReadPart
              \/ ReadHead \/ ReadData \/ StartCgi \/ BrowserData \/ BrowserEnd \/ NetSend
              \/ StdinEvent \/ ServiceSignals \/ ScriptHeads \/ ScriptAnswers \/ ScriptReads
              \/ \E ch \in Channels : ScriptCloses(ch)
              \/ \E status \in {0, 1} : ScriptExits(status)
              \/ UNCHANGED vars
     PROVE  CmdTyped' /\ Descriptors'
  <2>1. UNCHANGED <<cmd>>
    BY <1>14, SMT, ZenonT(60) DEF ShortDone, PutToCgi, KillAtReset, streamVars, ServeCgiEarly, ServeDone,
        ReadStops, Goto, ReadPart, Take, ReadHead, ReadData, StartCgi, BrowserData, BrowserEnd, NetSend,
            StdinEvent, ServiceSignals, ScriptHeads, ScriptWrites, ScriptStep, ScriptAnswers, ScriptReads,
                ScriptCloses, ScriptExits, vars
  <2> QED
    BY <2>1 DEF CmdTyped, Command, Descriptors, Ends
<1> QED
  BY <1>1, <1>2, <1>3, <1>4, <1>5, <1>6, <1>7, <1>8, <1>9, <1>10, <1>11, <1>12, <1>13,
     <1>14 DEF Next, Call, Calls, Service, Script, Serve

\* The thread is in one of its places.
LEMMA PlaceTypedStep ==
  ASSUME PlaceTyped, CmdTyped, [Next]_vars
  PROVE  PlaceTyped'
<1>1. ASSUME Launch PROVE PlaceTyped'
  BY <1>1 DEF Launch, At, Goto, Started, RaiseError, RaiseErrorOn, streamVars, PlaceTyped, Place
<1>2. ASSUME ShortDone PROVE PlaceTyped'
  BY <1>2 DEF ShortDone, At, PutToCgi, PlaceTyped, Place
<1>3. ASSUME ReapAtReset PROVE PlaceTyped'
  BY <1>3 DEF ReapAtReset, At, Goto, Reaped, Completed, streamVars, PlaceTyped, Place
<1>4. ASSUME GiveUp PROVE PlaceTyped'
  BY <1>4 DEF GiveUp, At, Goto, streamVars, PlaceTyped, Place
<1>5. ASSUME ServeDone PROVE PlaceTyped'
  BY <1>5 DEF ServeDone, At, PlaceTyped, Place
<1>6. ASSUME ReadStops PROVE PlaceTyped'
  BY <1>6 DEF ReadStops, At, Goto, streamVars, PlaceTyped, Place
<1>7. ASSUME ReadPart PROVE PlaceTyped'
  BY <1>7 DEF ReadPart, Reading, At, Take, Goto, streamVars, PlaceTyped, Place
<1>8. ASSUME ReadData PROVE PlaceTyped'
  BY <1>8 DEF ReadData, Reading, At, Take, Goto, RaiseError, RaiseErrorOn, streamVars, PlaceTyped, Place
<1>9. ASSUME NEW ch \in {Out, Err}, ReadEnd(ch) PROVE PlaceTyped'
  BY <1>9 DEF ReadEnd, Reading, At, Goto, FinalizeOutput, RaiseError, RaiseErrorOn, streamVars, PlaceTyped,
      Place
<1>10. ASSUME AfterCallback PROVE PlaceTyped'
  BY <1>10 DEF AfterCallback, At, Goto, Finalize, EnableOutput, streamVars, PlaceTyped, Place
<1>11. ASSUME StartCgi PROVE PlaceTyped'
  BY <1>11 DEF StartCgi, MayStart, Idle, Goto, streamVars, PlaceTyped, Place
<1>12. ASSUME BrowserData PROVE PlaceTyped'
  BY <1>12 DEF BrowserData, MayReceive, Idle, PutToCgi, Goto, PlaceTyped, Place
<1>13. ASSUME BrowserEnd PROVE PlaceTyped'
  BY <1>13 DEF BrowserEnd, MayReceive, Idle, PutToCgi, Goto, PlaceTyped, Place
<1>14. ASSUME BrowserShort PROVE PlaceTyped'
  BY <1>14 DEF BrowserShort, MayReceive, Idle, Reset, Shut, RaiseError, RaiseErrorOn, PlaceTyped, Place
<1>15. ASSUME Close PROVE PlaceTyped'
  BY <1>15 DEF Close, Idle, Reset, Shut, PlaceTyped, Place
<1>16. ASSUME NetSend PROVE PlaceTyped'
  BY <1>16 DEF NetSend, Idle, Goto, PlaceTyped, Place
<1>17. ASSUME StdinEvent PROVE PlaceTyped'
  BY <1>17 DEF StdinEvent, Idle, Goto, PlaceTyped, Place
<1>18. ASSUME NEW ch \in {Out, Err}, OutputEvent(ch) PROVE PlaceTyped'
  BY <1>18 DEF OutputEvent, Idle, Goto, streamVars, PlaceTyped, Place
<1>19. ASSUME ChildDeath PROVE PlaceTyped'
  BY <1>19 DEF ChildDeath, Idle, Goto, Reaped, Completed, RaiseError, RaiseErrorOn, streamVars, PlaceTyped,
      Place
<1>20. ASSUME \/ KillAtReset \/ ServeCgiEarly \/ ServeCgi \/ ServeCgiBroken \/ ServeWriteq
              \/ ReadHead \/ ServiceSignals \/ ScriptHeads \/ ScriptAnswers \/ ScriptReads
              \/ \E ch \in Channels : QueueIOEvent(ch)
              \/ \E ch \in Channels : ScriptCloses(ch)
              \/ \E status \in {0, 1} : ScriptExits(status)
              \/ UNCHANGED vars
     PROVE  PlaceTyped'
  <2>1. UNCHANGED <<pc>>
    BY <1>20, SMT, ZenonT(60) DEF KillAtReset, streamVars, ServeCgiEarly, ServeCgi, ServeCgiBroken,
        ServeWriteq, ReadHead, Take, QueueIOEvent, ServiceSignals, ScriptHeads, ScriptWrites, ScriptStep,
            ScriptAnswers, ScriptReads, ScriptCloses, ScriptExits, vars
  <2> QED
    BY <2>1 DEF PlaceTyped, Place
<1> QED
  BY <1>1, <1>2, <1>3, <1>4, <1>5, <1>6, <1>7, <1>8, <1>9, <1>10, <1>11, <1>12, <1>13,
     <1>14, <1>15, <1>16, <1>17, <1>18, <1>19, <1>20 DEF Next, Call, Calls, Service, Script, Serve

-----------------------------------------------------------------------------
(* The process and the request *)

\* The command knows its process until it is reaped.
LEMMA ProcessesStep ==
  ASSUME States, Descriptors, Before, Processes, [Next]_vars
  PROVE  Processes'
<1> USE DEF States
<1>1. ASSUME Launch PROVE Processes'
  <2>1. script.state = "none" /\ ~cmd.pid
    BY <1>1 DEF Launch, Before, Fresh, Processes
  <2>2. CASE cmd' = Started(TRUE) /\ script' = [script EXCEPT !.state = "running", !.open = Channels]
    BY <2>2 DEF Started, Processes, CmdTyped, Command, ScriptTyped, Process
  <2>3. CASE cmd' = [cmd EXCEPT !.callback = TRUE] /\ UNCHANGED script
    BY <2>1, <2>3 DEF Processes, CmdTyped, Command, ScriptTyped, Process
  <2>4. CASE cmd' = Started(FALSE) /\ script' = [script EXCEPT !.open = Channels]
    BY <2>1, <2>4 DEF Started, Processes, CmdTyped, Command, ScriptTyped, Process
  <2> QED
    BY <1>1, <2>2, <2>3, <2>4 DEF Launch
<1>2. ASSUME ReapAtReset PROVE Processes'
  <2>1. CASE cmd' = Reaped /\ script' = [script EXCEPT !.state = "reaped"]
    BY <2>1, ReapedIs DEF Processes, ScriptTyped, Process
  <2>2. CASE UNCHANGED <<cmd, script>>
    BY <2>2 DEF Processes
  <2> QED
    BY <1>2, <2>1, <2>2 DEF ReapAtReset
<1>3. ASSUME KillAtReset PROVE Processes'
  BY <1>3 DEF KillAtReset, At, streamVars, Processes, CmdTyped, Command, ScriptTyped, Process
<1>4. ASSUME GiveUp PROVE Processes'
  BY <1>4 DEF GiveUp, At, Goto, streamVars, Processes, CmdTyped, Command, ScriptTyped, Process
<1>5. ASSUME ServeCgi PROVE Processes'
  <2>1. cmd'.pid = cmd.pid
    BY <1>5, AdjustsIs DEF Adjusts
  <2>2. UNCHANGED script
    BY <1>5 DEF ServeCgi
  <2> QED
    BY <2>1, <2>2 DEF Processes
<1>6. ASSUME ServeCgiBroken PROVE Processes'
  <2>1. cmd'.pid = cmd.pid
    BY <1>6, AdjustsIs DEF Adjusts
  <2>2. UNCHANGED script
    BY <1>6 DEF ServeCgiBroken
  <2> QED
    BY <2>1, <2>2 DEF Processes
<1>7. ASSUME ServeWriteq PROVE Processes'
  <2>1. cmd'.pid = cmd.pid
    BY <1>7, AdjustsIs DEF Adjusts
  <2>2. UNCHANGED script
    BY <1>7 DEF ServeWriteq
  <2> QED
    BY <2>1, <2>2 DEF Processes
<1>8. ASSUME NEW ch \in {Out, Err}, ReadEnd(ch) PROVE Processes'
  <2>1. ch \in Channels
    OBVIOUS
  <2>2. cmd'.pid = cmd.pid
    BY <1>8, <2>1, CloseCmdFdIs DEF ReadEnd
  <2>3. UNCHANGED script
    BY <1>8 DEF ReadEnd
  <2> QED
    BY <2>2, <2>3 DEF Processes
<1>9. ASSUME AfterCallback PROVE Processes'
  <2>1. cmd'.pid = cmd.pid
    BY <1>9, AdjustsIs DEF Adjusts
  <2>2. UNCHANGED script
    BY <1>9 DEF AfterCallback
  <2> QED
    BY <2>1, <2>2 DEF Processes
<1>10. ASSUME BrowserShort PROVE Processes'
  <2>1. cmd'.pid = cmd.pid
    BY <1>10, ShutIs DEF BrowserShort, Command
  <2>2. script'.state = script.state
    BY <1>10 DEF BrowserShort, Reset, ScriptTyped, Process
  <2> QED
    BY <2>1, <2>2 DEF Processes
<1>11. ASSUME Close PROVE Processes'
  <2>1. cmd'.pid = cmd.pid
    BY <1>11, ShutIs DEF Close, Command
  <2>2. script'.state = script.state
    BY <1>11 DEF Close, Reset, ScriptTyped, Process
  <2> QED
    BY <2>1, <2>2 DEF Processes
<1>12. ASSUME NEW ch \in {Out, Err}, OutputEvent(ch) PROVE Processes'
  <2>1. ch \in Channels
    OBVIOUS
  <2>2. cmd'.pid = cmd.pid
    BY <1>12, <2>1, CloseCmdFdIs DEF OutputEvent
  <2>3. UNCHANGED script
    BY <1>12 DEF OutputEvent
  <2> QED
    BY <2>2, <2>3 DEF Processes
<1>13. ASSUME ChildDeath PROVE Processes'
  <2>1. CASE cmd' = Reaped /\ script' = [script EXCEPT !.state = "reaped"]
    BY <2>1, ReapedIs DEF Processes, ScriptTyped, Process
  <2>2. CASE UNCHANGED <<cmd, script>>
    BY <2>2 DEF Processes
  <2> QED
    BY <1>13, <2>1, <2>2 DEF ChildDeath
<1>14. ASSUME NEW ch \in Channels, QueueIOEvent(ch) PROVE Processes'
  <2>1. cmd'.pid = cmd.pid
    BY <1>14, AdjustsIs DEF Adjusts
  <2>2. UNCHANGED script
    BY <1>14 DEF QueueIOEvent
  <2> QED
    BY <2>1, <2>2 DEF Processes
<1>15. ASSUME ScriptHeads PROVE Processes'
  BY <1>15 DEF ScriptHeads, ScriptWrites, MayWrite, Running, ScriptStep, streamVars, Processes, CmdTyped,
      Command, ScriptTyped, Process
<1>16. ASSUME ScriptAnswers PROVE Processes'
  BY <1>16 DEF ScriptAnswers, ScriptWrites, MayWrite, Running, ScriptStep, streamVars, Processes, CmdTyped,
      Command, ScriptTyped, Process
<1>17. ASSUME ScriptReads PROVE Processes'
  BY <1>17 DEF ScriptReads, MayRead, Running, Take, ScriptStep, streamVars, Processes, CmdTyped, Command,
      ScriptTyped, Process
<1>18. ASSUME NEW ch \in Channels, ScriptCloses(ch) PROVE Processes'
  BY <1>18 DEF ScriptCloses, Running, ScriptStep, streamVars, Processes, CmdTyped, Command, ScriptTyped,
      Process
<1>19. ASSUME NEW status \in {0, 1}, ScriptExits(status) PROVE Processes'
  BY <1>19 DEF ScriptExits, Running, ScriptStep, streamVars, Processes, CmdTyped, Command, ScriptTyped,
      Process
<1>20. ASSUME \/ ShortDone \/ ServeCgiEarly \/ ServeDone \/ ReadStops \/ ReadPart \/ ReadHead
              \/ ReadData \/ StartCgi \/ BrowserData \/ BrowserEnd \/ NetSend \/ StdinEvent
              \/ ServiceSignals
              \/ UNCHANGED vars
     PROVE  Processes'
  <2>1. UNCHANGED <<cmd, script>>
    BY <1>20, SMT, ZenonT(60) DEF ShortDone, PutToCgi, ServeCgiEarly, ServeDone, ReadStops, Goto,
        streamVars, ReadPart, Take, ReadHead, ReadData, StartCgi, BrowserData, BrowserEnd, NetSend,
            StdinEvent, ServiceSignals, vars
  <2> QED
    BY <2>1 DEF Processes, CmdTyped, Command, ScriptTyped, Process
<1> QED
  BY <1>1, <1>2, <1>3, <1>4, <1>5, <1>6, <1>7, <1>8, <1>9, <1>10, <1>11, <1>12, <1>13,
     <1>14, <1>15, <1>16, <1>17, <1>18, <1>19, <1>20 DEF Next, Call, Calls, Service, Script, Serve

\* A request that is closed is not opened again, and the headers of its response stay seen.
LEMMA ClosedStays ==
  ASSUME CgiTyped, [Next]_vars
  PROVE  (Closed => Closed') /\ (cgi.seenHeader => cgi'.seenHeader)
<1>1. ASSUME Launch PROVE (Closed => Closed') /\ (cgi.seenHeader => cgi'.seenHeader)
  BY <1>1 DEF Launch, At, Goto, Started, RaiseError, RaiseErrorOn, streamVars, CgiTyped, Handler, Closed
<1>2. ASSUME ShortDone PROVE (Closed => Closed') /\ (cgi.seenHeader => cgi'.seenHeader)
  BY <1>2 DEF ShortDone, At, PutToCgi, CgiTyped, Handler, Closed
<1>3. ASSUME ReadHead PROVE (Closed => Closed') /\ (cgi.seenHeader => cgi'.seenHeader)
  BY <1>3 DEF ReadHead, Reading, At, Take, streamVars, CgiTyped, Handler, Closed
<1>4. ASSUME ReadData PROVE (Closed => Closed') /\ (cgi.seenHeader => cgi'.seenHeader)
  BY <1>4 DEF ReadData, Reading, At, Take, Goto, RaiseError, RaiseErrorOn, streamVars, CgiTyped, Handler,
      Closed
<1>5. ASSUME AfterCallback PROVE (Closed => Closed') /\ (cgi.seenHeader => cgi'.seenHeader)
  BY <1>5 DEF AfterCallback, At, Goto, Finalize, EnableOutput, streamVars, CgiTyped, Handler, Closed
<1>6. ASSUME StartCgi PROVE (Closed => Closed') /\ (cgi.seenHeader => cgi'.seenHeader)
  BY <1>6 DEF StartCgi, MayStart, Idle, Goto, streamVars, CgiTyped, Handler, Closed
<1>7. ASSUME BrowserEnd PROVE (Closed => Closed') /\ (cgi.seenHeader => cgi'.seenHeader)
  BY <1>7 DEF BrowserEnd, MayReceive, Idle, PutToCgi, Goto, CgiTyped, Handler, Closed
<1>8. ASSUME Close PROVE (Closed => Closed') /\ (cgi.seenHeader => cgi'.seenHeader)
  BY <1>8 DEF Close, Idle, Reset, Shut, CgiTyped, Handler, Closed
<1>9. ASSUME \/ ReapAtReset \/ KillAtReset \/ GiveUp \/ ServeCgiEarly \/ ServeCgi \/ ServeCgiBroken
             \/ ServeWriteq \/ ServeDone \/ ReadStops \/ ReadPart \/ BrowserData \/ BrowserShort
             \/ NetSend \/ StdinEvent \/ ChildDeath \/ ServiceSignals \/ ScriptHeads
             \/ ScriptAnswers \/ ScriptReads
             \/ \E ch \in {Out, Err} : ReadEnd(ch)
             \/ \E ch \in {Out, Err} : OutputEvent(ch)
             \/ \E ch \in Channels : QueueIOEvent(ch)
             \/ \E ch \in Channels : ScriptCloses(ch)
             \/ \E status \in {0, 1} : ScriptExits(status)
             \/ UNCHANGED vars
     PROVE  (Closed => Closed') /\ (cgi.seenHeader => cgi'.seenHeader)
  <2>1. UNCHANGED <<cgi>>
    BY <1>9, SMT, ZenonT(60) DEF ReapAtReset, Goto, streamVars, KillAtReset, GiveUp, ServeCgiEarly,
        ServeCgi, ServeCgiBroken, ServeWriteq, ServeDone, ReadStops, ReadPart, Take, ReadEnd, BrowserData,
            PutToCgi, BrowserShort, Reset, NetSend, StdinEvent, OutputEvent, ChildDeath, QueueIOEvent,
                ServiceSignals, ScriptHeads, ScriptWrites, ScriptStep, ScriptAnswers, ScriptReads,
                    ScriptCloses, ScriptExits, vars
  <2> QED
    BY <2>1 DEF CgiTyped, Handler, Closed
<1> QED
  BY <1>1, <1>2, <1>3, <1>4, <1>5, <1>6, <1>7, <1>8, <1>9 DEF Next, Call, Calls, Service, Script, Serve

\* The end of the output finalizes the stream, with an error or without.
LEMMA DecidedStep ==
  ASSUME States, Descriptors, Before, Decided, [Next]_vars
  PROVE  Decided'
<1> USE DEF States
<1>0. /\ Lasting /\ StreamTyped
      /\ Closed => Closed'
  BY StreamTypedStep, ClosedStays DEF States
<1>1. ASSUME Launch PROVE Decided'
  <2>1. cmd'.eofCount = 0
    BY <1>1, StartedIs DEF Launch, Before, Fresh, CmdTyped, Command
  <2> QED
    BY <2>1 DEF Decided
<1>2. ASSUME ShortDone PROVE Decided'
  BY <1>2, <1>0 DEF ShortDone, At, PutToCgi, Decided, Lasting
<1>3. ASSUME ReapAtReset PROVE Decided'
  <2>1. cmd'.eofCount = cmd.eofCount /\ cmd'.fd = cmd.fd
    BY <1>3, ReapedIs DEF ReapAtReset
  <2> QED
    BY <1>0, <2>1 DEF Decided, Lasting
<1>4. ASSUME GiveUp PROVE Decided'
  BY <1>4, <1>0 DEF GiveUp, At, Goto, streamVars, Decided, Lasting
<1>5. ASSUME ServeCgi PROVE Decided'
  <2>1. Adjusts
    BY <1>5, AdjustsIs
  <2> QED
    BY <1>0, <2>1 DEF Adjusts, Decided, Lasting
<1>6. ASSUME ServeCgiBroken PROVE Decided'
  <2>1. Adjusts
    BY <1>6, AdjustsIs
  <2> QED
    BY <1>0, <2>1 DEF Adjusts, Decided, Lasting
<1>7. ASSUME ServeWriteq PROVE Decided'
  <2>1. Adjusts
    BY <1>7, AdjustsIs
  <2> QED
    BY <1>0, <2>1 DEF Adjusts, Decided, Lasting
<1>8. ASSUME ReadHead PROVE Decided'
  BY <1>8, <1>0 DEF ReadHead, Reading, At, Take, streamVars, Decided, Lasting
<1>9. ASSUME ReadData PROVE Decided'
  BY <1>9, <1>0 DEF ReadData, Reading, At, Take, Goto, RaiseError, RaiseErrorOn, streamVars, Decided,
      Lasting
<1>10. ASSUME NEW ch \in {Out, Err}, ReadEnd(ch) PROVE Decided'
  <2>1. ch \in Channels
    OBVIOUS
  <2>2. CASE ch = Err
    <3>1. (Out \notin cmd'.fd) => Out \notin cmd.fd
      BY <1>10, <2>1, <2>2, CloseCmdFdIs DEF ReadEnd
    <3>2. (Out \notin cmd.fd) => cmd.eofCount > 0
      BY <1>10 DEF ReadEnd, Reading, Descriptors, Ends
    <3> QED
      BY <1>0, <3>1, <3>2 DEF Decided, Lasting
  <2>3. CASE ch = Out
    <3>1. RaiseError(TRUE) \/ RaiseError(FALSE) \/ FinalizeOutput
      BY <1>10, <2>3 DEF ReadEnd
    <3>2. CASE FinalizeOutput
      BY <3>2 DEF FinalizeOutput, StreamTyped, Stream, Decided
    <3>3. CASE RaiseError(TRUE) \/ RaiseError(FALSE)
      BY <3>3, RaiseIs DEF RaiseError, StreamTyped, Decided
    <3> QED
      BY <3>1, <3>2, <3>3
  <2> QED
    BY <2>2, <2>3
<1>11. ASSUME AfterCallback PROVE Decided'
  <2>1. Adjusts
    BY <1>11, AdjustsIs
  <2> QED
    BY <1>0, <2>1 DEF Adjusts, Decided, Lasting
<1>12. ASSUME StartCgi PROVE Decided'
  BY <1>12, <1>0 DEF StartCgi, MayStart, Idle, Goto, streamVars, Decided, Lasting
<1>13. ASSUME BrowserData PROVE Decided'
  BY <1>13, <1>0 DEF BrowserData, MayReceive, Idle, PutToCgi, Goto, Decided, Lasting
<1>14. ASSUME BrowserEnd PROVE Decided'
  BY <1>14, <1>0 DEF BrowserEnd, MayReceive, Idle, PutToCgi, Goto, Decided, Lasting
<1>15. ASSUME BrowserShort PROVE Decided'
  <2>1. CASE cmd' = Shut
    BY <1>0, <2>1, ShutIs DEF Decided
  <2>2. CASE cmd' = cmd
    BY <1>0, <2>2 DEF Decided, Lasting
  <2> QED
    BY <1>15, <2>1, <2>2 DEF BrowserShort
<1>16. ASSUME Close PROVE Decided'
  <2>1. Closed'
    BY <1>16 DEF Close, Closed, CgiTyped, Handler
  <2> QED
    BY <2>1 DEF Decided
<1>17. ASSUME NetSend PROVE Decided'
  BY <1>17, <1>0 DEF NetSend, Idle, Goto, Decided, Lasting
<1>18. ASSUME NEW ch \in {Out, Err}, OutputEvent(ch) PROVE Decided'
  <2>1. ch \in Channels
    OBVIOUS
  <2>2. CASE Finalized
    BY <1>0, <2>2 DEF Finalized, Decided, Lasting
  <2>3. CASE ~Finalized
    BY <1>18, <1>0, <2>3 DEF OutputEvent, Decided, Lasting
  <2> QED
    BY <2>2, <2>3
<1>19. ASSUME ChildDeath PROVE Decided'
  <2>1. cmd'.eofCount = cmd.eofCount /\ cmd'.fd = cmd.fd
    BY <1>19, ReapedIs DEF ChildDeath
  <2> QED
    BY <1>0, <2>1 DEF Decided, Lasting
<1>20. ASSUME NEW ch \in Channels, QueueIOEvent(ch) PROVE Decided'
  <2>1. Adjusts
    BY <1>20, AdjustsIs
  <2> QED
    BY <1>0, <2>1 DEF Adjusts, Decided, Lasting
<1>21. ASSUME \/ KillAtReset \/ ServeCgiEarly \/ ServeDone \/ ReadStops \/ ReadPart \/ StdinEvent
              \/ ServiceSignals \/ ScriptHeads \/ ScriptAnswers \/ ScriptReads
              \/ \E ch \in Channels : ScriptCloses(ch)
              \/ \E status \in {0, 1} : ScriptExits(status)
              \/ UNCHANGED vars
     PROVE  Decided'
  <2>1. UNCHANGED <<cmd, cgi, stream>>
    BY <1>21, SMT, ZenonT(60) DEF KillAtReset, streamVars, ServeCgiEarly, ServeDone, ReadStops, Goto,
        ReadPart, Take, StdinEvent, ServiceSignals, ScriptHeads, ScriptWrites, ScriptStep, ScriptAnswers,
            ScriptReads, ScriptCloses, ScriptExits, vars
  <2> QED
    BY <2>1, <1>0 DEF Decided, Lasting
<1> QED
  BY <1>1, <1>2, <1>3, <1>4, <1>5, <1>6, <1>7, <1>8, <1>9, <1>10, <1>11, <1>12, <1>13,
     <1>14, <1>15, <1>16, <1>17, <1>18, <1>19, <1>20, <1>21 DEF Next, Call, Calls, Service, Script, Serve

\* Nothing of a command exists before it is started, and it is started once.
LEMMA BeforeStep ==
  ASSUME States, Descriptors, Processes, Before, After, [Next]_vars
  PROVE  Before'
<1> USE DEF States
<1>1. ASSUME Launch PROVE Before'
  BY <1>1 DEF Launch, At, Goto, Started, RaiseError, RaiseErrorOn, streamVars, Before, Fresh, CmdTyped,
      Command, CgiTyped, Handler, ScriptTyped, Process, PlaceTyped, Place
<1>2. ASSUME ShortDone PROVE Before'
  BY <1>2 DEF ShortDone, At, PutToCgi, Before, Fresh, CmdTyped, Command, CgiTyped, Handler, ScriptTyped,
      Process, PlaceTyped, Place
<1>3. ASSUME ReapAtReset PROVE Before'
  <2>1. script.state # "none" /\ UNCHANGED cgi /\ pc'.at # "start"
    BY <1>3 DEF ReapAtReset, At, Goto, PlaceTyped, Place
  <2> QED
    BY <2>1 DEF Before, Fresh, At
<1>4. ASSUME KillAtReset PROVE Before'
  BY <1>4 DEF KillAtReset, At, streamVars, Before, Fresh, CmdTyped, Command, CgiTyped, Handler,
      ScriptTyped, Process, PlaceTyped, Place
<1>5. ASSUME GiveUp PROVE Before'
  BY <1>5 DEF GiveUp, At, Goto, streamVars, Before, Fresh, CmdTyped, Command, CgiTyped, Handler,
      ScriptTyped, Process, PlaceTyped, Place
<1>6. ASSUME ServeCgi PROVE Before'
  <2>1. Adjusts
    BY <1>6, AdjustsIs
  <2>2. /\ UNCHANGED script /\ cgi'.seenHeader = cgi.seenHeader /\ cgi'.cmd = cgi.cmd
        /\ cgi'.started = cgi.started /\ cgi'.defer = cgi.defer
        /\ pc'.at = "start" => UNCHANGED <<pc, cgi>>
    BY <1>6 DEF ServeCgi, Goto, CgiTyped, Handler, PlaceTyped, Place
  <2> QED
    BY <2>1, <2>2 DEF Adjusts, Before, Fresh, At
<1>7. ASSUME ServeCgiBroken PROVE Before'
  <2>1. Adjusts
    BY <1>7, AdjustsIs
  <2>2. /\ UNCHANGED script /\ cgi'.seenHeader = cgi.seenHeader /\ cgi'.cmd = cgi.cmd
        /\ cgi'.started = cgi.started /\ cgi'.defer = cgi.defer
        /\ pc'.at = "start" => UNCHANGED <<pc, cgi>>
    BY <1>7 DEF ServeCgiBroken, Goto, CgiTyped, Handler, PlaceTyped, Place
  <2> QED
    BY <2>1, <2>2 DEF Adjusts, Before, Fresh, At
<1>8. ASSUME ServeWriteq PROVE Before'
  <2>1. Adjusts
    BY <1>8, AdjustsIs
  <2>2. /\ UNCHANGED script /\ cgi'.seenHeader = cgi.seenHeader /\ cgi'.cmd = cgi.cmd
        /\ cgi'.started = cgi.started /\ cgi'.defer = cgi.defer
        /\ pc'.at = "start" => UNCHANGED <<pc, cgi>>
    BY <1>8 DEF ServeWriteq, Goto, CgiTyped, Handler, PlaceTyped, Place
  <2> QED
    BY <2>1, <2>2 DEF Adjusts, Before, Fresh, At
<1>9. ASSUME ServeDone PROVE Before'
  BY <1>9 DEF ServeDone, At, Before, Fresh, CmdTyped, Command, CgiTyped, Handler, ScriptTyped, Process,
      PlaceTyped, Place
<1>10. ASSUME ReadStops PROVE Before'
  BY <1>10 DEF ReadStops, At, Goto, streamVars, Before, Fresh, CmdTyped, Command, CgiTyped, Handler,
      ScriptTyped, Process, PlaceTyped, Place
<1>11. ASSUME ReadPart PROVE Before'
  BY <1>11 DEF ReadPart, Reading, At, Take, Goto, streamVars, Before, Fresh, CmdTyped, Command, CgiTyped,
      Handler, ScriptTyped, Process, PlaceTyped, Place
<1>12. ASSUME ReadHead PROVE Before'
  BY <1>12 DEF ReadHead, Reading, At, Take, streamVars, Before, Fresh, CmdTyped, Command, CgiTyped,
      Handler, ScriptTyped, Process, PlaceTyped, Place
<1>13. ASSUME ReadData PROVE Before'
  BY <1>13 DEF ReadData, Reading, At, Take, Goto, RaiseError, RaiseErrorOn, streamVars, Before, Fresh,
      CmdTyped, Command, CgiTyped, Handler, ScriptTyped, Process, PlaceTyped, Place
<1>14. ASSUME NEW ch \in {Out, Err}, ReadEnd(ch) PROVE Before'
  <2>1. UNCHANGED cgi /\ pc'.at # "start" /\ (UNCHANGED <<cmd, script>> \/ ch \in cmd.fd)
    BY <1>14 DEF ReadEnd, Reading, At, Idle, Goto, PlaceTyped, Place
  <2> QED
    BY <2>1 DEF Before, Fresh, At
<1>15. ASSUME AfterCallback PROVE Before'
  <2>1. Adjusts
    BY <1>15, AdjustsIs
  <2>2. /\ UNCHANGED script /\ cgi'.seenHeader = cgi.seenHeader /\ cgi'.cmd = cgi.cmd
        /\ cgi'.started = cgi.started /\ cgi'.defer = cgi.defer
        /\ pc'.at = "start" => UNCHANGED <<pc, cgi>>
    BY <1>15 DEF AfterCallback, Goto, CgiTyped, Handler, PlaceTyped, Place
  <2> QED
    BY <2>1, <2>2 DEF Adjusts, Before, Fresh, At
<1>16. ASSUME StartCgi PROVE Before'
  BY <1>16 DEF StartCgi, MayStart, Idle, Goto, streamVars, Before, At, Fresh, CmdTyped, Command, CgiTyped,
      Handler, ScriptTyped, Process, PlaceTyped, Place
<1>17. ASSUME BrowserData PROVE Before'
  BY <1>17 DEF BrowserData, MayReceive, Idle, PutToCgi, Goto, Before, At, Fresh, CmdTyped, Command,
      CgiTyped, Handler, ScriptTyped, Process, PlaceTyped, Place
<1>18. ASSUME BrowserEnd PROVE Before'
  BY <1>18 DEF BrowserEnd, MayReceive, Idle, PutToCgi, Goto, Before, At, Fresh, CmdTyped, Command,
      CgiTyped, Handler, ScriptTyped, Process, PlaceTyped, Place
<1>19. ASSUME BrowserShort PROVE Before'
  <2>1. UNCHANGED cgi /\ pc'.at # "start"
    BY <1>19 DEF BrowserShort, Reset
  <2>2. cgi.cmd \/ UNCHANGED <<cmd, script>>
    BY <1>19 DEF BrowserShort
  <2> QED
    BY <2>1, <2>2 DEF Before, Fresh, At
<1>20. ASSUME Close PROVE Before'
  <2>1. CASE cgi.cmd
    <3>1. cgi.started /\ ~cgi.defer /\ cgi'.started = cgi.started /\ cgi'.defer = cgi.defer /\ pc'.at # "start"
      BY <1>20, <2>1 DEF Close, Reset, Before, CgiTyped, Handler, PlaceTyped, Place
    <3> QED
      BY <3>1 DEF Before, At
  <2>2. CASE ~cgi.cmd
    <3>1. UNCHANGED <<cmd, script, pc>> /\ pc.at # "start"
      BY <1>20, <2>2 DEF Close, Idle
    <3>2. /\ cgi'.started = cgi.started /\ cgi'.defer = cgi.defer /\ ~cgi'.cmd /\ cgi'.seenHeader = cgi.seenHeader
      BY <1>20 DEF Close, CgiTyped, Handler
    <3> QED
      BY <3>1, <3>2 DEF Before, Fresh, At
  <2> QED
    BY <2>1, <2>2
<1>21. ASSUME NetSend PROVE Before'
  BY <1>21 DEF NetSend, Idle, Goto, Before, At, Fresh, CmdTyped, Command, CgiTyped, Handler, ScriptTyped,
      Process, PlaceTyped, Place
<1>22. ASSUME StdinEvent PROVE Before'
  BY <1>22 DEF StdinEvent, Idle, Goto, Before, At, Fresh, CmdTyped, Command, CgiTyped, Handler,
      ScriptTyped, Process, PlaceTyped, Place
<1>23. ASSUME NEW ch \in {Out, Err}, OutputEvent(ch) PROVE Before'
  <2>1. UNCHANGED cgi /\ pc'.at # "start" /\ (UNCHANGED <<cmd, script>> \/ ch \in cmd.fd)
    BY <1>23 DEF OutputEvent, Reading, At, Idle, Goto, PlaceTyped, Place
  <2> QED
    BY <2>1 DEF Before, Fresh, At
<1>24. ASSUME ChildDeath PROVE Before'
  <2>1. CASE UNCHANGED <<cmd, script, pc, cgi>>
    BY <2>1 DEF Before, Fresh, At
  <2>2. CASE cmd.pid
    <3>1. script.state # "none"
      BY <2>2 DEF Processes
    <3>2. UNCHANGED cgi /\ pc'.at # "start"
      BY <1>24, <3>1 DEF ChildDeath, Before, Fresh, At, Goto, Idle, PlaceTyped, Place
    <3> QED
      BY <3>1, <3>2 DEF Before, Fresh, At
  <2> QED
    BY <1>24, <2>1, <2>2 DEF ChildDeath
<1>25. ASSUME NEW ch \in Channels, QueueIOEvent(ch) PROVE Before'
  <2>1. Adjusts
    BY <1>25, AdjustsIs
  <2>2. /\ UNCHANGED script /\ cgi'.seenHeader = cgi.seenHeader /\ cgi'.cmd = cgi.cmd
        /\ cgi'.started = cgi.started /\ cgi'.defer = cgi.defer
        /\ pc'.at = "start" => UNCHANGED <<pc, cgi>>
    BY <1>25 DEF QueueIOEvent, Goto, CgiTyped, Handler, PlaceTyped, Place
  <2> QED
    BY <2>1, <2>2 DEF Adjusts, Before, Fresh, At
<1>26. ASSUME ScriptHeads PROVE Before'
  BY <1>26 DEF ScriptHeads, ScriptWrites, MayWrite, Running, ScriptStep, streamVars, Before, At, Fresh,
      CmdTyped, Command, CgiTyped, Handler, ScriptTyped, Process, PlaceTyped, Place
<1>27. ASSUME ScriptAnswers PROVE Before'
  BY <1>27 DEF ScriptAnswers, ScriptWrites, MayWrite, Running, ScriptStep, streamVars, Before, At, Fresh,
      CmdTyped, Command, CgiTyped, Handler, ScriptTyped, Process, PlaceTyped, Place
<1>28. ASSUME ScriptReads PROVE Before'
  BY <1>28 DEF ScriptReads, MayRead, Running, Take, ScriptStep, streamVars, Before, At, Fresh, CmdTyped,
      Command, CgiTyped, Handler, ScriptTyped, Process, PlaceTyped, Place
<1>29. ASSUME NEW ch \in Channels, ScriptCloses(ch) PROVE Before'
  BY <1>29 DEF ScriptCloses, Running, ScriptStep, streamVars, Before, At, Fresh, CmdTyped, Command,
      CgiTyped, Handler, ScriptTyped, Process, PlaceTyped, Place
<1>30. ASSUME NEW status \in {0, 1}, ScriptExits(status) PROVE Before'
  BY <1>30 DEF ScriptExits, Running, ScriptStep, streamVars, Before, At, Fresh, CmdTyped, Command,
      CgiTyped, Handler, ScriptTyped, Process, PlaceTyped, Place
<1>31. ASSUME \/ ServeCgiEarly \/ ServiceSignals
              \/ UNCHANGED vars
     PROVE  Before'
  <2>1. UNCHANGED <<cgi, cmd, script, pc>>
    BY <1>31, SMT, ZenonT(60) DEF ServeCgiEarly, ServiceSignals, streamVars, vars
  <2> QED
    BY <2>1 DEF Before, At, Fresh, CmdTyped, Command, CgiTyped, Handler, ScriptTyped, Process, PlaceTyped,
        Place
<1> QED
  BY <1>1, <1>2, <1>3, <1>4, <1>5, <1>6, <1>7, <1>8, <1>9, <1>10, <1>11, <1>12, <1>13,
     <1>14, <1>15, <1>16, <1>17, <1>18, <1>19, <1>20, <1>21, <1>22, <1>23, <1>24, <1>25,
     <1>26, <1>27, <1>28, <1>29, <1>30, <1>31 DEF Next, Call, Calls, Service, Script, Serve

\* A command that is destroyed leaves nothing, but for a process that was killed in vain.
LEMMA AfterStep ==
  ASSUME States, Descriptors, Processes, Before, After, [Next]_vars
  PROVE  After'
<1> USE DEF States
<1>0. stream.error => stream'.error
  BY StreamTypedStep DEF States, Lasting
<1>1. ASSUME Launch PROVE After'
  <2>1. cgi'.cmd /\ pc'.at = "serve" /\ pc'.then = "idle" /\ ~Closed'
    BY <1>1 DEF Launch, Before, At, Goto, Closed, CgiTyped, Handler, PlaceTyped, Place
  <2> QED
    BY <2>1 DEF After, At
<1>2. ASSUME ShortDone PROVE After'
  <2>1. UNCHANGED <<cmd, script>> /\ pc'.at = "serve" /\ pc'.then = "idle" /\ ~cgi'.cmd
    BY <1>2 DEF ShortDone, CgiTyped, Handler
  <2> QED
    BY <1>2, <2>1 DEF ShortDone, After, Quiet, Gone, At
<1>3. ASSUME ReapAtReset PROVE After'
  <2>1. Reaped.fd = {} /\ ~Reaped.signal
    BY <1>3, ReapedIs DEF ReapAtReset, After
  <2>2. /\ cmd' = Reaped /\ script'.state = "reaped" /\ UNCHANGED cgi /\ ~At("reset")' /\ ~At("short")'
        /\ pc'.at \notin {Out, Err} /\ pc'.then = pc.then
    BY <1>3 DEF ReapAtReset, At, Goto, ScriptTyped, Process, PlaceTyped, Place
  <2> QED
    BY <1>3, <1>0, <2>1, <2>2 DEF After, Quiet, Gone, Closed
<1>4. ASSUME KillAtReset PROVE After'
  BY <1>4, <1>0 DEF KillAtReset, At, streamVars, After, Closed, Quiet, Gone, CmdTyped, Command, CgiTyped,
      Handler, ScriptTyped, Process, PlaceTyped, Place
<1>5. ASSUME GiveUp PROVE After'
  BY <1>5, <1>0 DEF GiveUp, At, Goto, streamVars, After, Closed, Quiet, Gone, CmdTyped, Command, CgiTyped,
      Handler, ScriptTyped, Process, PlaceTyped, Place
<1>6. ASSUME ServeCgi PROVE After'
  <2>1. Adjusts
    BY <1>6, AdjustsIs
  <2>2. /\ UNCHANGED script /\ cgi'.cmd = cgi.cmd /\ cgi'.state = cgi.state
        /\ UNCHANGED pc \/ (pc'.at = "serve" /\ pc'.then = pc.then /\ ~At("reset"))
    BY <1>6 DEF ServeCgi, At, Goto, CgiTyped, Handler, PlaceTyped, Place
  <2> QED
    BY <1>0, <2>1, <2>2 DEF Adjusts, After, Quiet, Gone, At, Closed
<1>7. ASSUME ServeCgiBroken PROVE After'
  <2>1. Adjusts
    BY <1>7, AdjustsIs
  <2>2. /\ UNCHANGED script /\ cgi'.cmd = cgi.cmd /\ cgi'.state = cgi.state
        /\ UNCHANGED pc \/ (pc'.at = "serve" /\ pc'.then = pc.then /\ ~At("reset"))
    BY <1>7 DEF ServeCgiBroken, At, Goto, CgiTyped, Handler, PlaceTyped, Place
  <2> QED
    BY <1>0, <2>1, <2>2 DEF Adjusts, After, Quiet, Gone, At, Closed
<1>8. ASSUME ServeWriteq PROVE After'
  <2>1. Adjusts
    BY <1>8, AdjustsIs
  <2>2. /\ UNCHANGED script /\ cgi'.cmd = cgi.cmd /\ cgi'.state = cgi.state
        /\ UNCHANGED pc \/ (pc'.at = "serve" /\ pc'.then = pc.then /\ ~At("reset"))
    BY <1>8 DEF ServeWriteq, At, Goto, CgiTyped, Handler, PlaceTyped, Place
  <2> QED
    BY <1>0, <2>1, <2>2 DEF Adjusts, After, Quiet, Gone, At, Closed
<1>9. ASSUME ServeDone PROVE After'
  BY <1>9, <1>0 DEF ServeDone, At, After, Closed, Quiet, Gone, CmdTyped, Command, CgiTyped, Handler,
      ScriptTyped, Process, PlaceTyped, Place
<1>10. ASSUME ReadStops PROVE After'
  BY <1>10, <1>0 DEF ReadStops, At, Goto, streamVars, After, Closed, Quiet, Gone, CmdTyped, Command,
      CgiTyped, Handler, ScriptTyped, Process, PlaceTyped, Place
<1>11. ASSUME ReadPart PROVE After'
  BY <1>11, <1>0 DEF ReadPart, Reading, At, Take, Goto, streamVars, After, Closed, Quiet, Gone, CmdTyped,
      Command, CgiTyped, Handler, ScriptTyped, Process, PlaceTyped, Place
<1>12. ASSUME ReadHead PROVE After'
  BY <1>12, <1>0 DEF ReadHead, Reading, At, Take, streamVars, After, Closed, Quiet, Gone, CmdTyped,
      Command, CgiTyped, Handler, ScriptTyped, Process, PlaceTyped, Place
<1>13. ASSUME ReadData PROVE After'
  BY <1>13, <1>0 DEF ReadData, Reading, At, Take, Goto, RaiseError, RaiseErrorOn, streamVars, After,
      Closed, Quiet, Gone, CmdTyped, Command, CgiTyped, Handler, ScriptTyped, Process, PlaceTyped, Place
<1>14. ASSUME NEW ch \in {Out, Err}, ReadEnd(ch) PROVE After'
  <2>1. UNCHANGED cgi /\ pc'.then = pc.then /\ pc'.at = "after" /\ ch \in cmd.fd
    BY <1>14 DEF ReadEnd, Reading, Goto, PlaceTyped, Place
  <2> QED
    BY <2>1 DEF After, At, Closed
<1>15. ASSUME AfterCallback PROVE After'
  <2>1. Adjusts
    BY <1>15, AdjustsIs
  <2>2. /\ UNCHANGED script /\ cgi'.cmd = cgi.cmd /\ cgi'.state = cgi.state
        /\ UNCHANGED pc \/ (pc'.at = "serve" /\ pc'.then = pc.then /\ ~At("reset"))
    BY <1>15 DEF AfterCallback, At, Goto, CgiTyped, Handler, PlaceTyped, Place
  <2> QED
    BY <1>0, <2>1, <2>2 DEF Adjusts, After, Quiet, Gone, At, Closed
<1>16. ASSUME StartCgi PROVE After'
  BY <1>16, <1>0 DEF StartCgi, MayStart, Idle, Goto, streamVars, After, At, Closed, Quiet, Gone, CmdTyped,
      Command, CgiTyped, Handler, ScriptTyped, Process, PlaceTyped, Place
<1>17. ASSUME BrowserData PROVE After'
  BY <1>17, <1>0 DEF BrowserData, MayReceive, Idle, PutToCgi, Goto, After, At, Closed, Quiet, Gone,
      CmdTyped, Command, CgiTyped, Handler, ScriptTyped, Process, PlaceTyped, Place
<1>18. ASSUME BrowserEnd PROVE After'
  BY <1>18, <1>0 DEF BrowserEnd, MayReceive, Idle, PutToCgi, Goto, After, At, Closed, Quiet, Gone,
      CmdTyped, Command, CgiTyped, Handler, ScriptTyped, Process, PlaceTyped, Place
<1>19. ASSUME BrowserShort PROVE After'
  <2>1. stream'.error
    BY <1>19, RaiseIs DEF BrowserShort, RaiseError, StreamTyped
  <2>2. UNCHANGED cgi /\ ~Closed
    BY <1>19 DEF BrowserShort, MayReceive, Closed
  <2>3. CASE cgi.cmd
    <3>1. cmd'.fd = {} /\ cmd'.pid = cmd.pid /\ (cmd.pid \/ ~cmd'.signal)
      BY <1>19, <2>3, ShutIs DEF BrowserShort
    <3>2. CASE cmd.pid
      BY <1>19, <2>1, <2>2, <2>3, <3>1, <3>2 DEF BrowserShort, Reset, After, At, Closed, ScriptTyped,
          Process
    <3>3. CASE ~cmd.pid
      <4>1. script'.state = script.state /\ script.state \in {"none", "reaped"}
        BY <1>19, <2>3, <3>3 DEF BrowserShort, Reset, Processes, ScriptTyped, Process
      <4> QED
        <5>1. pc'.at = "serve" /\ pc'.then = "short" /\ ~cmd'.signal
          BY <1>19, <2>3, <3>1, <3>3 DEF BrowserShort, Reset
        <5> QED
          BY <2>1, <2>2, <2>3, <3>1, <4>1, <5>1 DEF After, At, Closed, Quiet, Gone
    <3> QED
      BY <3>2, <3>3
  <2>4. CASE ~cgi.cmd
    BY <1>19, <2>1, <2>2, <2>4 DEF BrowserShort, MayReceive, Idle, After, At, Closed, Quiet, Gone
  <2> QED
    BY <2>3, <2>4
<1>20. ASSUME Close PROVE After'
  <2>1. ~cgi'.cmd
    BY <1>20 DEF Close, CgiTyped, Handler
  <2>2. CASE cgi.cmd
    <3>1. cmd'.fd = {} /\ cmd'.pid = cmd.pid /\ (cmd.pid \/ ~cmd'.signal)
      BY <1>20, <2>2, ShutIs DEF Close, Command
    <3>2. CASE cmd.pid
      BY <1>20, <2>1, <2>2, <3>1, <3>2 DEF Close, Reset, After, At, ScriptTyped, Process
    <3>3. CASE ~cmd.pid
      <4>1. script'.state = script.state /\ script.state \in {"none", "reaped"}
        BY <1>20, <2>2, <3>3 DEF Close, Reset, Processes, ScriptTyped, Process
      <4> QED
        <5>1. pc'.at = "serve" /\ pc'.then = "idle" /\ ~cmd'.signal
          BY <1>20, <2>2, <3>1, <3>3 DEF Close, Reset
        <5> QED
          BY <2>1, <3>1, <4>1, <5>1 DEF After, At, Quiet, Gone
    <3> QED
      BY <3>2, <3>3
  <2>3. CASE ~cgi.cmd
    BY <1>20, <2>1, <2>3 DEF Close, Idle, After, At, Quiet, Gone
  <2> QED
    BY <2>2, <2>3
<1>21. ASSUME NetSend PROVE After'
  BY <1>21, <1>0 DEF NetSend, Idle, Goto, After, At, Closed, Quiet, Gone, CmdTyped, Command, CgiTyped,
      Handler, ScriptTyped, Process, PlaceTyped, Place
<1>22. ASSUME StdinEvent PROVE After'
  BY <1>22, <1>0 DEF StdinEvent, Idle, Goto, After, At, Closed, Quiet, Gone, CmdTyped, Command, CgiTyped,
      Handler, ScriptTyped, Process, PlaceTyped, Place
<1>23. ASSUME NEW ch \in {Out, Err}, OutputEvent(ch) PROVE After'
  <2>1. CASE UNCHANGED <<cmd, pc>>
    BY <1>23, <1>0, <2>1 DEF OutputEvent, streamVars, After, At, Closed, Quiet, Gone
  <2>2. CASE ch \in cmd.fd
    <3>1. UNCHANGED cgi /\ pc.then = "idle" /\ pc'.then = "idle" /\ pc'.at \in {"idle", Out, Err}
      BY <1>23 DEF OutputEvent, Idle, Goto
    <3>2. cgi.cmd /\ ~Closed /\ cgi.state = "open"
      BY <2>2 DEF After, Closed, CgiTyped, Handler
    <3> QED
      BY <3>1, <3>2 DEF After, At, Closed
  <2> QED
    BY <1>23, <2>1, <2>2 DEF OutputEvent
<1>24. ASSUME ChildDeath PROVE After'
  <2>1. UNCHANGED cgi /\ pc'.then = "idle" /\ pc'.at \in {"idle", "after"} /\ pc = Idle
    BY <1>24 DEF ChildDeath, Idle, Goto, PlaceTyped, Place
  <2>2. CASE cmd' = Reaped /\ script' = [script EXCEPT !.state = "reaped"]
    <3>1. Reaped.fd = cmd.fd /\ ~Reaped.signal
      BY ReapedIs
    <3>2. script'.state = "reaped"
      BY <2>2 DEF ScriptTyped, Process
    <3> QED
      BY <2>1, <2>2, <3>1, <3>2 DEF After, At, Idle, Quiet, Gone, Closed
  <2>3. CASE UNCHANGED <<cmd, script>>
    BY <2>1, <2>3 DEF After, At, Idle, Quiet, Gone, Closed
  <2> QED
    BY <1>24, <2>2, <2>3 DEF ChildDeath
<1>25. ASSUME NEW ch \in Channels, QueueIOEvent(ch) PROVE After'
  <2>1. Adjusts
    BY <1>25, AdjustsIs
  <2>2. /\ UNCHANGED script /\ cgi'.cmd = cgi.cmd /\ cgi'.state = cgi.state
        /\ UNCHANGED pc \/ (pc'.at = "serve" /\ pc'.then = pc.then /\ ~At("reset"))
    BY <1>25 DEF QueueIOEvent, At, Goto, CgiTyped, Handler, PlaceTyped, Place
  <2> QED
    BY <1>0, <2>1, <2>2 DEF Adjusts, After, Quiet, Gone, At, Closed
<1>26. ASSUME ScriptHeads PROVE After'
  BY <1>26, <1>0 DEF ScriptHeads, ScriptWrites, MayWrite, Running, ScriptStep, streamVars, After, At,
      Closed, Quiet, Gone, CmdTyped, Command, CgiTyped, Handler, ScriptTyped, Process, PlaceTyped, Place
<1>27. ASSUME ScriptAnswers PROVE After'
  BY <1>27, <1>0 DEF ScriptAnswers, ScriptWrites, MayWrite, Running, ScriptStep, streamVars, After, At,
      Closed, Quiet, Gone, CmdTyped, Command, CgiTyped, Handler, ScriptTyped, Process, PlaceTyped, Place
<1>28. ASSUME ScriptReads PROVE After'
  BY <1>28, <1>0 DEF ScriptReads, MayRead, Running, Take, ScriptStep, streamVars, After, At, Closed, Quiet,
      Gone, CmdTyped, Command, CgiTyped, Handler, ScriptTyped, Process, PlaceTyped, Place
<1>29. ASSUME NEW ch \in Channels, ScriptCloses(ch) PROVE After'
  BY <1>29, <1>0 DEF ScriptCloses, Running, ScriptStep, streamVars, After, At, Closed, Quiet, Gone,
      CmdTyped, Command, CgiTyped, Handler, ScriptTyped, Process, PlaceTyped, Place
<1>30. ASSUME NEW status \in {0, 1}, ScriptExits(status) PROVE After'
  BY <1>30, <1>0 DEF ScriptExits, Running, ScriptStep, streamVars, After, At, Closed, Quiet, Gone,
      CmdTyped, Command, CgiTyped, Handler, ScriptTyped, Process, PlaceTyped, Place
<1>31. ASSUME \/ ServeCgiEarly \/ ServiceSignals
              \/ UNCHANGED vars
     PROVE  After'
  <2>1. UNCHANGED <<cgi, cmd, script, pc, stream>>
    BY <1>31, SMT, ZenonT(60) DEF ServeCgiEarly, ServiceSignals, streamVars, vars
  <2> QED
    BY <2>1 DEF After, At, Closed, Quiet, Gone, CmdTyped, Command, CgiTyped, Handler, ScriptTyped, Process,
        PlaceTyped, Place
<1> QED
  BY <1>1, <1>2, <1>3, <1>4, <1>5, <1>6, <1>7, <1>8, <1>9, <1>10, <1>11, <1>12, <1>13,
     <1>14, <1>15, <1>16, <1>17, <1>18, <1>19, <1>20, <1>21, <1>22, <1>23, <1>24, <1>25,
     <1>26, <1>27, <1>28, <1>29, <1>30, <1>31 DEF Next, Call, Calls, Service, Script, Serve

-----------------------------------------------------------------------------
(* The output of the script *)

\* What a step may do to the output pipe: the script writes its next unit, the server
\* takes the first one, and the rest stays.
LEMMA TailIs ==
  ASSUME NEW q \in Seq(Output), q # <<>>
  PROVE  /\ Tail(q) \in Seq(Output) /\ Len(q) \in Nat \ {0} /\ Len(Tail(q)) = Len(q) - 1
         /\ \A i \in 1 .. Len(Tail(q)) : Tail(q)[i] = q[i + 1]
         /\ Head(q) = q[1]
<1>1. /\ Tail(q) \in Seq(Output) /\ Len(Tail(q)) = Len(q) - 1 /\ Head(q) \in Output
      /\ \A i \in 1 .. Len(Tail(q)) : Tail(q)[i] = q[i + 1]
  BY HeadTailProperties
<1>2. Len(q) \in Nat \ {0}
  BY EmptySeq
<1> QED
  BY <1>1, <1>2

\* One more unit
LEMMA MoreIs ==
  ASSUME NEW q \in Seq(Output), NEW x \in Output
  PROVE  /\ Append(q, x) \in Seq(Output) /\ Len(Append(q, x)) = Len(q) + 1 /\ Len(q) \in Nat
         /\ \A i \in 1 .. Len(q) + 1 : Append(q, x)[i] = IF i <= Len(q) THEN q[i] ELSE x
BY AppendProperties, LenProperties

\* The output pipe holds the last of what the script wrote.
LEMMA WrittenStep ==
  ASSUME States, PipeTyped, Written, [Next]_vars
  PROVE  Written'
<1> USE DEF States
<1>1. ASSUME Launch PROVE Written'
  <2>1. script'.head = script.head /\ script'.wrote = script.wrote /\ pipe'[Out] = pipe[Out]
    BY <1>1 DEF Launch, Take, ScriptTyped, Process, PipeTyped
  <2> QED
    BY <2>1 DEF Written
<1>2. ASSUME ReapAtReset PROVE Written'
  <2>1. script'.head = script.head /\ script'.wrote = script.wrote /\ pipe'[Out] = pipe[Out]
    BY <1>2 DEF ReapAtReset, Take, ScriptTyped, Process, PipeTyped
  <2> QED
    BY <2>1 DEF Written
<1>3. ASSUME KillAtReset PROVE Written'
  <2>1. script'.head = script.head /\ script'.wrote = script.wrote /\ pipe'[Out] = pipe[Out]
    BY <1>3 DEF KillAtReset, Take, ScriptTyped, Process, PipeTyped
  <2> QED
    BY <2>1 DEF Written
<1>4. ASSUME ServeCgi PROVE Written'
  <2>1. script'.head = script.head /\ script'.wrote = script.wrote /\ pipe'[Out] = pipe[Out]
    BY <1>4 DEF ServeCgi, Take, ScriptTyped, Process, PipeTyped
  <2> QED
    BY <2>1 DEF Written
<1>5. ASSUME ReadPart PROVE Written'
  <2>1. PICK q \in Seq(Output) : q = pipe[Out] /\ q # <<>> /\ pipe'[Out] = Tail(q)
    BY <1>5 DEF ReadPart, Take, PipeTyped
  <2>2. UNCHANGED script
    BY <1>5 DEF ReadPart
  <2>3. Len(q) \in Nat \ {0} /\ Len(Tail(q)) = Len(q) - 1 /\ \A i \in 1 .. Len(Tail(q)) : Tail(q)[i] = q[i + 1]
    BY <2>1, TailIs
  <2>4. PICK n, m, k : n = Len(q) /\ m = script.head /\ k = script.wrote
    OBVIOUS
  <2>5. n \in Nat \ {0} /\ m \in 0 .. 2 /\ k \in Nat
    BY <2>3, <2>4 DEF ScriptTyped, Process
  <2>6. \A i \in 1 .. n - 1 : Tail(q)[i] = Item(m + k - (n - 1) + i)
    <3>1. \A i \in 1 .. n - 1 : i + 1 \in 1 .. n /\ m + k - (n - 1) + i = m + k - n + (i + 1)
      BY <2>5
    <3>2. \A i \in 1 .. n : q[i] = Item(m + k - n + i)
      BY <2>1, <2>4 DEF Written
    <3> QED
      BY <2>3, <2>4, <3>1, <3>2
  <2>7. m + k >= n
    BY <2>1, <2>4 DEF Written
  <2> QED
    BY <2>1, <2>2, <2>3, <2>4, <2>5, <2>6, <2>7 DEF Written
<1>6. ASSUME ReadHead PROVE Written'
  <2>1. PICK q \in Seq(Output) : q = pipe[Out] /\ q # <<>> /\ pipe'[Out] = Tail(q)
    BY <1>6 DEF ReadHead, Take, PipeTyped
  <2>2. UNCHANGED script
    BY <1>6 DEF ReadHead
  <2>3. Len(q) \in Nat \ {0} /\ Len(Tail(q)) = Len(q) - 1 /\ \A i \in 1 .. Len(Tail(q)) : Tail(q)[i] = q[i + 1]
    BY <2>1, TailIs
  <2>4. PICK n, m, k : n = Len(q) /\ m = script.head /\ k = script.wrote
    OBVIOUS
  <2>5. n \in Nat \ {0} /\ m \in 0 .. 2 /\ k \in Nat
    BY <2>3, <2>4 DEF ScriptTyped, Process
  <2>6. \A i \in 1 .. n - 1 : Tail(q)[i] = Item(m + k - (n - 1) + i)
    <3>1. \A i \in 1 .. n - 1 : i + 1 \in 1 .. n /\ m + k - (n - 1) + i = m + k - n + (i + 1)
      BY <2>5
    <3>2. \A i \in 1 .. n : q[i] = Item(m + k - n + i)
      BY <2>1, <2>4 DEF Written
    <3> QED
      BY <2>3, <2>4, <3>1, <3>2
  <2>7. m + k >= n
    BY <2>1, <2>4 DEF Written
  <2> QED
    BY <2>1, <2>2, <2>3, <2>4, <2>5, <2>6, <2>7 DEF Written
<1>7. ASSUME ReadData PROVE Written'
  <2>1. PICK q \in Seq(Output) : q = pipe[Out] /\ q # <<>> /\ pipe'[Out] = Tail(q)
    BY <1>7 DEF ReadData, Take, PipeTyped
  <2>2. UNCHANGED script
    BY <1>7 DEF ReadData
  <2>3. Len(q) \in Nat \ {0} /\ Len(Tail(q)) = Len(q) - 1 /\ \A i \in 1 .. Len(Tail(q)) : Tail(q)[i] = q[i + 1]
    BY <2>1, TailIs
  <2>4. PICK n, m, k : n = Len(q) /\ m = script.head /\ k = script.wrote
    OBVIOUS
  <2>5. n \in Nat \ {0} /\ m \in 0 .. 2 /\ k \in Nat
    BY <2>3, <2>4 DEF ScriptTyped, Process
  <2>6. \A i \in 1 .. n - 1 : Tail(q)[i] = Item(m + k - (n - 1) + i)
    <3>1. \A i \in 1 .. n - 1 : i + 1 \in 1 .. n /\ m + k - (n - 1) + i = m + k - n + (i + 1)
      BY <2>5
    <3>2. \A i \in 1 .. n : q[i] = Item(m + k - n + i)
      BY <2>1, <2>4 DEF Written
    <3> QED
      BY <2>3, <2>4, <3>1, <3>2
  <2>7. m + k >= n
    BY <2>1, <2>4 DEF Written
  <2> QED
    BY <2>1, <2>2, <2>3, <2>4, <2>5, <2>6, <2>7 DEF Written
<1>8. ASSUME BrowserShort PROVE Written'
  <2>1. script'.head = script.head /\ script'.wrote = script.wrote /\ (pipe'[Out] = pipe[Out] \/ pipe'[Out] = <<>>)
    BY <1>8 DEF BrowserShort, Reset, ScriptTyped, Process
  <2>2. script.head \in 0 .. 2 /\ script.wrote \in Nat /\ Len(<<>>) = 0
    BY DEF ScriptTyped, Process
  <2>3. CASE pipe'[Out] = <<>>
    BY <2>1, <2>2, <2>3 DEF Written
  <2>4. CASE pipe'[Out] = pipe[Out]
    BY <2>1, <2>4 DEF Written
  <2> QED
    BY <2>1, <2>3, <2>4
<1>9. ASSUME Close PROVE Written'
  <2>1. script'.head = script.head /\ script'.wrote = script.wrote /\ (pipe'[Out] = pipe[Out] \/ pipe'[Out] = <<>>)
    BY <1>9 DEF Close, Reset, ScriptTyped, Process
  <2>2. script.head \in 0 .. 2 /\ script.wrote \in Nat /\ Len(<<>>) = 0
    BY DEF ScriptTyped, Process
  <2>3. CASE pipe'[Out] = <<>>
    BY <2>1, <2>2, <2>3 DEF Written
  <2>4. CASE pipe'[Out] = pipe[Out]
    BY <2>1, <2>4 DEF Written
  <2> QED
    BY <2>1, <2>3, <2>4
<1>10. ASSUME ChildDeath PROVE Written'
  <2>1. script'.head = script.head /\ script'.wrote = script.wrote /\ pipe'[Out] = pipe[Out]
    BY <1>10 DEF ChildDeath, Take, ScriptTyped, Process, PipeTyped
  <2> QED
    BY <2>1 DEF Written
<1>11. ASSUME ScriptHeads PROVE Written'
  <2>1. PICK q \in Seq(Output) : q = pipe[Out]
    BY DEF PipeTyped
  <2>2. PICK x \in Output : x = Item(script.head + script.wrote + 1) /\ pipe'[Out] = Append(q, x)
    <3>1. script.head \in 0 .. 2 /\ script.wrote \in Nat
      BY DEF ScriptTyped, Process
    <3>2. PICK x \in Output : x = Item(script.head + script.wrote + 1)
      BY DEF Item, Output
    <3>3. x = IF script.head = 0 THEN "part" ELSE "head"
      BY <1>11, <3>1, <3>2 DEF ScriptHeads, Written, Item
    <3>4. PICK r : r = Append(q, x)
      OBVIOUS
    <3>5. pipe' = [pipe EXCEPT ![Out] = r]
      BY <1>11, <2>1, <3>3, <3>4 DEF ScriptHeads, ScriptWrites
    <3>6. pipe'[Out] = r
      BY <3>5 DEF PipeTyped
    <3> QED
      BY <3>2, <3>4, <3>6
  <2>3. /\ script'.head = script.head + 1 /\ script'.wrote = script.wrote /\ script.wrote = 0
        /\ script.head \in 0 .. 2 /\ script.wrote \in Nat
    BY <1>11 DEF ScriptHeads, Written, ScriptTyped, Process
  <2>4. /\ Len(Append(q, x)) = Len(q) + 1 /\ Len(q) \in Nat
        /\ \A i \in 1 .. Len(q) + 1 : Append(q, x)[i] = IF i <= Len(q) THEN q[i] ELSE x
    BY MoreIs
  <2>5. PICK n, m, k : n = Len(q) /\ m = script.head /\ k = script.wrote
    OBVIOUS
  <2>a. n \in Nat /\ m \in 0 .. 2 /\ k \in Nat
    BY <2>3, <2>4, <2>5
  <2>6. \A i \in 1 .. n + 1 : Append(q, x)[i] = Item(m + k + 1 - (n + 1) + i)
    <3>1. \A i \in 1 .. n : m + k + 1 - (n + 1) + i = m + k - n + i
      BY <2>a
    <3>2. m + k + 1 - (n + 1) + (n + 1) = m + k + 1
      BY <2>a
    <3>3. \A i \in 1 .. n : q[i] = Item(m + k - n + i)
      BY <2>1, <2>5 DEF Written
    <3>4. \A i \in 1 .. n + 1 : i \in 1 .. n \/ i = n + 1
      BY <2>a
    <3> QED
      BY <2>2, <2>4, <2>5, <2>a, <3>1, <3>2, <3>3, <3>4
  <2>7. script.head + script.wrote >= Len(q)
    BY <2>1 DEF Written
  <2>8. script'.head + script'.wrote = script.head + script.wrote + 1
    BY <2>3
  <2> QED
    BY <2>2, <2>3, <2>4, <2>5, <2>6, <2>7, <2>8, SMTT(30) DEF Written
<1>12. ASSUME ScriptAnswers PROVE Written'
  <2>1. PICK q \in Seq(Output) : q = pipe[Out]
    BY DEF PipeTyped
  <2>2. PICK x \in Output : x = Item(script.head + script.wrote + 1) /\ pipe'[Out] = Append(q, x)
    <3>1. script.head \in 0 .. 2 /\ script.wrote \in Nat
      BY DEF ScriptTyped, Process
    <3>2. PICK x \in Output : x = Item(script.head + script.wrote + 1)
      BY DEF Item, Output
    <3>3. x = "data"
      BY <1>12, <3>1, <3>2 DEF ScriptAnswers, Written, Item
    <3>4. PICK r : r = Append(q, x)
      OBVIOUS
    <3>5. pipe' = [pipe EXCEPT ![Out] = r]
      BY <1>12, <2>1, <3>3, <3>4 DEF ScriptAnswers, ScriptWrites
    <3>6. pipe'[Out] = r
      BY <3>5 DEF PipeTyped
    <3> QED
      BY <3>2, <3>4, <3>6
  <2>3. /\ script'.head = script.head /\ script'.wrote = script.wrote + 1 /\ script.head = 2
        /\ script.head \in 0 .. 2 /\ script.wrote \in Nat
    BY <1>12 DEF ScriptAnswers, Written, ScriptTyped, Process
  <2>4. /\ Len(Append(q, x)) = Len(q) + 1 /\ Len(q) \in Nat
        /\ \A i \in 1 .. Len(q) + 1 : Append(q, x)[i] = IF i <= Len(q) THEN q[i] ELSE x
    BY MoreIs
  <2>5. PICK n, m, k : n = Len(q) /\ m = script.head /\ k = script.wrote
    OBVIOUS
  <2>a. n \in Nat /\ m \in 0 .. 2 /\ k \in Nat
    BY <2>3, <2>4, <2>5
  <2>6. \A i \in 1 .. n + 1 : Append(q, x)[i] = Item(m + k + 1 - (n + 1) + i)
    <3>1. \A i \in 1 .. n : m + k + 1 - (n + 1) + i = m + k - n + i
      BY <2>a
    <3>2. m + k + 1 - (n + 1) + (n + 1) = m + k + 1
      BY <2>a
    <3>3. \A i \in 1 .. n : q[i] = Item(m + k - n + i)
      BY <2>1, <2>5 DEF Written
    <3>4. \A i \in 1 .. n + 1 : i \in 1 .. n \/ i = n + 1
      BY <2>a
    <3> QED
      BY <2>2, <2>4, <2>5, <2>a, <3>1, <3>2, <3>3, <3>4
  <2>7. script.head + script.wrote >= Len(q)
    BY <2>1 DEF Written
  <2>8. script'.head + script'.wrote = script.head + script.wrote + 1
    BY <2>3
  <2> QED
    BY <2>2, <2>3, <2>4, <2>5, <2>6, <2>7, <2>8, SMTT(30) DEF Written
<1>13. ASSUME ScriptReads PROVE Written'
  <2>1. script'.head = script.head /\ script'.wrote = script.wrote /\ pipe'[Out] = pipe[Out]
    BY <1>13 DEF ScriptReads, Take, ScriptTyped, Process, PipeTyped
  <2> QED
    BY <2>1 DEF Written
<1>14. ASSUME NEW ch \in Channels, ScriptCloses(ch) PROVE Written'
  <2>1. script'.head = script.head /\ script'.wrote = script.wrote /\ pipe'[Out] = pipe[Out]
    BY <1>14 DEF ScriptCloses, Take, ScriptTyped, Process, PipeTyped
  <2> QED
    BY <2>1 DEF Written
<1>15. ASSUME NEW status \in {0, 1}, ScriptExits(status) PROVE Written'
  <2>1. script'.head = script.head /\ script'.wrote = script.wrote /\ pipe'[Out] = pipe[Out]
    BY <1>15 DEF ScriptExits, Take, ScriptTyped, Process, PipeTyped
  <2> QED
    BY <2>1 DEF Written
<1>16. ASSUME \/ ShortDone \/ GiveUp \/ ServeCgiEarly \/ ServeCgiBroken \/ ServeWriteq \/ ServeDone
              \/ ReadStops \/ AfterCallback \/ StartCgi \/ BrowserData \/ BrowserEnd \/ NetSend
              \/ StdinEvent \/ ServiceSignals
              \/ \E ch \in {Out, Err} : ReadEnd(ch)
              \/ \E ch \in {Out, Err} : OutputEvent(ch)
              \/ \E ch \in Channels : QueueIOEvent(ch)
              \/ UNCHANGED vars
     PROVE  Written'
  <2>1. UNCHANGED <<pipe, script>>
    BY <1>16, SMT, ZenonT(60) DEF ShortDone, PutToCgi, GiveUp, Goto, streamVars, ServeCgiEarly,
        ServeCgiBroken, ServeWriteq, ServeDone, ReadStops, ReadEnd, AfterCallback, StartCgi, BrowserData,
            BrowserEnd, NetSend, StdinEvent, OutputEvent, QueueIOEvent, ServiceSignals, vars
  <2> QED
    BY <2>1 DEF Written
<1> QED
  BY <1>1, <1>2, <1>3, <1>4, <1>5, <1>6, <1>7, <1>8, <1>9, <1>10, <1>11, <1>12, <1>13,
     <1>14, <1>15, <1>16 DEF Next, Call, Calls, Service, Script, Serve

\* The server passes on what it takes, in order.
LEMMA PassedStep ==
  ASSUME States, PipeTyped, Written, Passed, [Next]_vars
  PROVE  Passed'
<1> USE DEF States
<1>0. /\ stream.error => stream'.error
      /\ stream.output => stream'.output
      /\ Closed => Closed'
  BY StreamTypedStep, ClosedStays DEF States, Lasting
<1>b. script.head \in 0 .. 2 /\ script.wrote \in Nat /\ cgi.bodyBytes \in Nat
  BY DEF ScriptTyped, Process, CgiTyped, Handler
<1> DEFINE Goal == cgi'.bodyBytes = IF Len(pipe'[Out]) <= script'.wrote THEN script'.wrote - Len(pipe'[Out]) ELSE 0
<1> SUFFICES ASSUME ~Closed', ~stream'.error, ~stream'.output
             PROVE  Goal
  BY DEF Passed, Closed
<1>c. cgi.bodyBytes = IF Len(pipe[Out]) <= script.wrote THEN script.wrote - Len(pipe[Out]) ELSE 0
  BY <1>0 DEF Passed
<1>1. ASSUME Launch PROVE Goal
  <2>1. script'.wrote = script.wrote /\ pipe'[Out] = pipe[Out] /\ cgi'.bodyBytes = cgi.bodyBytes
    BY <1>1 DEF Launch, streamVars, ScriptTyped, Process, PipeTyped, CgiTyped, Handler
  <2> QED
    BY <1>c, <2>1
<1>2. ASSUME ShortDone PROVE Goal
  <2>1. script'.wrote = script.wrote /\ pipe'[Out] = pipe[Out] /\ cgi'.bodyBytes = cgi.bodyBytes
    BY <1>2 DEF ShortDone, ScriptTyped, Process, PipeTyped, CgiTyped, Handler
  <2> QED
    BY <1>c, <2>1
<1>3. ASSUME ReapAtReset PROVE Goal
  <2>1. script'.wrote = script.wrote /\ pipe'[Out] = pipe[Out] /\ cgi'.bodyBytes = cgi.bodyBytes
    BY <1>3 DEF ReapAtReset, streamVars, ScriptTyped, Process, PipeTyped, CgiTyped, Handler
  <2> QED
    BY <1>c, <2>1
<1>4. ASSUME KillAtReset PROVE Goal
  <2>1. script'.wrote = script.wrote /\ pipe'[Out] = pipe[Out] /\ cgi'.bodyBytes = cgi.bodyBytes
    BY <1>4 DEF KillAtReset, streamVars, ScriptTyped, Process, PipeTyped, CgiTyped, Handler
  <2> QED
    BY <1>c, <2>1
<1>5. ASSUME ServeCgi PROVE Goal
  <2>1. script'.wrote = script.wrote /\ pipe'[Out] = pipe[Out] /\ cgi'.bodyBytes = cgi.bodyBytes
    BY <1>5 DEF ServeCgi, ScriptTyped, Process, PipeTyped, CgiTyped, Handler
  <2> QED
    BY <1>c, <2>1
<1>6. ASSUME ServeCgiBroken PROVE Goal
  <2>1. script'.wrote = script.wrote /\ pipe'[Out] = pipe[Out] /\ cgi'.bodyBytes = cgi.bodyBytes
    BY <1>6 DEF ServeCgiBroken, ScriptTyped, Process, PipeTyped, CgiTyped, Handler
  <2> QED
    BY <1>c, <2>1
<1>7. ASSUME ServeWriteq PROVE Goal
  <2>1. script'.wrote = script.wrote /\ pipe'[Out] = pipe[Out] /\ cgi'.bodyBytes = cgi.bodyBytes
    BY <1>7 DEF ServeWriteq, ScriptTyped, Process, PipeTyped, CgiTyped, Handler
  <2> QED
    BY <1>c, <2>1
<1>8. ASSUME ReadPart PROVE Goal
  <2>1. PICK q \in Seq(Output) : q = pipe[Out] /\ q # <<>> /\ pipe'[Out] = Tail(q) /\ Head(q) = "part"
    BY <1>8 DEF ReadPart, Take, PipeTyped
  <2>2. UNCHANGED script /\ cgi'.bodyBytes = cgi.bodyBytes
    BY <1>8 DEF ReadPart, CgiTyped, Handler
  <2>3. Len(q) \in Nat \ {0} /\ Len(Tail(q)) = Len(q) - 1 /\ q[1] = "part"
    BY <2>1, TailIs
  <2>4. PICK n, m, k : n = Len(q) /\ m = script.head /\ k = script.wrote
    OBVIOUS
  <2>5. n \in Nat \ {0} /\ m \in 0 .. 2 /\ k \in Nat
    BY <1>b, <2>3, <2>4
  <2>6. Item(m + k - n + 1) = "part" /\ m + k >= n /\ (k > 0 => m = 2)
    <3>1. 1 \in 1 .. n
      BY <2>5
    <3>2. \A i \in 1 .. n : q[i] = Item(m + k - n + i)
      BY <2>1, <2>4 DEF Written
    <3>3. q[1] = Item(m + k - n + 1)
      BY <3>1, <3>2
    <3>4. m + k >= n /\ (k > 0 => m = 2)
      BY <2>1, <2>4 DEF Written
    <3> QED
      BY <2>3, <3>3, <3>4
  <2>7. n > k
    BY <2>5, <2>6 DEF Item
  <2> QED
    BY <1>b, <1>c, <2>1, <2>2, <2>3, <2>4, <2>5, <2>7, SMTT(30)
<1>9. ASSUME ReadHead PROVE Goal
  <2>1. PICK q \in Seq(Output) : q = pipe[Out] /\ q # <<>> /\ pipe'[Out] = Tail(q) /\ Head(q) = "head"
    BY <1>9 DEF ReadHead, Take, PipeTyped
  <2>2. UNCHANGED script /\ cgi'.bodyBytes = cgi.bodyBytes
    BY <1>9 DEF ReadHead, CgiTyped, Handler
  <2>3. Len(q) \in Nat \ {0} /\ Len(Tail(q)) = Len(q) - 1 /\ q[1] = "head"
    BY <2>1, TailIs
  <2>4. PICK n, m, k : n = Len(q) /\ m = script.head /\ k = script.wrote
    OBVIOUS
  <2>5. n \in Nat \ {0} /\ m \in 0 .. 2 /\ k \in Nat
    BY <1>b, <2>3, <2>4
  <2>6. Item(m + k - n + 1) = "head" /\ m + k >= n /\ (k > 0 => m = 2)
    <3>1. 1 \in 1 .. n
      BY <2>5
    <3>2. \A i \in 1 .. n : q[i] = Item(m + k - n + i)
      BY <2>1, <2>4 DEF Written
    <3>3. q[1] = Item(m + k - n + 1)
      BY <3>1, <3>2
    <3>4. m + k >= n /\ (k > 0 => m = 2)
      BY <2>1, <2>4 DEF Written
    <3> QED
      BY <2>3, <3>3, <3>4
  <2>7. n > k
    BY <2>5, <2>6 DEF Item
  <2> QED
    BY <1>b, <1>c, <2>1, <2>2, <2>3, <2>4, <2>5, <2>7, SMTT(30)
<1>10. ASSUME ReadData PROVE Goal
  <2>1. PICK q \in Seq(Output) : q = pipe[Out] /\ q # <<>> /\ pipe'[Out] = Tail(q) /\ Head(q) = "data"
    BY <1>10 DEF ReadData, Take, PipeTyped
  <2>2. UNCHANGED script /\ cgi'.bodyBytes = cgi.bodyBytes + 1
    <3>1. ~stream.output
      BY <1>0
    <3> QED
      BY <1>10, <3>1 DEF ReadData, CgiTyped, Handler
  <2>3. Len(q) \in Nat \ {0} /\ Len(Tail(q)) = Len(q) - 1 /\ q[1] = "data"
    BY <2>1, TailIs
  <2>4. PICK n, m, k : n = Len(q) /\ m = script.head /\ k = script.wrote
    OBVIOUS
  <2>5. n \in Nat \ {0} /\ m \in 0 .. 2 /\ k \in Nat
    BY <1>b, <2>3, <2>4
  <2>6. Item(m + k - n + 1) = "data" /\ m + k >= n /\ (k > 0 => m = 2)
    <3>1. 1 \in 1 .. n
      BY <2>5
    <3>2. \A i \in 1 .. n : q[i] = Item(m + k - n + i)
      BY <2>1, <2>4 DEF Written
    <3>3. q[1] = Item(m + k - n + 1)
      BY <3>1, <3>2
    <3>4. m + k >= n /\ (k > 0 => m = 2)
      BY <2>1, <2>4 DEF Written
    <3> QED
      BY <2>3, <3>3, <3>4
  <2>7. n <= k
    BY <2>5, <2>6 DEF Item
  <2> QED
    BY <1>b, <1>c, <2>1, <2>2, <2>3, <2>4, <2>5, <2>7, SMTT(30)
<1>11. ASSUME NEW ch \in {Out, Err}, ReadEnd(ch) PROVE Goal
  <2>1. script'.wrote = script.wrote /\ pipe'[Out] = pipe[Out] /\ cgi'.bodyBytes = cgi.bodyBytes
    BY <1>11 DEF ReadEnd, streamVars, ScriptTyped, Process, PipeTyped, CgiTyped, Handler
  <2> QED
    BY <1>c, <2>1
<1>12. ASSUME AfterCallback PROVE Goal
  <2>1. script'.wrote = script.wrote /\ pipe'[Out] = pipe[Out] /\ cgi'.bodyBytes = cgi.bodyBytes
    BY <1>12 DEF AfterCallback, streamVars, ScriptTyped, Process, PipeTyped, CgiTyped, Handler
  <2> QED
    BY <1>c, <2>1
<1>13. ASSUME StartCgi PROVE Goal
  <2>1. script'.wrote = script.wrote /\ pipe'[Out] = pipe[Out] /\ cgi'.bodyBytes = cgi.bodyBytes
    BY <1>13 DEF StartCgi, streamVars, ScriptTyped, Process, PipeTyped, CgiTyped, Handler
  <2> QED
    BY <1>c, <2>1
<1>14. ASSUME BrowserData PROVE Goal
  <2>1. script'.wrote = script.wrote /\ pipe'[Out] = pipe[Out] /\ cgi'.bodyBytes = cgi.bodyBytes
    BY <1>14 DEF BrowserData, ScriptTyped, Process, PipeTyped, CgiTyped, Handler
  <2> QED
    BY <1>c, <2>1
<1>15. ASSUME BrowserEnd PROVE Goal
  <2>1. script'.wrote = script.wrote /\ pipe'[Out] = pipe[Out] /\ cgi'.bodyBytes = cgi.bodyBytes
    BY <1>15 DEF BrowserEnd, ScriptTyped, Process, PipeTyped, CgiTyped, Handler
  <2> QED
    BY <1>c, <2>1
<1>16. ASSUME BrowserShort PROVE Goal
  <2>1. stream'.error
    BY <1>16, RaiseIs DEF BrowserShort, RaiseError, StreamTyped
  <2> QED
    BY <2>1
<1>17. ASSUME Close PROVE Goal
  <2>1. Closed'
    BY <1>17 DEF Close, Closed, CgiTyped, Handler
  <2> QED
    BY <2>1
<1>18. ASSUME NetSend PROVE Goal
  <2>1. script'.wrote = script.wrote /\ pipe'[Out] = pipe[Out] /\ cgi'.bodyBytes = cgi.bodyBytes
    BY <1>18 DEF NetSend, ScriptTyped, Process, PipeTyped, CgiTyped, Handler
  <2> QED
    BY <1>c, <2>1
<1>19. ASSUME ChildDeath PROVE Goal
  <2>1. script'.wrote = script.wrote /\ pipe'[Out] = pipe[Out] /\ cgi'.bodyBytes = cgi.bodyBytes
    BY <1>19 DEF ChildDeath, streamVars, ScriptTyped, Process, PipeTyped, CgiTyped, Handler
  <2> QED
    BY <1>c, <2>1
<1>20. ASSUME ScriptHeads PROVE Goal
  <2>1. PICK q \in Seq(Output) : q = pipe[Out]
    BY DEF PipeTyped
  <2>2. Len(pipe'[Out]) = Len(q) + 1 /\ Len(q) \in Nat
    <3>1. PICK x \in Output : x = IF script.head = 0 THEN "part" ELSE "head"
      BY DEF Output
    <3>2. PICK r : r = Append(q, x)
      OBVIOUS
    <3>3. pipe' = [pipe EXCEPT ![Out] = r]
      BY <1>20, <2>1, <3>1, <3>2 DEF ScriptHeads, ScriptWrites
    <3>4. pipe'[Out] = r
      BY <3>3 DEF PipeTyped
    <3> QED
      BY <3>2, <3>4, MoreIs
  <2>3. cgi'.bodyBytes = cgi.bodyBytes /\ script'.wrote = script.wrote /\ script.wrote = 0
    BY <1>20 DEF ScriptHeads, ScriptWrites, ScriptStep, Written, ScriptTyped, Process
  <2>4. script.head + script.wrote >= Len(q) /\ script.head \in 0 .. 2
    BY <1>b, <2>1 DEF Written
  <2> QED
    BY <1>b, <1>c, <2>1, <2>2, <2>3 DEF Written
<1>21. ASSUME ScriptAnswers PROVE Goal
  <2>1. PICK q \in Seq(Output) : q = pipe[Out]
    BY DEF PipeTyped
  <2>2. Len(pipe'[Out]) = Len(q) + 1 /\ Len(q) \in Nat
    <3>1. PICK x \in Output : x = "data"
      BY DEF Output
    <3>2. PICK r : r = Append(q, x)
      OBVIOUS
    <3>3. pipe' = [pipe EXCEPT ![Out] = r]
      BY <1>21, <2>1, <3>1, <3>2 DEF ScriptAnswers, ScriptWrites
    <3>4. pipe'[Out] = r
      BY <3>3 DEF PipeTyped
    <3> QED
      BY <3>2, <3>4, MoreIs
  <2>3. cgi'.bodyBytes = cgi.bodyBytes /\ script'.wrote = script.wrote + 1
    BY <1>21 DEF ScriptAnswers, ScriptWrites, ScriptStep, Written, ScriptTyped, Process
  <2>4. script.head + script.wrote >= Len(q) /\ script.head \in 0 .. 2
    BY <1>b, <2>1 DEF Written
  <2> QED
    BY <1>b, <1>c, <2>1, <2>2, <2>3 DEF Written
<1>22. ASSUME ScriptReads PROVE Goal
  <2>1. script'.wrote = script.wrote /\ pipe'[Out] = pipe[Out] /\ cgi'.bodyBytes = cgi.bodyBytes
    BY <1>22 DEF ScriptReads, Take, ScriptStep, streamVars, ScriptTyped, Process, PipeTyped, CgiTyped,
        Handler
  <2> QED
    BY <1>c, <2>1
<1>23. ASSUME NEW ch \in Channels, ScriptCloses(ch) PROVE Goal
  <2>1. script'.wrote = script.wrote /\ pipe'[Out] = pipe[Out] /\ cgi'.bodyBytes = cgi.bodyBytes
    BY <1>23 DEF ScriptCloses, ScriptStep, streamVars, ScriptTyped, Process, PipeTyped, CgiTyped, Handler
  <2> QED
    BY <1>c, <2>1
<1>24. ASSUME NEW status \in {0, 1}, ScriptExits(status) PROVE Goal
  <2>1. script'.wrote = script.wrote /\ pipe'[Out] = pipe[Out] /\ cgi'.bodyBytes = cgi.bodyBytes
    BY <1>24 DEF ScriptExits, ScriptStep, streamVars, ScriptTyped, Process, PipeTyped, CgiTyped, Handler
  <2> QED
    BY <1>c, <2>1
<1>25. ASSUME \/ GiveUp \/ ServeCgiEarly \/ ServeDone \/ ReadStops \/ StdinEvent \/ ServiceSignals
              \/ \E ch \in {Out, Err} : OutputEvent(ch)
              \/ \E ch \in Channels : QueueIOEvent(ch)
              \/ UNCHANGED vars
     PROVE  Goal
  <2>1. UNCHANGED <<pipe, script, cgi, stream>>
    BY <1>25, SMT, ZenonT(60) DEF GiveUp, Goto, streamVars, ServeCgiEarly, ServeDone, ReadStops,
        StdinEvent, OutputEvent, QueueIOEvent, ServiceSignals, vars
  <2> QED
    BY <2>1, <1>c DEF Passed
<1> QED
  BY <1>1, <1>2, <1>3, <1>4, <1>5, <1>6, <1>7, <1>8, <1>9, <1>10, <1>11, <1>12, <1>13,
     <1>14, <1>15, <1>16, <1>17, <1>18, <1>19, <1>20, <1>21, <1>22, <1>23, <1>24, <1>25 DEF Next, Call,
         Calls, Service, Script, Serve

\* A location is one that the script has given.
LEMMA LocatedStep ==
  ASSUME States, Located, [Next]_vars
  PROVE  Located'
<1> USE DEF States
<1>1. ASSUME Launch PROVE Located'
  BY <1>1 DEF Launch, At, Goto, Started, RaiseError, RaiseErrorOn, streamVars, Located, CgiTyped, Handler,
      ScriptTyped, Process
<1>2. ASSUME ShortDone PROVE Located'
  BY <1>2 DEF ShortDone, At, PutToCgi, Located, CgiTyped, Handler, ScriptTyped, Process
<1>3. ASSUME ReapAtReset PROVE Located'
  BY <1>3 DEF ReapAtReset, At, Goto, Reaped, Completed, streamVars, Located, CgiTyped, Handler,
      ScriptTyped, Process
<1>4. ASSUME KillAtReset PROVE Located'
  BY <1>4 DEF KillAtReset, At, streamVars, Located, CgiTyped, Handler, ScriptTyped, Process
<1>5. ASSUME ReadHead PROVE Located'
  BY <1>5 DEF ReadHead, Reading, At, Take, streamVars, Located, CgiTyped, Handler, ScriptTyped, Process
<1>6. ASSUME ReadData PROVE Located'
  BY <1>6 DEF ReadData, Reading, At, Take, Goto, RaiseError, RaiseErrorOn, streamVars, Located, CgiTyped,
      Handler, ScriptTyped, Process
<1>7. ASSUME AfterCallback PROVE Located'
  BY <1>7 DEF AfterCallback, At, Goto, Finalize, EnableOutput, streamVars, Located, CgiTyped, Handler,
      ScriptTyped, Process
<1>8. ASSUME StartCgi PROVE Located'
  BY <1>8 DEF StartCgi, MayStart, Idle, Goto, streamVars, Located, CgiTyped, Handler, ScriptTyped, Process
<1>9. ASSUME BrowserEnd PROVE Located'
  BY <1>9 DEF BrowserEnd, MayReceive, Idle, PutToCgi, Goto, Located, CgiTyped, Handler, ScriptTyped, Process
<1>10. ASSUME BrowserShort PROVE Located'
  BY <1>10 DEF BrowserShort, MayReceive, Idle, Reset, Shut, RaiseError, RaiseErrorOn, Located, CgiTyped,
      Handler, ScriptTyped, Process
<1>11. ASSUME Close PROVE Located'
  BY <1>11 DEF Close, Idle, Reset, Shut, Located, CgiTyped, Handler, ScriptTyped, Process
<1>12. ASSUME ChildDeath PROVE Located'
  BY <1>12 DEF ChildDeath, Idle, Goto, Reaped, Completed, RaiseError, RaiseErrorOn, streamVars, Located,
      CgiTyped, Handler, ScriptTyped, Process
<1>13. ASSUME ScriptHeads PROVE Located'
  BY <1>13 DEF ScriptHeads, ScriptWrites, MayWrite, Running, ScriptStep, streamVars, Located, CgiTyped,
      Handler, ScriptTyped, Process
<1>14. ASSUME ScriptAnswers PROVE Located'
  BY <1>14 DEF ScriptAnswers, ScriptWrites, MayWrite, Running, ScriptStep, streamVars, Located, CgiTyped,
      Handler, ScriptTyped, Process
<1>15. ASSUME ScriptReads PROVE Located'
  BY <1>15 DEF ScriptReads, MayRead, Running, Take, ScriptStep, streamVars, Located, CgiTyped, Handler,
      ScriptTyped, Process
<1>16. ASSUME NEW ch \in Channels, ScriptCloses(ch) PROVE Located'
  BY <1>16 DEF ScriptCloses, Running, ScriptStep, streamVars, Located, CgiTyped, Handler, ScriptTyped,
      Process
<1>17. ASSUME NEW status \in {0, 1}, ScriptExits(status) PROVE Located'
  BY <1>17 DEF ScriptExits, Running, ScriptStep, streamVars, Located, CgiTyped, Handler, ScriptTyped,
      Process
<1>18. ASSUME \/ GiveUp \/ ServeCgiEarly \/ ServeCgi \/ ServeCgiBroken \/ ServeWriteq \/ ServeDone
              \/ ReadStops \/ ReadPart \/ BrowserData \/ NetSend \/ StdinEvent \/ ServiceSignals
              \/ \E ch \in {Out, Err} : ReadEnd(ch)
              \/ \E ch \in {Out, Err} : OutputEvent(ch)
              \/ \E ch \in Channels : QueueIOEvent(ch)
              \/ UNCHANGED vars
     PROVE  Located'
  <2>1. UNCHANGED <<cgi, script>>
    BY <1>18, SMT, ZenonT(60) DEF GiveUp, Goto, streamVars, ServeCgiEarly, ServeCgi, ServeCgiBroken,
        ServeWriteq, ServeDone, ReadStops, ReadPart, Take, ReadEnd, BrowserData, PutToCgi, NetSend,
            StdinEvent, OutputEvent, QueueIOEvent, ServiceSignals, vars
  <2> QED
    BY <2>1 DEF Located, CgiTyped, Handler, ScriptTyped, Process
<1> QED
  BY <1>1, <1>2, <1>3, <1>4, <1>5, <1>6, <1>7, <1>8, <1>9, <1>10, <1>11, <1>12, <1>13,
     <1>14, <1>15, <1>16, <1>17, <1>18 DEF Next, Call, Calls, Service, Script, Serve

\* A response that is finalized without an error stays what the script meant it to be.
LEMMA ResponseWholeStep ==
  ASSUME States, PipeTyped, Descriptors, Decided, Before, Passed, Located, ResponseWhole, [Next]_vars
  PROVE  ResponseWhole'
<1> USE DEF States
<1>1. ASSUME Launch PROVE ResponseWhole'
  <2>1. ~cgi.seenHeader /\ ~cgi.cmd
    BY <1>1 DEF Launch, Before, Fresh
  <2>2. CASE stream'.error
    BY <2>2 DEF ResponseWhole
  <2>3. CASE UNCHANGED stream
    <3>1. cgi'.location = cgi.location /\ cgi'.state = cgi.state
      BY <1>1 DEF Launch, CgiTyped, Handler
    <3> QED
      BY <2>1, <2>3, <3>1 DEF ResponseWhole
  <2>4. RaiseError(FALSE) \/ UNCHANGED stream
    BY <1>1 DEF Launch, streamVars
  <2> QED
    BY <2>2, <2>3, <2>4, RaiseIs DEF RaiseError, StreamTyped
<1>2. ASSUME ShortDone PROVE ResponseWhole'
  <2>1. /\ script'.wrote = script.wrote /\ script'.length = script.length /\ script'.open \subseteq script.open
        /\ pipe'[Out] = pipe[Out] /\ cgi'.bodyBytes = cgi.bodyBytes /\ cgi'.seenHeader = cgi.seenHeader
        /\ cgi'.location = cgi.location /\ cgi'.state = cgi.state
        /\ stream'.error = stream.error /\ stream'.output = stream.output /\ stream'.redirected = stream.redirected
    BY <1>2 DEF ShortDone, PutToCgi, ScriptTyped, Process, PipeTyped, CgiTyped, Handler, StreamTyped, Stream
  <2> QED
    BY <2>1 DEF ResponseWhole, AtEnd
<1>3. ASSUME ReapAtReset PROVE ResponseWhole'
  <2>1. /\ script'.wrote = script.wrote /\ script'.length = script.length /\ script'.open \subseteq script.open
        /\ pipe'[Out] = pipe[Out] /\ cgi'.bodyBytes = cgi.bodyBytes /\ cgi'.seenHeader = cgi.seenHeader
        /\ cgi'.location = cgi.location /\ cgi'.state = cgi.state
        /\ stream'.error = stream.error /\ stream'.output = stream.output /\ stream'.redirected = stream.redirected
    BY <1>3 DEF ReapAtReset, streamVars, ScriptTyped, Process, PipeTyped, CgiTyped, Handler, StreamTyped,
        Stream
  <2> QED
    BY <2>1 DEF ResponseWhole, AtEnd
<1>4. ASSUME KillAtReset PROVE ResponseWhole'
  <2>1. /\ script'.wrote = script.wrote /\ script'.length = script.length /\ script'.open \subseteq script.open
        /\ pipe'[Out] = pipe[Out] /\ cgi'.bodyBytes = cgi.bodyBytes /\ cgi'.seenHeader = cgi.seenHeader
        /\ cgi'.location = cgi.location /\ cgi'.state = cgi.state
        /\ stream'.error = stream.error /\ stream'.output = stream.output /\ stream'.redirected = stream.redirected
    BY <1>4 DEF KillAtReset, streamVars, ScriptTyped, Process, PipeTyped, CgiTyped, Handler, StreamTyped,
        Stream
  <2> QED
    BY <2>1 DEF ResponseWhole, AtEnd
<1>5. ASSUME ServeCgi PROVE ResponseWhole'
  <2>1. /\ script'.wrote = script.wrote /\ script'.length = script.length /\ script'.open \subseteq script.open
        /\ pipe'[Out] = pipe[Out] /\ cgi'.bodyBytes = cgi.bodyBytes /\ cgi'.seenHeader = cgi.seenHeader
        /\ cgi'.location = cgi.location /\ cgi'.state = cgi.state
        /\ stream'.error = stream.error /\ stream'.output = stream.output /\ stream'.redirected = stream.redirected
    BY <1>5 DEF ServeCgi, ScriptTyped, Process, PipeTyped, CgiTyped, Handler, StreamTyped, Stream
  <2> QED
    BY <2>1 DEF ResponseWhole, AtEnd
<1>6. ASSUME ServeCgiBroken PROVE ResponseWhole'
  <2>1. [stream EXCEPT !.suspended = FALSE] \in Stream
    BY DEF StreamTyped, Stream
  <2>2. stream'.error
    BY <1>6, <2>1, RaiseIs DEF ServeCgiBroken
  <2> QED
    BY <2>2 DEF ResponseWhole
<1>7. ASSUME ServeWriteq PROVE ResponseWhole'
  <2>1. /\ script'.wrote = script.wrote /\ script'.length = script.length /\ script'.open \subseteq script.open
        /\ pipe'[Out] = pipe[Out] /\ cgi'.bodyBytes = cgi.bodyBytes /\ cgi'.seenHeader = cgi.seenHeader
        /\ cgi'.location = cgi.location /\ cgi'.state = cgi.state
        /\ stream'.error = stream.error /\ stream'.output = stream.output /\ stream'.redirected = stream.redirected
    BY <1>7 DEF ServeWriteq, ScriptTyped, Process, PipeTyped, CgiTyped, Handler, StreamTyped, Stream
  <2> QED
    BY <2>1 DEF ResponseWhole, AtEnd
<1>8. ASSUME ReadPart PROVE ResponseWhole'
  <2>1. pipe[Out] # <<>> /\ UNCHANGED script
    BY <1>8 DEF ReadPart
  <2>2. ~(stream.output /\ ~stream.error /\ ~stream.redirected /\ ~cgi.location /\ cgi.state = "open")
    BY <2>1 DEF ResponseWhole, AtEnd
  <2> QED
    BY <1>8, <2>2 DEF ReadPart, streamVars, ResponseWhole
<1>9. ASSUME ReadHead PROVE ResponseWhole'
  <2>1. pipe[Out] # <<>> /\ UNCHANGED script
    BY <1>9 DEF ReadHead
  <2>2. ~(stream.output /\ ~stream.error /\ ~stream.redirected /\ ~cgi.location /\ cgi.state = "open")
    BY <2>1 DEF ResponseWhole, AtEnd
  <2>3. UNCHANGED stream /\ cgi'.state = cgi.state /\ (cgi.location => cgi'.location)
    BY <1>9 DEF ReadHead, streamVars, CgiTyped, Handler, Located
  <2> QED
    BY <2>2, <2>3 DEF ResponseWhole
<1>10. ASSUME ReadData PROVE ResponseWhole'
  <2>1. pipe[Out] # <<>> /\ UNCHANGED script
    BY <1>10 DEF ReadData
  <2>2. ~(stream.output /\ ~stream.error /\ ~stream.redirected /\ ~cgi.location /\ cgi.state = "open")
    BY <2>1 DEF ResponseWhole, AtEnd
  <2>3. cgi'.location = cgi.location /\ cgi'.state = cgi.state
    BY <1>10 DEF ReadData, CgiTyped, Handler
  <2>4. UNCHANGED stream \/ RaiseError(TRUE)
    BY <1>10 DEF ReadData, streamVars
  <2>5. CASE stream'.error
    BY <2>5 DEF ResponseWhole
  <2> QED
    BY <2>2, <2>3, <2>4, <2>5, RaiseIs DEF ResponseWhole, RaiseError, StreamTyped
<1>11. ASSUME NEW ch \in {Out, Err}, ReadEnd(ch) PROVE ResponseWhole'
  <2>1. UNCHANGED <<cgi, pipe, script>>
    BY <1>11 DEF ReadEnd
  <2>2. CASE stream'.error
    BY <2>2 DEF ResponseWhole
  <2>3. CASE UNCHANGED stream
    BY <2>1, <2>3 DEF ResponseWhole, AtEnd
  <2>4. CASE FinalizeOutput /\ ch = Out /\ cgi.seenHeader /\ ~WrongLength
    <3>1. stream'.error = stream.error /\ stream'.redirected = stream.redirected
      BY <2>4 DEF FinalizeOutput, StreamTyped, Stream
    <3>2. CASE stream.output
      BY <2>1, <3>1, <3>2 DEF ResponseWhole, AtEnd
    <3>3. CASE ~stream.output
      <4>1. SUFFICES ASSUME ~stream.error, ~cgi.location, cgi.state = "open"
                     PROVE  /\ cgi.seenHeader /\ AtEnd(Out) /\ cgi.bodyBytes = script.wrote
                            /\ script.length >= 0 => cgi.bodyBytes = script.length
        BY <2>1, <3>1 DEF ResponseWhole, AtEnd
      <4>2. AtEnd(Out)
        BY <1>11, <2>4 DEF ReadEnd
      <4>3. cgi.bodyBytes = script.wrote
        <5>1. Len(pipe[Out]) = 0 /\ script.wrote \in Nat
          BY <4>2 DEF AtEnd, ScriptTyped, Process
        <5> QED
          BY <3>3, <4>1, <5>1 DEF Passed, Closed
      <4>4. script.length >= 0 => cgi.bodyBytes = script.length
        BY <2>4, <3>3, <4>1 DEF WrongLength
      <4> QED
        BY <2>4, <4>2, <4>3, <4>4
    <3> QED
      BY <3>2, <3>3
  <2>5. \/ UNCHANGED stream \/ RaiseError(FALSE) \/ RaiseError(TRUE)
        \/ FinalizeOutput /\ ch = Out /\ cgi.seenHeader /\ ~WrongLength
    BY <1>11 DEF ReadEnd, streamVars
  <2> QED
    BY <2>2, <2>3, <2>4, <2>5, RaiseIs DEF RaiseError, StreamTyped
<1>12. ASSUME AfterCallback PROVE ResponseWhole'
  <2>1. UNCHANGED <<pipe,
      script>> /\ cgi'.seenHeader = cgi.seenHeader /\ cgi'.bodyBytes = cgi.bodyBytes /\ cgi'.state = cgi.state
    BY <1>12 DEF AfterCallback, CgiTyped, Handler
  <2>2. CASE UNCHANGED <<cgi, stream>>
    BY <2>1, <2>2 DEF ResponseWhole, AtEnd
  <2>3. CASE Finalize(cgi.location) /\ cgi.location
    <3>1. stream'.redirected
      BY <2>3 DEF Finalize, StreamTyped, Stream
    <3> QED
      BY <3>1 DEF ResponseWhole
  <2>4. CASE Finalize(cgi.location) /\ ~cgi.location /\ cmd.complete
    <3>1. stream'.error = stream.error /\ stream'.redirected = stream.redirected
      BY <2>4 DEF Finalize, StreamTyped, Stream
    <3>2. Closed \/ stream.error \/ stream.output
      BY <2>4 DEF Descriptors, Decided, Ends
    <3> QED
      BY <2>1, <2>4, <3>1, <3>2 DEF ResponseWhole, Closed, AtEnd
  <2> QED
    BY <1>12, <2>2, <2>3, <2>4 DEF AfterCallback, streamVars
<1>13. ASSUME StartCgi PROVE ResponseWhole'
  <2>1. /\ script'.wrote = script.wrote /\ script'.length = script.length /\ script'.open \subseteq script.open
        /\ pipe'[Out] = pipe[Out] /\ cgi'.bodyBytes = cgi.bodyBytes /\ cgi'.seenHeader = cgi.seenHeader
        /\ cgi'.location = cgi.location /\ cgi'.state = cgi.state
        /\ stream'.error = stream.error /\ stream'.output = stream.output /\ stream'.redirected = stream.redirected
    BY <1>13 DEF StartCgi, streamVars, ScriptTyped, Process, PipeTyped, CgiTyped, Handler, StreamTyped,
        Stream
  <2> QED
    BY <2>1 DEF ResponseWhole, AtEnd
<1>14. ASSUME BrowserData PROVE ResponseWhole'
  <2>1. /\ script'.wrote = script.wrote /\ script'.length = script.length /\ script'.open \subseteq script.open
        /\ pipe'[Out] = pipe[Out] /\ cgi'.bodyBytes = cgi.bodyBytes /\ cgi'.seenHeader = cgi.seenHeader
        /\ cgi'.location = cgi.location /\ cgi'.state = cgi.state
        /\ stream'.error = stream.error /\ stream'.output = stream.output /\ stream'.redirected = stream.redirected
    BY <1>14 DEF BrowserData, PutToCgi, ScriptTyped, Process, PipeTyped, CgiTyped, Handler, StreamTyped,
        Stream
  <2> QED
    BY <2>1 DEF ResponseWhole, AtEnd
<1>15. ASSUME BrowserEnd PROVE ResponseWhole'
  <2>1. /\ script'.wrote = script.wrote /\ script'.length = script.length /\ script'.open \subseteq script.open
        /\ pipe'[Out] = pipe[Out] /\ cgi'.bodyBytes = cgi.bodyBytes /\ cgi'.seenHeader = cgi.seenHeader
        /\ cgi'.location = cgi.location /\ cgi'.state = cgi.state
        /\ stream'.error = stream.error /\ stream'.output = stream.output /\ stream'.redirected = stream.redirected
    BY <1>15 DEF BrowserEnd, PutToCgi, ScriptTyped, Process, PipeTyped, CgiTyped, Handler, StreamTyped,
        Stream
  <2> QED
    BY <2>1 DEF ResponseWhole, AtEnd
<1>16. ASSUME BrowserShort PROVE ResponseWhole'
  <2>1. stream'.error
    BY <1>16, RaiseIs DEF BrowserShort, RaiseError, StreamTyped
  <2> QED
    BY <2>1 DEF ResponseWhole
<1>17. ASSUME Close PROVE ResponseWhole'
  <2>1. cgi'.state # "open"
    BY <1>17 DEF Close, CgiTyped, Handler
  <2> QED
    BY <2>1 DEF ResponseWhole
<1>18. ASSUME NetSend PROVE ResponseWhole'
  <2>1. /\ script'.wrote = script.wrote /\ script'.length = script.length /\ script'.open \subseteq script.open
        /\ pipe'[Out] = pipe[Out] /\ cgi'.bodyBytes = cgi.bodyBytes /\ cgi'.seenHeader = cgi.seenHeader
        /\ cgi'.location = cgi.location /\ cgi'.state = cgi.state
        /\ stream'.error = stream.error /\ stream'.output = stream.output /\ stream'.redirected = stream.redirected
    BY <1>18 DEF NetSend, ScriptTyped, Process, PipeTyped, CgiTyped, Handler, StreamTyped, Stream
  <2> QED
    BY <2>1 DEF ResponseWhole, AtEnd
<1>19. ASSUME ChildDeath PROVE ResponseWhole'
  <2>1. UNCHANGED <<pipe,
      cgi>> /\ script'.open = script.open /\ script'.wrote = script.wrote /\ script'.length = script.length
    BY <1>19 DEF ChildDeath, ScriptTyped, Process
  <2>2. UNCHANGED stream \/ RaiseError(FALSE)
    BY <1>19 DEF ChildDeath, streamVars
  <2>3. CASE stream'.error
    BY <2>3 DEF ResponseWhole
  <2> QED
    BY <2>1, <2>2, <2>3, RaiseIs DEF ResponseWhole, AtEnd, RaiseError, StreamTyped
<1>20. ASSUME ScriptHeads PROVE ResponseWhole'
  <2>1. Out \in script.open /\ UNCHANGED <<cgi, stream>>
    BY <1>20 DEF ScriptHeads, ScriptWrites, ScriptStep, MayWrite, streamVars
  <2> QED
    BY <2>1 DEF ResponseWhole, AtEnd
<1>21. ASSUME ScriptAnswers PROVE ResponseWhole'
  <2>1. Out \in script.open /\ UNCHANGED <<cgi, stream>>
    BY <1>21 DEF ScriptAnswers, ScriptWrites, ScriptStep, MayWrite, streamVars
  <2> QED
    BY <2>1 DEF ResponseWhole, AtEnd
<1>22. ASSUME ScriptReads PROVE ResponseWhole'
  <2>1. /\ script'.wrote = script.wrote /\ script'.length = script.length /\ script'.open \subseteq script.open
        /\ pipe'[Out] = pipe[Out] /\ cgi'.bodyBytes = cgi.bodyBytes /\ cgi'.seenHeader = cgi.seenHeader
        /\ cgi'.location = cgi.location /\ cgi'.state = cgi.state
        /\ stream'.error = stream.error /\ stream'.output = stream.output /\ stream'.redirected = stream.redirected
    BY <1>22 DEF ScriptReads, Take, ScriptStep, streamVars, ScriptTyped, Process, PipeTyped, CgiTyped,
        Handler, StreamTyped, Stream
  <2> QED
    BY <2>1 DEF ResponseWhole, AtEnd
<1>23. ASSUME NEW ch \in Channels, ScriptCloses(ch) PROVE ResponseWhole'
  <2>1. /\ script'.wrote = script.wrote /\ script'.length = script.length /\ script'.open \subseteq script.open
        /\ pipe'[Out] = pipe[Out] /\ cgi'.bodyBytes = cgi.bodyBytes /\ cgi'.seenHeader = cgi.seenHeader
        /\ cgi'.location = cgi.location /\ cgi'.state = cgi.state
        /\ stream'.error = stream.error /\ stream'.output = stream.output /\ stream'.redirected = stream.redirected
    BY <1>23 DEF ScriptCloses, ScriptStep, streamVars, ScriptTyped, Process, PipeTyped, CgiTyped, Handler,
        StreamTyped, Stream
  <2> QED
    BY <2>1 DEF ResponseWhole, AtEnd
<1>24. ASSUME NEW status \in {0, 1}, ScriptExits(status) PROVE ResponseWhole'
  <2>1. /\ script'.wrote = script.wrote /\ script'.length = script.length /\ script'.open \subseteq script.open
        /\ pipe'[Out] = pipe[Out] /\ cgi'.bodyBytes = cgi.bodyBytes /\ cgi'.seenHeader = cgi.seenHeader
        /\ cgi'.location = cgi.location /\ cgi'.state = cgi.state
        /\ stream'.error = stream.error /\ stream'.output = stream.output /\ stream'.redirected = stream.redirected
    BY <1>24 DEF ScriptExits, ScriptStep, streamVars, ScriptTyped, Process, PipeTyped, CgiTyped, Handler,
        StreamTyped, Stream
  <2> QED
    BY <2>1 DEF ResponseWhole, AtEnd
<1>25. ASSUME \/ GiveUp \/ ServeCgiEarly \/ ServeDone \/ ReadStops \/ StdinEvent \/ ServiceSignals
              \/ \E ch \in {Out, Err} : OutputEvent(ch)
              \/ \E ch \in Channels : QueueIOEvent(ch)
              \/ UNCHANGED vars
     PROVE  ResponseWhole'
  <2>1. UNCHANGED <<pipe, script, cgi, stream>>
    BY <1>25, SMT, ZenonT(60) DEF GiveUp, Goto, streamVars, ServeCgiEarly, ServeDone, ReadStops,
        StdinEvent, OutputEvent, QueueIOEvent, ServiceSignals, vars
  <2> QED
    BY <2>1 DEF ResponseWhole, AtEnd
<1> QED
  BY <1>1, <1>2, <1>3, <1>4, <1>5, <1>6, <1>7, <1>8, <1>9, <1>10, <1>11, <1>12, <1>13,
     <1>14, <1>15, <1>16, <1>17, <1>18, <1>19, <1>20, <1>21, <1>22, <1>23, <1>24, <1>25 DEF Next, Call,
         Calls, Service, Script, Serve

-----------------------------------------------------------------------------
(* Queues and pipes *)

\* One more packet
LEMMA PutIs ==
  ASSUME NEW q \in Seq(Packet), NEW x \in Packet
  PROVE  /\ Append(q, x) \in Seq(Packet) /\ Len(Append(q, x)) = Len(q) + 1 /\ Len(q) \in Nat
         /\ \A i \in 1 .. Len(q) + 1 : Append(q, x)[i] = IF i <= Len(q) THEN q[i] ELSE x
BY AppendProperties, LenProperties

\* The first packets of a queue, and the rest
LEMMA PartsAre ==
  ASSUME NEW q \in Seq(Packet), NEW n \in 0 .. Len(q)
  PROVE  /\ SubSeq(q, 1, n) \in Seq(Packet) /\ Len(SubSeq(q, 1, n)) = n
         /\ \A i \in 1 .. n : SubSeq(q, 1, n)[i] = q[i]
         /\ SubSeq(q, n + 1, Len(q)) \in Seq(Packet) /\ Len(SubSeq(q, n + 1, Len(q))) = Len(q) - n
         /\ \A i \in 1 .. Len(q) - n : SubSeq(q, n + 1, Len(q))[i] = q[n + i]
<1>1. /\ Len(q) \in Nat /\ n \in Int /\ n + 1 \in Int /\ Len(q) \in Int /\ 1 \in Int
      /\ \A i \in 1 .. Len(q) : q[i] \in Packet
  BY LenProperties, ElementOfSeq
<1>2. \A i \in 1 .. n : q[i] \in Packet
  BY <1>1
<1>3. \A i \in n + 1 .. Len(q) : q[i] \in Packet
  BY <1>1
<1>4. /\ SubSeq(q, 1, n) \in Seq(Packet) /\ Len(SubSeq(q, 1, n)) = IF 1 <= n THEN n - 1 + 1 ELSE 0
      /\ \A i \in 1 .. n - 1 + 1 : SubSeq(q, 1, n)[i] = q[1 + i - 1]
  BY <1>1, <1>2, SubSeqProperties
<1>5. /\ SubSeq(q, n + 1, Len(q)) \in Seq(Packet)
      /\ Len(SubSeq(q, n + 1, Len(q))) = IF n + 1 <= Len(q) THEN Len(q) - (n + 1) + 1 ELSE 0
      /\ \A i \in 1 .. Len(q) - (n + 1) + 1 : SubSeq(q, n + 1, Len(q))[i] = q[(n + 1) + i - 1]
  BY <1>1, <1>3, SubSeqProperties
<1> QED
  BY <1>1, <1>4, <1>5

\* The units of a queue come before its end.
LEMMA UnitsAre ==
  ASSUME NEW q \in Seq(Packet)
  PROVE  /\ Units(q) \in 0 .. Len(q) /\ Len(q) \in Nat
         /\ (\A i \in DOMAIN q : q[i] = END => i = Len(q)) => \A i \in 1 .. Units(q) : q[i] = "data"
<1> DEFINE U == {i \in DOMAIN q : q[i] # END}
<1>1. Len(q) \in Nat /\ DOMAIN q = 1 .. Len(q) /\ \A i \in 1 .. Len(q) : q[i] \in Packet
  BY LenProperties, ElementOfSeq
<1>2. /\ IsFiniteSet(1 .. Len(q)) /\ Cardinality(1 .. Len(q)) = Len(q)
      /\ IsFiniteSet(1 .. Len(q) - 1) /\ (Len(q) > 0 => Cardinality(1 .. Len(q) - 1) = Len(q) - 1)
  <2>1. PICK l \in Nat : l = Len(q)
    BY <1>1
  <2>2. 1 \in Int /\ l \in Int /\ l - 1 \in Int
    OBVIOUS
  <2>3. IsFiniteSet(1 .. l) /\ Cardinality(1 .. l) = l
    BY <2>2, FS_Interval
  <2>4. IsFiniteSet(1 .. l - 1) /\ Cardinality(1 .. l - 1) = IF 1 > l - 1 THEN 0 ELSE l - 1 - 1 + 1
    BY <2>2, FS_Interval, Zenon
  <2>5. l > 0 => (IF 1 > l - 1 THEN 0 ELSE l - 1 - 1 + 1) = l - 1
    OBVIOUS
  <2> QED
    BY <2>1, <2>3, <2>4, <2>5
<1>3. U \in SUBSET (1 .. Len(q)) /\ Units(q) = Cardinality(U)
  BY <1>1 DEF Units
<1>4. Cardinality(U) \in Nat /\ Cardinality(U) <= Len(q)
  BY <1>2, <1>3, FS_Subset, FS_CardinalityType
<1>5. ASSUME \A i \in DOMAIN q : q[i] = END => i = Len(q), NEW i \in 1 .. Units(q)
      PROVE  q[i] = "data"
  <2>1. i \in 1 .. Len(q)
    BY <1>1, <1>3, <1>4
  <2>2. SUFFICES ASSUME q[i] = END PROVE FALSE
    BY <1>1, <2>1 DEF Packet
  <2>3. i = Len(q)
    BY <1>1, <1>5, <2>1, <2>2
  <2>4. U \in SUBSET (1 .. Len(q) - 1)
    BY <1>1, <2>2, <2>3
  <2>5. Cardinality(U) <= Len(q) - 1
    BY <1>1, <1>2, <2>1, <2>4, FS_Subset
  <2> QED
    BY <1>1, <1>3, <1>4, <2>3, <2>5
<1> QED
  BY <1>1, <1>3, <1>4, <1>5

\* What the pipeline accepts is a first part of the queue.
LEMMA AcceptedIs ==
  ASSUME ResponseTyped
  PROVE  Accepted \in 0 .. Len(writeq.packets)
<1>1. writeq.packets \in Seq(Packet)
  BY DEF ResponseTyped, Queue
<1>2. Len(writeq.packets) \in Nat
  BY <1>1, LenProperties
<1>3. IsFiniteSet(1 .. Len(writeq.packets)) /\ Cardinality(1 .. Len(writeq.packets)) = Len(writeq.packets)
  BY <1>2, FS_Interval
<1>4. PICK A : A = {n \in 1 .. Len(writeq.packets) : \A i \in 1 .. n : Fits(i)}
  OBVIOUS
<1>5. A \in SUBSET (1 .. Len(writeq.packets)) /\ Accepted = Cardinality(A)
  BY <1>4 DEF Accepted
<1>6. IsFiniteSet(A) /\ Cardinality(A) <= Len(writeq.packets)
  BY <1>3, <1>5, FS_Subset
<1>7. Cardinality(A) \in Nat
  BY <1>6, FS_CardinalityType
<1> QED
  BY <1>2, <1>5, <1>6, <1>7

\* What can be written to the script are units of the body, as many as the pipe has room for.
LEMMA WritableIs ==
  ASSUME CgiqTyped, PipeTyped, Bounds
  PROVE  /\ Writable \in 0 .. Units(cgiq.packets) /\ Len(pipe[In]) \in Nat
         /\ Len(pipe[In]) + Writable <= PipeSize
<1>1. Units(cgiq.packets) \in Nat
  BY UnitsAre DEF CgiqTyped, Queue
<1>2. Len(pipe[In]) \in Nat /\ Len(pipe[In]) <= PipeSize /\ PipeSize \in Nat
  BY LenProperties, CgiAssumption DEF PipeTyped, Bounds
<1> QED
  BY <1>1, <1>2 DEF Writable, Room

\* The client keeps its types.
LEMMA ClientTypedStep ==
  ASSUME ClientTyped, [Next]_vars
  PROVE  ClientTyped'
<1>1. ASSUME BrowserData PROVE ClientTyped'
  BY <1>1 DEF BrowserData, MayReceive, Idle, PutToCgi, Goto, ClientTyped, Client
<1>2. ASSUME BrowserEnd PROVE ClientTyped'
  BY <1>2 DEF BrowserEnd, MayReceive, Idle, PutToCgi, Goto, ClientTyped, Client
<1>3. ASSUME BrowserShort PROVE ClientTyped'
  BY <1>3 DEF BrowserShort, MayReceive, Idle, Reset, Shut, RaiseError, RaiseErrorOn, ClientTyped, Client
<1>4. ASSUME \/ Launch \/ ShortDone \/ ReapAtReset \/ KillAtReset \/ GiveUp \/ ServeCgiEarly
             \/ ServeCgi \/ ServeCgiBroken \/ ServeWriteq \/ ServeDone \/ ReadStops \/ ReadPart
             \/ ReadHead \/ ReadData \/ AfterCallback \/ StartCgi \/ Close \/ NetSend \/ StdinEvent
             \/ ChildDeath \/ ServiceSignals \/ ScriptHeads \/ ScriptAnswers \/ ScriptReads
             \/ \E ch \in {Out, Err} : ReadEnd(ch)
             \/ \E ch \in {Out, Err} : OutputEvent(ch)
             \/ \E ch \in Channels : QueueIOEvent(ch)
             \/ \E ch \in Channels : ScriptCloses(ch)
             \/ \E status \in {0, 1} : ScriptExits(status)
             \/ UNCHANGED vars
     PROVE  ClientTyped'
  <2>1. UNCHANGED <<client>>
    BY <1>4, SMT, ZenonT(60) DEF Launch, Goto, streamVars, ShortDone, PutToCgi, ReapAtReset, KillAtReset,
        GiveUp, ServeCgiEarly, ServeCgi, ServeCgiBroken, ServeWriteq, ServeDone, ReadStops, ReadPart, Take,
            ReadHead, ReadData, ReadEnd, AfterCallback, StartCgi, Close, Reset, NetSend, StdinEvent,
                OutputEvent, ChildDeath, QueueIOEvent, ServiceSignals, ScriptHeads, ScriptWrites,
                    ScriptStep, ScriptAnswers, ScriptReads, ScriptCloses, ScriptExits, vars
  <2> QED
    BY <2>1 DEF ClientTyped, Client
<1> QED
  BY <1>1, <1>2, <1>3, <1>4 DEF Next, Call, Calls, Service, Script, Serve

\* The end of the body is put once, and after the body.
LEMMA CgiqStep ==
  ASSUME CgiqTyped, PipeTyped, Bounds, ClientTyped, PlaceTyped, EndLast, [Next]_vars
  PROVE  CgiqTyped' /\ EndLast'
<1>1. ASSUME Launch PROVE CgiqTyped' /\ EndLast'
  <2>1. UNCHANGED <<cgiq, client>> /\ (Short' => Short)
    BY <1>1 DEF Launch, At, Goto, Short, PlaceTyped, Place
  <2> QED
    BY <2>1 DEF EndLast, CgiqTyped
<1>2. ASSUME ShortDone PROVE CgiqTyped' /\ EndLast'
  <2>1. UNCHANGED client /\ ~Short' /\ Short
    BY <1>2 DEF ShortDone, Short, At
  <2>2. PICK q \in Seq(Packet) : q = cgiq.packets /\ cgiq'.packets = Append(q,
      END) /\ cgiq'.suspended = cgiq.suspended
    BY <1>2 DEF ShortDone, PutToCgi, CgiqTyped, Queue
  <2>3. cgiq' = [cgiq EXCEPT !.packets = Append(q, END)]
    BY <1>2, <2>2 DEF ShortDone, PutToCgi
  <2>4. Append(q, END) \in Seq(Packet) /\ Len(q) \in Nat /\ Len(Append(q, END)) = Len(q) + 1
        /\ \A i \in 1 .. Len(q) + 1 : Append(q, END)[i] = IF i <= Len(q) THEN q[i] ELSE END
    BY PutIs DEF Packet
  <2>5. \A i \in 1 .. Len(q) : q[i] # END
    BY <2>1, <2>2, LenProperties DEF EndLast
  <2>6. DOMAIN cgiq'.packets = 1 .. Len(q) + 1
    BY <2>2, <2>4, LenProperties
  <2>7. \A i \in DOMAIN cgiq'.packets : cgiq'.packets[i] = END => i = Len(cgiq'.packets) /\ client'.ended /\ ~Short'
    BY <2>1, <2>2, <2>4, <2>5, <2>6 DEF EndLast
  <2>8. cgiq' \in Queue
    BY <2>3, <2>4 DEF CgiqTyped, Queue
  <2> QED
    BY <2>1, <2>7, <2>8 DEF EndLast, CgiqTyped
<1>3. ASSUME ReapAtReset PROVE CgiqTyped' /\ EndLast'
  <2>1. UNCHANGED <<cgiq, client>> /\ (Short' => Short)
    BY <1>3 DEF ReapAtReset, At, Goto, Short, PlaceTyped, Place
  <2> QED
    BY <2>1 DEF EndLast, CgiqTyped
<1>4. ASSUME GiveUp PROVE CgiqTyped' /\ EndLast'
  <2>1. UNCHANGED <<cgiq, client>> /\ (Short' => Short)
    BY <1>4 DEF GiveUp, At, Goto, Short, PlaceTyped, Place
  <2> QED
    BY <2>1 DEF EndLast, CgiqTyped
<1>5. ASSUME ServeCgi PROVE CgiqTyped' /\ EndLast'
  <2>0. PICK q \in Seq(Packet) : q = cgiq.packets
    BY DEF CgiqTyped, Queue
  <2>1. PICK n \in 0 .. Len(q) : q = cgiq.packets /\ n = Writable /\ UNCHANGED <<client, pc>>
    BY <1>5, <2>0, WritableIs, UnitsAre DEF ServeCgi
  <2>2. PICK r : r = SubSeq(q, n + 1, Len(q))
    OBVIOUS
  <2>3. r \in Seq(Packet) /\ Len(r) = Len(q) - n /\ \A i \in 1 .. Len(q) - n : r[i] = q[n + i]
    BY <2>2, PartsAre
  <2>4. PICK b \in BOOLEAN : cgiq' = [packets |-> IF b THEN r ELSE <<>>, suspended |-> b]
    <3>1. PICK b \in BOOLEAN : b = (Units(r) > 0)
      <4>1. (Units(r) > 0) \in BOOLEAN
        OBVIOUS
      <4> QED
        BY <4>1, Zenon
    <3> QED
      BY <1>5, <2>1, <2>2, <3>1 DEF ServeCgi
  <2>5. <<>> \in Seq(Packet) /\ DOMAIN <<>> = {} /\ Len(q) \in Nat /\ DOMAIN q = 1 .. Len(q) /\ DOMAIN r = 1 .. Len(r)
    BY <2>3, LenProperties
  <2>6. cgiq' \in Queue
    BY <2>3, <2>4, <2>5 DEF Queue
  <2>7. \A i \in DOMAIN r : r[i] = END => i = Len(r) /\ client.ended /\ ~Short
    <3>1. ASSUME NEW i \in DOMAIN r, r[i] = END PROVE i = Len(r) /\ client.ended /\ ~Short
      <4>1. i \in 1 .. Len(q) - n /\ n \in Nat /\ n <= Len(q) /\ q[n + i] = END
        BY <2>1, <2>3, <2>5, <3>1
      <4>2. n + i \in DOMAIN q
        BY <2>5, <4>1
      <4>3. n + i = Len(q) /\ client.ended /\ ~Short
        BY <2>1, <4>1, <4>2 DEF EndLast
      <4> QED
        BY <2>3, <2>5, <4>1, <4>3
    <3> QED
      BY <3>1
  <2>8. CASE b
    <3>1. cgiq'.packets = r
      BY <2>4, <2>8
    <3> QED
      BY <2>1, <2>6, <2>7, <3>1 DEF EndLast, CgiqTyped, Short, At
  <2>9. CASE ~b
    <3>1. cgiq'.packets = <<>>
      BY <2>4, <2>9
    <3> QED
      BY <2>1, <2>5, <2>6, <3>1 DEF EndLast, CgiqTyped, Short, At
  <2> QED
    BY <2>8, <2>9
<1>6. ASSUME ServeCgiBroken PROVE CgiqTyped' /\ EndLast'
  <2>1. UNCHANGED <<client, pc>> /\ (Short' => Short)
    BY <1>6 DEF ServeCgiBroken, Short, At
  <2>2. PICK q : q = IF \E i \in DOMAIN cgiq.packets : cgiq.packets[i] = END THEN <<END>> ELSE <<>>
    OBVIOUS
  <2>3. cgiq' = [cgiq EXCEPT !.packets = q]
    BY <1>6, <2>2 DEF ServeCgiBroken
  <2>4. q \in Seq(Packet)
    <3>1. <<END>> \in Seq(Packet) /\ <<>> \in Seq(Packet)
      BY DEF Packet
    <3> QED
      BY <2>2, <3>1
  <2>5. cgiq' \in Queue /\ cgiq'.packets = q
    BY <2>3, <2>4 DEF CgiqTyped, Queue
  <2>6. \A i \in DOMAIN q : q[i] = END => i = Len(q) /\ client.ended /\ ~Short
    BY <2>2 DEF EndLast
  <2> QED
    BY <2>1, <2>5, <2>6 DEF EndLast, CgiqTyped, Short, At
<1>7. ASSUME ServeDone PROVE CgiqTyped' /\ EndLast'
  <2>1. UNCHANGED <<cgiq, client>> /\ (Short' => Short)
    BY <1>7 DEF ServeDone, At, Short, PlaceTyped, Place
  <2> QED
    BY <2>1 DEF EndLast, CgiqTyped
<1>8. ASSUME ReadStops PROVE CgiqTyped' /\ EndLast'
  <2>1. UNCHANGED <<cgiq, client>> /\ (Short' => Short)
    BY <1>8 DEF ReadStops, At, Goto, Short, PlaceTyped, Place
  <2> QED
    BY <2>1 DEF EndLast, CgiqTyped
<1>9. ASSUME ReadPart PROVE CgiqTyped' /\ EndLast'
  <2>1. UNCHANGED <<cgiq, client>> /\ (Short' => Short)
    BY <1>9 DEF ReadPart, Reading, At, Goto, Short, PlaceTyped, Place
  <2> QED
    BY <2>1 DEF EndLast, CgiqTyped
<1>10. ASSUME ReadData PROVE CgiqTyped' /\ EndLast'
  <2>1. UNCHANGED <<cgiq, client>> /\ (Short' => Short)
    BY <1>10 DEF ReadData, Reading, At, Goto, Short, PlaceTyped, Place
  <2> QED
    BY <2>1 DEF EndLast, CgiqTyped
<1>11. ASSUME NEW ch \in {Out, Err}, ReadEnd(ch) PROVE CgiqTyped' /\ EndLast'
  <2>1. UNCHANGED <<cgiq, client>> /\ (Short' => Short)
    BY <1>11 DEF ReadEnd, Reading, At, Goto, Short, PlaceTyped, Place
  <2> QED
    BY <2>1 DEF EndLast, CgiqTyped
<1>12. ASSUME AfterCallback PROVE CgiqTyped' /\ EndLast'
  <2>1. UNCHANGED <<cgiq, client>> /\ (Short' => Short)
    BY <1>12 DEF AfterCallback, At, Goto, Short, PlaceTyped, Place
  <2> QED
    BY <2>1 DEF EndLast, CgiqTyped
<1>13. ASSUME StartCgi PROVE CgiqTyped' /\ EndLast'
  <2>1. UNCHANGED <<cgiq, client>> /\ (Short' => Short)
    BY <1>13 DEF StartCgi, Idle, Goto, Short, At, PlaceTyped, Place
  <2> QED
    BY <2>1 DEF EndLast, CgiqTyped
<1>14. ASSUME BrowserData PROVE CgiqTyped' /\ EndLast'
  <2>1. ~client.ended /\ client'.ended = client.ended /\ ~Short'
    BY <1>14 DEF BrowserData, MayReceive, Idle, Goto, Short, At, ClientTyped, Client
  <2>2. PICK q \in Seq(Packet) : q = cgiq.packets /\ cgiq'.packets = Append(q,
      "data") /\ cgiq'.suspended = cgiq.suspended
    BY <1>14 DEF BrowserData, PutToCgi, CgiqTyped, Queue
  <2>3. cgiq' = [cgiq EXCEPT !.packets = Append(q, "data")]
    BY <1>14, <2>2 DEF BrowserData, PutToCgi
  <2>4. Append(q, "data") \in Seq(Packet) /\ Len(q) \in Nat /\ Len(Append(q, "data")) = Len(q) + 1
        /\ \A i \in 1 .. Len(q) + 1 : Append(q, "data")[i] = IF i <= Len(q) THEN q[i] ELSE "data"
    BY PutIs DEF Packet
  <2>5. \A i \in 1 .. Len(q) : q[i] # END
    BY <2>1, <2>2, LenProperties DEF EndLast
  <2>6. DOMAIN cgiq'.packets = 1 .. Len(q) + 1
    BY <2>2, <2>4, LenProperties
  <2>7. \A i \in DOMAIN cgiq'.packets : cgiq'.packets[i] = END => i = Len(cgiq'.packets) /\ client'.ended /\ ~Short'
    BY <2>1, <2>2, <2>4, <2>5, <2>6
  <2>8. cgiq' \in Queue
    BY <2>3, <2>4 DEF CgiqTyped, Queue
  <2> QED
    BY <2>1, <2>7, <2>8 DEF EndLast, CgiqTyped
<1>15. ASSUME BrowserEnd PROVE CgiqTyped' /\ EndLast'
  <2>1. ~client.ended /\ client'.ended = TRUE /\ ~Short'
    BY <1>15 DEF BrowserEnd, MayReceive, Idle, Goto, Short, At, ClientTyped, Client
  <2>2. PICK q \in Seq(Packet) : q = cgiq.packets /\ cgiq'.packets = Append(q,
      END) /\ cgiq'.suspended = cgiq.suspended
    BY <1>15 DEF BrowserEnd, PutToCgi, CgiqTyped, Queue
  <2>3. cgiq' = [cgiq EXCEPT !.packets = Append(q, END)]
    BY <1>15, <2>2 DEF BrowserEnd, PutToCgi
  <2>4. Append(q, END) \in Seq(Packet) /\ Len(q) \in Nat /\ Len(Append(q, END)) = Len(q) + 1
        /\ \A i \in 1 .. Len(q) + 1 : Append(q, END)[i] = IF i <= Len(q) THEN q[i] ELSE END
    BY PutIs DEF Packet
  <2>5. \A i \in 1 .. Len(q) : q[i] # END
    BY <2>1, <2>2, LenProperties DEF EndLast
  <2>6. DOMAIN cgiq'.packets = 1 .. Len(q) + 1
    BY <2>2, <2>4, LenProperties
  <2>7. \A i \in DOMAIN cgiq'.packets : cgiq'.packets[i] = END => i = Len(cgiq'.packets) /\ client'.ended /\ ~Short'
    BY <2>1, <2>2, <2>4, <2>5, <2>6
  <2>8. cgiq' \in Queue
    BY <2>3, <2>4 DEF CgiqTyped, Queue
  <2> QED
    BY <2>1, <2>7, <2>8 DEF EndLast, CgiqTyped
<1>16. ASSUME BrowserShort PROVE CgiqTyped' /\ EndLast'
  <2>1. ~client.ended /\ client'.ended /\ UNCHANGED cgiq
    BY <1>16 DEF BrowserShort, MayReceive, ClientTyped, Client
  <2> QED
    BY <2>1 DEF EndLast, CgiqTyped
<1>17. ASSUME Close PROVE CgiqTyped' /\ EndLast'
  <2>1. UNCHANGED client /\ cgiq' = [packets |-> <<>>, suspended |-> FALSE] /\ (Short' => Short)
    BY <1>17 DEF Close, Reset, Short, At, Idle
  <2>2. <<>> \in Seq(Packet) /\ DOMAIN <<>> = {}
    OBVIOUS
  <2> QED
    BY <2>1, <2>2 DEF EndLast, CgiqTyped, Queue
<1>18. ASSUME NetSend PROVE CgiqTyped' /\ EndLast'
  <2>1. UNCHANGED <<cgiq, client>> /\ (Short' => Short)
    BY <1>18 DEF NetSend, Idle, Goto, Short, At, PlaceTyped, Place
  <2> QED
    BY <2>1 DEF EndLast, CgiqTyped
<1>19. ASSUME StdinEvent PROVE CgiqTyped' /\ EndLast'
  <2>1. UNCHANGED client /\ (Short' => Short)
    BY <1>19 DEF StdinEvent, Idle, Goto, Short, At
  <2>2. cgiq'.packets = cgiq.packets /\ cgiq' \in Queue
    BY <1>19 DEF StdinEvent, CgiqTyped, Queue
  <2> QED
    BY <2>1, <2>2 DEF EndLast, CgiqTyped
<1>20. ASSUME NEW ch \in {Out, Err}, OutputEvent(ch) PROVE CgiqTyped' /\ EndLast'
  <2>1. UNCHANGED <<cgiq, client>> /\ (Short' => Short)
    BY <1>20 DEF OutputEvent, Idle, Goto, Short, At, PlaceTyped, Place
  <2> QED
    BY <2>1 DEF EndLast, CgiqTyped
<1>21. ASSUME ChildDeath PROVE CgiqTyped' /\ EndLast'
  <2>1. UNCHANGED <<cgiq, client>> /\ (Short' => Short)
    BY <1>21 DEF ChildDeath, Idle, Goto, Short, At, PlaceTyped, Place
  <2> QED
    BY <2>1 DEF EndLast, CgiqTyped
<1>22. ASSUME \/ KillAtReset \/ ServeCgiEarly \/ ServeWriteq \/ ReadHead \/ ServiceSignals
              \/ ScriptHeads \/ ScriptAnswers \/ ScriptReads
              \/ \E ch \in Channels : QueueIOEvent(ch)
              \/ \E ch \in Channels : ScriptCloses(ch)
              \/ \E status \in {0, 1} : ScriptExits(status)
              \/ UNCHANGED vars
     PROVE  CgiqTyped' /\ EndLast'
  <2>1. UNCHANGED <<cgiq, client, pc>>
    BY <1>22, SMT, ZenonT(60) DEF KillAtReset, streamVars, ServeCgiEarly, ServeWriteq, ReadHead, Take,
        QueueIOEvent, ServiceSignals, ScriptHeads, ScriptWrites, ScriptStep, ScriptAnswers, ScriptReads,
            ScriptCloses, ScriptExits, vars
  <2> QED
    BY <2>1 DEF CgiqTyped, EndLast, Short, At
<1> QED
  BY <1>1, <1>2, <1>3, <1>4, <1>5, <1>6, <1>7, <1>8, <1>9, <1>10, <1>11, <1>12, <1>13,
     <1>14, <1>15, <1>16, <1>17, <1>18, <1>19, <1>20, <1>21, <1>22 DEF Next, Call, Calls, Service, Script,
         Serve

\* The queues of the response keep their types.
LEMMA ResponseStep ==
  ASSUME ResponseTyped, StreamTyped, [Next]_vars
  PROVE  ResponseTyped'
<1>1. ASSUME Launch PROVE ResponseTyped'
  <2>1. UNCHANGED down /\ (UNCHANGED writeq \/ RaiseError(FALSE))
    BY <1>1 DEF Launch, streamVars
  <2> QED
    BY <2>1, RaiseIs DEF ResponseTyped, RaiseError, StreamTyped
<1>2. ASSUME ServeCgiBroken PROVE ResponseTyped'
  <2>1. [stream EXCEPT !.suspended = FALSE] \in Stream
    BY DEF StreamTyped, Stream
  <2>2. UNCHANGED down
    BY <1>2 DEF ServeCgiBroken
  <2> QED
    BY <1>2, <2>1, <2>2, RaiseIs DEF ServeCgiBroken, ResponseTyped
<1>3. ASSUME ServeWriteq PROVE ResponseTyped'
  <2>1. PICK q \in Seq(Packet) : q = writeq.packets
    BY DEF ResponseTyped, Queue
  <2>2. PICK n \in 0 .. Len(q) : n = Accepted
    BY <2>1, AcceptedIs
  <2>3. PICK s, r : s = SubSeq(q, 1, n) /\ r = SubSeq(q, n + 1, Len(q))
    OBVIOUS
  <2>4. s \in Seq(Packet) /\ r \in Seq(Packet)
    BY <2>3, PartsAre
  <2>5. down' = down \o s /\ writeq' = [packets |-> r, suspended |-> r # <<>>]
    BY <1>3, <2>1, <2>2, <2>3 DEF ServeWriteq
  <2>6. down' \in Seq(Packet)
    BY <2>4, <2>5, ConcatProperties DEF ResponseTyped
  <2>7. (r # <<>>) \in BOOLEAN
    OBVIOUS
  <2>8. writeq' \in Queue
    BY <2>4, <2>5, <2>7 DEF Queue
  <2> QED
    BY <2>6, <2>8 DEF ResponseTyped
<1>4. ASSUME ReadData PROVE ResponseTyped'
  <2>8. PICK q \in Seq(Packet) : q = writeq.packets
    BY DEF ResponseTyped, Queue
  <2>9. Append(q, END) \in Seq(Packet) /\ Append(q, "data") \in Seq(Packet)
    BY PutIs DEF Packet
  <2>1. PICK p : p = Append(q, "data")
    OBVIOUS
  <2>2. UNCHANGED down /\ (UNCHANGED writeq \/ RaiseError(TRUE) \/ writeq' = [writeq EXCEPT !.packets = p])
    BY <1>4, <2>8, <2>1 DEF ReadData, streamVars
  <2>3. CASE writeq' = [writeq EXCEPT !.packets = p]
    BY <2>9, <2>1, <2>2, <2>3 DEF ResponseTyped, Queue
  <2> QED
    BY <2>2, <2>3, RaiseIs DEF ResponseTyped, RaiseError, StreamTyped
<1>5. ASSUME NEW ch \in {Out, Err}, ReadEnd(ch) PROVE ResponseTyped'
  <2>8. PICK q \in Seq(Packet) : q = writeq.packets
    BY DEF ResponseTyped, Queue
  <2>9. Append(q, END) \in Seq(Packet) /\ Append(q, "data") \in Seq(Packet)
    BY PutIs DEF Packet
  <2>1. UNCHANGED down /\ (UNCHANGED writeq \/ RaiseError(TRUE) \/ RaiseError(FALSE) \/ FinalizeOutput)
    BY <1>5 DEF ReadEnd, streamVars
  <2>2. CASE FinalizeOutput
    <3>1. PICK p \in Seq(Packet) : p = WithEnd(q)
      BY <2>9 DEF WithEnd
    <3>2. writeq' = [writeq EXCEPT !.packets = p]
      BY <2>2, <2>8, <3>1 DEF FinalizeOutput
    <3> QED
      BY <2>1, <3>2 DEF ResponseTyped, Queue
  <2> QED
    BY <2>1, <2>2, RaiseIs DEF ResponseTyped, RaiseError, StreamTyped
<1>6. ASSUME AfterCallback PROVE ResponseTyped'
  <2>8. PICK q \in Seq(Packet) : q = writeq.packets
    BY DEF ResponseTyped, Queue
  <2>9. Append(q, END) \in Seq(Packet) /\ Append(q, "data") \in Seq(Packet)
    BY PutIs DEF Packet
  <2>1. UNCHANGED down /\ (UNCHANGED writeq \/ Finalize(cgi.location))
    BY <1>6 DEF AfterCallback, streamVars
  <2>2. CASE Finalize(cgi.location)
    <3>1. PICK p \in Seq(Packet) : p = WithEnd(q)
      BY <2>9 DEF WithEnd
    <3>2. writeq' = [writeq EXCEPT !.packets = p]
      BY <2>2, <2>8, <3>1 DEF Finalize
    <3> QED
      BY <2>1, <3>2 DEF ResponseTyped, Queue
  <2> QED
    BY <2>1, <2>2 DEF ResponseTyped
<1>7. ASSUME BrowserShort PROVE ResponseTyped'
  <2>1. UNCHANGED down /\ (UNCHANGED writeq \/ RaiseError(FALSE))
    BY <1>7 DEF BrowserShort, streamVars
  <2> QED
    BY <2>1, RaiseIs DEF ResponseTyped, RaiseError, StreamTyped
<1>8. ASSUME Close PROVE ResponseTyped'
  <2>1. writeq' = [packets |-> <<>>, suspended |-> FALSE] /\ down' = <<>>
    BY <1>8 DEF Close
  <2>2. <<>> \in Seq(Packet)
    OBVIOUS
  <2> QED
    BY <2>1, <2>2 DEF ResponseTyped, Queue
<1>9. ASSUME NetSend PROVE ResponseTyped'
  <2>1. down # <<>> /\ down' = Tail(down)
    BY <1>9 DEF NetSend
  <2>2. down' \in Seq(Packet)
    BY <2>1, HeadTailProperties DEF ResponseTyped
  <2>3. writeq' = writeq \/ writeq' = [writeq EXCEPT !.suspended = FALSE]
    BY <1>9 DEF NetSend
  <2> QED
    BY <2>2, <2>3 DEF ResponseTyped, Queue
<1>10. ASSUME ChildDeath PROVE ResponseTyped'
  <2>1. UNCHANGED down /\ (UNCHANGED writeq \/ RaiseError(FALSE))
    BY <1>10 DEF ChildDeath, streamVars
  <2> QED
    BY <2>1, RaiseIs DEF ResponseTyped, RaiseError, StreamTyped
<1>11. ASSUME \/ ShortDone \/ ReapAtReset \/ KillAtReset \/ GiveUp \/ ServeCgiEarly \/ ServeCgi
              \/ ServeDone \/ ReadStops \/ ReadPart \/ ReadHead \/ StartCgi \/ BrowserData
              \/ BrowserEnd \/ StdinEvent \/ ServiceSignals \/ ScriptHeads \/ ScriptAnswers
              \/ ScriptReads
              \/ \E ch \in {Out, Err} : OutputEvent(ch)
              \/ \E ch \in Channels : QueueIOEvent(ch)
              \/ \E ch \in Channels : ScriptCloses(ch)
              \/ \E status \in {0, 1} : ScriptExits(status)
              \/ UNCHANGED vars
     PROVE  ResponseTyped'
  <2>1. UNCHANGED <<writeq, down>>
    BY <1>11, SMT, ZenonT(60) DEF ShortDone, PutToCgi, ReapAtReset, Goto, streamVars, KillAtReset, GiveUp,
        ServeCgiEarly, ServeCgi, ServeDone, ReadStops, ReadPart, Take, ReadHead, StartCgi, BrowserData,
            BrowserEnd, StdinEvent, OutputEvent, QueueIOEvent, ServiceSignals, ScriptHeads, ScriptWrites,
                ScriptStep, ScriptAnswers, ScriptReads, ScriptCloses, ScriptExits, vars
  <2> QED
    BY <2>1 DEF ResponseTyped
<1> QED
  BY <1>1, <1>2, <1>3, <1>4, <1>5, <1>6, <1>7, <1>8, <1>9, <1>10, <1>11 DEF Next, Call, Calls, Service,
      Script, Serve

\* The events and the schedule keep their types.
LEMMA EventsTypedStep ==
  ASSUME EventsTyped, StreamTyped, [Next]_vars
  PROVE  EventsTyped'
<1>1. ASSUME Launch PROVE EventsTyped'
  <2>1. events' \subseteq events
    BY <1>1 DEF Launch
  <2>2. UNCHANGED sched \/ (\E b \in BOOLEAN : RaiseError(b))
    BY <1>1 DEF Launch, streamVars
  <2> QED
    BY <2>1, <2>2, RaiseIs DEF EventsTyped, RaiseError, StreamTyped
<1>2. ASSUME ShortDone PROVE EventsTyped'
  <2>1. /\ sched' \subseteq sched \cup {"cgiq", "writeq"}
        /\ events' \subseteq events \cup Channels \cup {"sigchld", "child"}
    BY <1>2 DEF ShortDone, PutToCgi
  <2> QED
    BY <2>1 DEF EventsTyped
<1>3. ASSUME ServeCgiEarly PROVE EventsTyped'
  <2>1. /\ sched' \subseteq sched \cup {"cgiq", "writeq"}
        /\ events' \subseteq events \cup Channels \cup {"sigchld", "child"}
    BY <1>3 DEF ServeCgiEarly
  <2> QED
    BY <2>1 DEF EventsTyped
<1>4. ASSUME ServeCgi PROVE EventsTyped'
  <2>1. /\ sched' \subseteq sched \cup {"cgiq", "writeq"}
        /\ events' \subseteq events \cup Channels \cup {"sigchld", "child"}
    BY <1>4 DEF ServeCgi
  <2> QED
    BY <2>1 DEF EventsTyped
<1>5. ASSUME ServeCgiBroken PROVE EventsTyped'
  <2>1. [stream EXCEPT !.suspended = FALSE] \in Stream
    BY DEF StreamTyped, Stream
  <2>2. UNCHANGED events /\ sched' \subseteq (sched \ {"cgiq"}) \cup {"writeq"}
    BY <1>5, <2>1, RaiseIs DEF ServeCgiBroken
  <2> QED
    BY <2>2 DEF EventsTyped
<1>6. ASSUME ServeWriteq PROVE EventsTyped'
  <2>1. /\ sched' \subseteq sched \cup {"cgiq", "writeq"}
        /\ events' \subseteq events \cup Channels \cup {"sigchld", "child"}
    BY <1>6 DEF ServeWriteq
  <2> QED
    BY <2>1 DEF EventsTyped
<1>7. ASSUME ServeDone PROVE EventsTyped'
  <2>1. /\ sched' \subseteq sched \cup {"cgiq", "writeq"}
        /\ events' \subseteq events \cup Channels \cup {"sigchld", "child"}
    BY <1>7 DEF ServeDone
  <2> QED
    BY <2>1 DEF EventsTyped
<1>8. ASSUME ReadData PROVE EventsTyped'
  <2>1. events' \subseteq events
    BY <1>8 DEF ReadData
  <2>2. UNCHANGED sched \/ (\E b \in BOOLEAN : RaiseError(b)) \/ sched' \subseteq sched \cup {"writeq"}
    BY <1>8 DEF ReadData, streamVars
  <2> QED
    BY <2>1, <2>2, RaiseIs DEF EventsTyped, RaiseError, StreamTyped
<1>9. ASSUME NEW ch \in {Out, Err}, ReadEnd(ch) PROVE EventsTyped'
  <2>1. events' \subseteq events
    BY <1>9 DEF ReadEnd
  <2>2. UNCHANGED sched \/ (\E b \in BOOLEAN : RaiseError(b)) \/ sched' \subseteq sched \cup {"writeq"}
    BY <1>9 DEF ReadEnd, streamVars, FinalizeOutput
  <2> QED
    BY <2>1, <2>2, RaiseIs DEF EventsTyped, RaiseError, StreamTyped
<1>10. ASSUME AfterCallback PROVE EventsTyped'
  <2>1. /\ sched' \subseteq sched \cup {"cgiq", "writeq"}
        /\ events' \subseteq events \cup Channels \cup {"sigchld", "child"}
    BY <1>10 DEF AfterCallback, Finalize, streamVars
  <2> QED
    BY <2>1 DEF EventsTyped
<1>11. ASSUME BrowserData PROVE EventsTyped'
  <2>1. /\ sched' \subseteq sched \cup {"cgiq", "writeq"}
        /\ events' \subseteq events \cup Channels \cup {"sigchld", "child"}
    BY <1>11 DEF BrowserData, PutToCgi
  <2> QED
    BY <2>1 DEF EventsTyped
<1>12. ASSUME BrowserEnd PROVE EventsTyped'
  <2>1. /\ sched' \subseteq sched \cup {"cgiq", "writeq"}
        /\ events' \subseteq events \cup Channels \cup {"sigchld", "child"}
    BY <1>12 DEF BrowserEnd, PutToCgi
  <2> QED
    BY <2>1 DEF EventsTyped
<1>13. ASSUME BrowserShort PROVE EventsTyped'
  <2>1. events' \subseteq events
    BY <1>13 DEF BrowserShort
  <2>2. UNCHANGED sched \/ (\E b \in BOOLEAN : RaiseError(b))
    BY <1>13 DEF BrowserShort, streamVars
  <2> QED
    BY <2>1, <2>2, RaiseIs DEF EventsTyped, RaiseError, StreamTyped
<1>14. ASSUME Close PROVE EventsTyped'
  <2>1. /\ sched' \subseteq sched \cup {"cgiq", "writeq"}
        /\ events' \subseteq events \cup Channels \cup {"sigchld", "child"}
    BY <1>14 DEF Close
  <2> QED
    BY <2>1 DEF EventsTyped
<1>15. ASSUME NetSend PROVE EventsTyped'
  <2>1. /\ sched' \subseteq sched \cup {"cgiq", "writeq"}
        /\ events' \subseteq events \cup Channels \cup {"sigchld", "child"}
    BY <1>15 DEF NetSend
  <2> QED
    BY <2>1 DEF EventsTyped
<1>16. ASSUME StdinEvent PROVE EventsTyped'
  <2>1. /\ sched' \subseteq sched \cup {"cgiq", "writeq"}
        /\ events' \subseteq events \cup Channels \cup {"sigchld", "child"}
    BY <1>16 DEF StdinEvent
  <2> QED
    BY <2>1 DEF EventsTyped
<1>17. ASSUME NEW ch \in {Out, Err}, OutputEvent(ch) PROVE EventsTyped'
  <2>1. /\ sched' \subseteq sched \cup {"cgiq", "writeq"}
        /\ events' \subseteq events \cup Channels \cup {"sigchld", "child"}
    BY <1>17 DEF OutputEvent, streamVars
  <2> QED
    BY <2>1 DEF EventsTyped
<1>18. ASSUME ChildDeath PROVE EventsTyped'
  <2>1. events' \subseteq events
    BY <1>18 DEF ChildDeath
  <2>2. UNCHANGED sched \/ (\E b \in BOOLEAN : RaiseError(b))
    BY <1>18 DEF ChildDeath, streamVars
  <2> QED
    BY <2>1, <2>2, RaiseIs DEF EventsTyped, RaiseError, StreamTyped
<1>19. ASSUME NEW ch \in Channels, QueueIOEvent(ch) PROVE EventsTyped'
  <2>1. /\ sched' \subseteq sched \cup {"cgiq", "writeq"}
        /\ events' \subseteq events \cup Channels \cup {"sigchld", "child"}
    BY <1>19 DEF QueueIOEvent, streamVars
  <2> QED
    BY <2>1 DEF EventsTyped
<1>20. ASSUME ServiceSignals PROVE EventsTyped'
  <2>1. /\ sched' \subseteq sched \cup {"cgiq", "writeq"}
        /\ events' \subseteq events \cup Channels \cup {"sigchld", "child"}
    BY <1>20 DEF ServiceSignals, streamVars
  <2> QED
    BY <2>1 DEF EventsTyped
<1>21. ASSUME NEW status \in {0, 1}, ScriptExits(status) PROVE EventsTyped'
  <2>1. /\ sched' \subseteq sched \cup {"cgiq", "writeq"}
        /\ events' \subseteq events \cup Channels \cup {"sigchld", "child"}
    BY <1>21 DEF ScriptExits, ScriptStep, streamVars
  <2> QED
    BY <2>1 DEF EventsTyped
<1>22. ASSUME \/ ReapAtReset \/ KillAtReset \/ GiveUp \/ ReadStops \/ ReadPart \/ ReadHead
              \/ StartCgi \/ ScriptHeads \/ ScriptAnswers \/ ScriptReads
              \/ \E ch \in Channels : ScriptCloses(ch)
              \/ UNCHANGED vars
     PROVE  EventsTyped'
  <2>1. UNCHANGED <<sched, events>>
    BY <1>22, SMT, ZenonT(60) DEF ReapAtReset, Goto, streamVars, KillAtReset, GiveUp, ReadStops, ReadPart,
        Take, ReadHead, StartCgi, ScriptHeads, ScriptWrites, ScriptStep, ScriptAnswers, ScriptReads,
            ScriptCloses, vars
  <2> QED
    BY <2>1 DEF EventsTyped
<1> QED
  BY <1>1, <1>2, <1>3, <1>4, <1>5, <1>6, <1>7, <1>8, <1>9, <1>10, <1>11, <1>12, <1>13,
     <1>14, <1>15, <1>16, <1>17, <1>18, <1>19, <1>20, <1>21, <1>22 DEF Next, Call, Calls, Service, Script,
         Serve

\* No pipe holds more than it can, and the pipe of the body holds nothing but the body.
LEMMA PipeStep ==
  ASSUME CgiqTyped, PipeTyped, Bounds, EndLast, ScriptTyped, [Next]_vars
  PROVE  PipeTyped' /\ Bounds'
<1>1. ASSUME Launch PROVE PipeTyped' /\ Bounds'
  <2>1. UNCHANGED pipe /\ script'.wrote = script.wrote /\ script'.out = script.out
    BY <1>1 DEF Launch, streamVars, ScriptTyped, Process
  <2> QED
    BY <2>1 DEF PipeTyped, Bounds
<1>2. ASSUME ReapAtReset PROVE PipeTyped' /\ Bounds'
  <2>1. UNCHANGED pipe /\ script'.wrote = script.wrote /\ script'.out = script.out
    BY <1>2 DEF ReapAtReset, streamVars, ScriptTyped, Process
  <2> QED
    BY <2>1 DEF PipeTyped, Bounds
<1>3. ASSUME KillAtReset PROVE PipeTyped' /\ Bounds'
  <2>1. UNCHANGED pipe /\ script'.wrote = script.wrote /\ script'.out = script.out
    BY <1>3 DEF KillAtReset, streamVars, ScriptTyped, Process
  <2> QED
    BY <2>1 DEF PipeTyped, Bounds
<1>4. ASSUME ServeCgi PROVE PipeTyped' /\ Bounds'
  <2>1. PICK p \in Seq(Output), q \in Seq(Packet) : p = pipe[In] /\ q = cgiq.packets
    BY DEF PipeTyped, CgiqTyped, Queue
  <2>2. PICK n \in 0 .. Len(q) : n = Writable /\ Len(p) \in Nat /\ Len(p) + n <= PipeSize /\ n <= Units(q)
    BY <2>1, WritableIs, UnitsAre
  <2>3. PICK s : s = SubSeq(q, 1, n)
    OBVIOUS
  <2>4. s \in Seq(Output) /\ Len(s) = n
    <3>1. Len(s) = n /\ s \in Seq(Packet) /\ \A i \in 1 .. n : s[i] = q[i]
      BY <2>3, PartsAre
    <3>2. \A i \in 1 .. Units(q) : q[i] = "data"
      <4>1. \A i \in DOMAIN q : q[i] = END => i = Len(q)
        BY <2>1 DEF EndLast
      <4> QED
        BY <4>1, UnitsAre
    <3>3. \A i \in 1 .. n : s[i] \in Output
      <4>1. Units(q) \in Nat /\ n \in Nat
        BY <2>2, UnitsAre
      <4>2. \A i \in 1 .. n : i \in 1 .. Units(q)
        BY <2>2, <4>1
      <4> QED
        BY <3>1, <3>2, <4>2 DEF Output
    <3>4. DOMAIN s = 1 .. n /\ s = [i \in 1 .. n |-> s[i]]
      BY <3>1, LenProperties
    <3> QED
      BY <3>1, <3>3, <3>4
  <2>5. PICK r : r = p \o s
    OBVIOUS
  <2>6. r \in Seq(Output) /\ Len(r) = Len(p) + n
    BY <2>4, <2>5, ConcatProperties
  <2>7. pipe' = [pipe EXCEPT ![In] = r] /\ UNCHANGED script
    BY <1>4, <2>1, <2>2, <2>3, <2>5 DEF ServeCgi
  <2>8. PipeTyped' /\ \A c \in Channels : pipe'[c] = IF c = In THEN r ELSE pipe[c]
    BY <2>6, <2>7 DEF PipeTyped
  <2>9. \A c \in Channels : Len(pipe'[c]) <= PipeSize
    BY <2>2, <2>6, <2>8 DEF Bounds
  <2> QED
    BY <2>7, <2>8, <2>9 DEF Bounds
<1>5. ASSUME ReadPart PROVE PipeTyped' /\ Bounds'
  <2>1. CASE pipe[Out] # <<>> /\ Take(Out) /\ UNCHANGED script
    <3>1. PICK q \in Seq(Output) : q = pipe[Out]
      BY DEF PipeTyped
    <3>2. PICK r : r = Tail(q)
      OBVIOUS
    <3>3. r \in Seq(Output) /\ Len(q) \in Nat /\ Len(r) <= Len(q)
      BY <2>1, <3>1, <3>2, TailIs
    <3>4. pipe' = [pipe EXCEPT ![Out] = r]
      BY <2>1, <3>1, <3>2 DEF Take
    <3>5. PipeTyped' /\ \A c \in Channels : pipe'[c] = IF c = Out THEN r ELSE pipe[c]
      BY <3>3, <3>4 DEF PipeTyped
    <3>6. Len(q) <= PipeSize /\ PipeSize \in Nat
      BY <3>1, CgiAssumption DEF Bounds
    <3>7. Len(r) <= PipeSize
      <4>1. Len(r) \in Nat
        BY <3>3, LenProperties
      <4> QED
        BY <3>3, <3>6, <4>1
    <3>8. \A c \in Channels : Len(pipe'[c]) <= PipeSize
      BY <3>5, <3>7 DEF Bounds
    <3> QED
      BY <2>1, <3>5, <3>8 DEF Bounds
  <2>2. CASE UNCHANGED pipe /\ script' = [script EXCEPT !.eof = TRUE]
    BY <2>2 DEF PipeTyped, Bounds, ScriptTyped, Process
  <2> QED
    BY <1>5, <2>1, <2>2 DEF ReadPart
<1>6. ASSUME ReadHead PROVE PipeTyped' /\ Bounds'
  <2>1. CASE pipe[Out] # <<>> /\ Take(Out) /\ UNCHANGED script
    <3>1. PICK q \in Seq(Output) : q = pipe[Out]
      BY DEF PipeTyped
    <3>2. PICK r : r = Tail(q)
      OBVIOUS
    <3>3. r \in Seq(Output) /\ Len(q) \in Nat /\ Len(r) <= Len(q)
      BY <2>1, <3>1, <3>2, TailIs
    <3>4. pipe' = [pipe EXCEPT ![Out] = r]
      BY <2>1, <3>1, <3>2 DEF Take
    <3>5. PipeTyped' /\ \A c \in Channels : pipe'[c] = IF c = Out THEN r ELSE pipe[c]
      BY <3>3, <3>4 DEF PipeTyped
    <3>6. Len(q) <= PipeSize /\ PipeSize \in Nat
      BY <3>1, CgiAssumption DEF Bounds
    <3>7. Len(r) <= PipeSize
      <4>1. Len(r) \in Nat
        BY <3>3, LenProperties
      <4> QED
        BY <3>3, <3>6, <4>1
    <3>8. \A c \in Channels : Len(pipe'[c]) <= PipeSize
      BY <3>5, <3>7 DEF Bounds
    <3> QED
      BY <2>1, <3>5, <3>8 DEF Bounds
  <2>2. CASE UNCHANGED pipe /\ script' = [script EXCEPT !.eof = TRUE]
    BY <2>2 DEF PipeTyped, Bounds, ScriptTyped, Process
  <2> QED
    BY <1>6, <2>1, <2>2 DEF ReadHead
<1>7. ASSUME ReadData PROVE PipeTyped' /\ Bounds'
  <2>1. CASE pipe[Out] # <<>> /\ Take(Out) /\ UNCHANGED script
    <3>1. PICK q \in Seq(Output) : q = pipe[Out]
      BY DEF PipeTyped
    <3>2. PICK r : r = Tail(q)
      OBVIOUS
    <3>3. r \in Seq(Output) /\ Len(q) \in Nat /\ Len(r) <= Len(q)
      BY <2>1, <3>1, <3>2, TailIs
    <3>4. pipe' = [pipe EXCEPT ![Out] = r]
      BY <2>1, <3>1, <3>2 DEF Take
    <3>5. PipeTyped' /\ \A c \in Channels : pipe'[c] = IF c = Out THEN r ELSE pipe[c]
      BY <3>3, <3>4 DEF PipeTyped
    <3>6. Len(q) <= PipeSize /\ PipeSize \in Nat
      BY <3>1, CgiAssumption DEF Bounds
    <3>7. Len(r) <= PipeSize
      <4>1. Len(r) \in Nat
        BY <3>3, LenProperties
      <4> QED
        BY <3>3, <3>6, <4>1
    <3>8. \A c \in Channels : Len(pipe'[c]) <= PipeSize
      BY <3>5, <3>7 DEF Bounds
    <3> QED
      BY <2>1, <3>5, <3>8 DEF Bounds
  <2>2. CASE UNCHANGED pipe /\ script' = [script EXCEPT !.eof = TRUE]
    BY <2>2 DEF PipeTyped, Bounds, ScriptTyped, Process
  <2> QED
    BY <1>7, <2>1, <2>2 DEF ReadData
<1>8. ASSUME BrowserShort PROVE PipeTyped' /\ Bounds'
  <2>1. script'.wrote = script.wrote /\ script'.out = script.out
    BY <1>8 DEF BrowserShort, Reset, ScriptTyped, Process
  <2>2. CASE pipe' = pipe
    BY <2>1, <2>2 DEF PipeTyped, Bounds
  <2>3. CASE pipe' = [c \in Channels |-> <<>>]
    <3>1. <<>> \in Seq(Output) /\ Len(<<>>) = 0 /\ PipeSize \in Nat
      BY CgiAssumption
    <3>2. PipeTyped' /\ \A c \in Channels : pipe'[c] = <<>>
      BY <2>3, <3>1 DEF PipeTyped
    <3> QED
      BY <2>1, <3>1, <3>2 DEF Bounds
  <2> QED
    BY <1>8, <2>2, <2>3 DEF BrowserShort, Reset
<1>9. ASSUME Close PROVE PipeTyped' /\ Bounds'
  <2>1. script'.wrote = script.wrote /\ script'.out = script.out
    BY <1>9 DEF Close, Reset, ScriptTyped, Process
  <2>2. CASE pipe' = pipe
    BY <2>1, <2>2 DEF PipeTyped, Bounds
  <2>3. CASE pipe' = [c \in Channels |-> <<>>]
    <3>1. <<>> \in Seq(Output) /\ Len(<<>>) = 0 /\ PipeSize \in Nat
      BY CgiAssumption
    <3>2. PipeTyped' /\ \A c \in Channels : pipe'[c] = <<>>
      BY <2>3, <3>1 DEF PipeTyped
    <3> QED
      BY <2>1, <3>1, <3>2 DEF Bounds
  <2> QED
    BY <1>9, <2>2, <2>3 DEF Close, Reset
<1>10. ASSUME ChildDeath PROVE PipeTyped' /\ Bounds'
  <2>1. UNCHANGED pipe /\ script'.wrote = script.wrote /\ script'.out = script.out
    BY <1>10 DEF ChildDeath, streamVars, ScriptTyped, Process
  <2> QED
    BY <2>1 DEF PipeTyped, Bounds
<1>11. ASSUME ScriptHeads PROVE PipeTyped' /\ Bounds'
  <2>1. PICK q \in Seq(Output) : q = pipe[Out]
    BY DEF PipeTyped
  <2>2. PICK x \in Output : x = IF script.head = 0 THEN "part" ELSE "head"
    BY DEF Output
  <2>3. PICK r : r = Append(q, x)
    OBVIOUS
  <2>4. r \in Seq(Output) /\ Len(q) \in Nat /\ Len(r) = Len(q) + 1
    BY <2>3, MoreIs
  <2>5. pipe' = [pipe EXCEPT ![Out] = r] /\ Len(q) < PipeSize
    BY <1>11, <2>1, <2>2, <2>3 DEF ScriptHeads, ScriptWrites, MayWrite
  <2>6. PipeTyped' /\ \A c \in Channels : pipe'[c] = IF c = Out THEN r ELSE pipe[c]
    BY <2>4, <2>5 DEF PipeTyped
  <2>7. Len(r) <= PipeSize
    BY <2>4, <2>5, CgiAssumption
  <2>8. \A c \in Channels : Len(pipe'[c]) <= PipeSize
    BY <2>6, <2>7 DEF Bounds
  <2>9. script'.wrote <= script'.out
    BY <1>11 DEF ScriptHeads, Bounds, ScriptTyped, Process
  <2> QED
    BY <2>6, <2>8, <2>9 DEF Bounds
<1>12. ASSUME ScriptAnswers PROVE PipeTyped' /\ Bounds'
  <2>1. PICK q \in Seq(Output) : q = pipe[Out]
    BY DEF PipeTyped
  <2>2. PICK x \in Output : x = "data"
    BY DEF Output
  <2>3. PICK r : r = Append(q, x)
    OBVIOUS
  <2>4. r \in Seq(Output) /\ Len(q) \in Nat /\ Len(r) = Len(q) + 1
    BY <2>3, MoreIs
  <2>5. pipe' = [pipe EXCEPT ![Out] = r] /\ Len(q) < PipeSize
    BY <1>12, <2>1, <2>2, <2>3 DEF ScriptAnswers, ScriptWrites, MayWrite
  <2>6. PipeTyped' /\ \A c \in Channels : pipe'[c] = IF c = Out THEN r ELSE pipe[c]
    BY <2>4, <2>5 DEF PipeTyped
  <2>7. Len(r) <= PipeSize
    BY <2>4, <2>5, CgiAssumption
  <2>8. \A c \in Channels : Len(pipe'[c]) <= PipeSize
    BY <2>6, <2>7 DEF Bounds
  <2>9. script'.wrote <= script'.out
    BY <1>12 DEF ScriptAnswers, Bounds, ScriptTyped, Process
  <2> QED
    BY <2>6, <2>8, <2>9 DEF Bounds
<1>13. ASSUME ScriptReads PROVE PipeTyped' /\ Bounds'
  <2>1. CASE pipe[In] # <<>> /\ Take(In) /\ UNCHANGED script
    <3>1. PICK q \in Seq(Output) : q = pipe[In]
      BY DEF PipeTyped
    <3>2. PICK r : r = Tail(q)
      OBVIOUS
    <3>3. r \in Seq(Output) /\ Len(q) \in Nat /\ Len(r) <= Len(q)
      BY <2>1, <3>1, <3>2, TailIs
    <3>4. pipe' = [pipe EXCEPT ![In] = r]
      BY <2>1, <3>1, <3>2 DEF Take
    <3>5. PipeTyped' /\ \A c \in Channels : pipe'[c] = IF c = In THEN r ELSE pipe[c]
      BY <3>3, <3>4 DEF PipeTyped
    <3>6. Len(q) <= PipeSize /\ PipeSize \in Nat
      BY <3>1, CgiAssumption DEF Bounds
    <3>7. Len(r) <= PipeSize
      <4>1. Len(r) \in Nat
        BY <3>3, LenProperties
      <4> QED
        BY <3>3, <3>6, <4>1
    <3>8. \A c \in Channels : Len(pipe'[c]) <= PipeSize
      BY <3>5, <3>7 DEF Bounds
    <3> QED
      BY <2>1, <3>5, <3>8 DEF Bounds
  <2>2. CASE UNCHANGED pipe /\ script' = [script EXCEPT !.eof = TRUE]
    BY <2>2 DEF PipeTyped, Bounds, ScriptTyped, Process
  <2> QED
    BY <1>13, <2>1, <2>2 DEF ScriptReads
<1>14. ASSUME NEW ch \in Channels, ScriptCloses(ch) PROVE PipeTyped' /\ Bounds'
  <2>1. UNCHANGED pipe /\ script'.wrote = script.wrote /\ script'.out = script.out
    BY <1>14 DEF ScriptCloses, ScriptStep, streamVars, ScriptTyped, Process
  <2> QED
    BY <2>1 DEF PipeTyped, Bounds
<1>15. ASSUME NEW status \in {0, 1}, ScriptExits(status) PROVE PipeTyped' /\ Bounds'
  <2>1. UNCHANGED pipe /\ script'.wrote = script.wrote /\ script'.out = script.out
    BY <1>15 DEF ScriptExits, ScriptStep, streamVars, ScriptTyped, Process
  <2> QED
    BY <2>1 DEF PipeTyped, Bounds
<1>16. ASSUME \/ ShortDone \/ GiveUp \/ ServeCgiEarly \/ ServeCgiBroken \/ ServeWriteq \/ ServeDone
              \/ ReadStops \/ AfterCallback \/ StartCgi \/ BrowserData \/ BrowserEnd \/ NetSend
              \/ StdinEvent \/ ServiceSignals
              \/ \E ch \in {Out, Err} : ReadEnd(ch)
              \/ \E ch \in {Out, Err} : OutputEvent(ch)
              \/ \E ch \in Channels : QueueIOEvent(ch)
              \/ UNCHANGED vars
     PROVE  PipeTyped' /\ Bounds'
  <2>1. UNCHANGED <<pipe, script>>
    BY <1>16, SMT, ZenonT(60) DEF ShortDone, PutToCgi, GiveUp, Goto, streamVars, ServeCgiEarly,
        ServeCgiBroken, ServeWriteq, ServeDone, ReadStops, ReadEnd, AfterCallback, StartCgi, BrowserData,
            BrowserEnd, NetSend, StdinEvent, OutputEvent, QueueIOEvent, ServiceSignals, vars
  <2> QED
    BY <2>1 DEF PipeTyped, Bounds
<1> QED
  BY <1>1, <1>2, <1>3, <1>4, <1>5, <1>6, <1>7, <1>8, <1>9, <1>10, <1>11, <1>12, <1>13,
     <1>14, <1>15, <1>16 DEF Next, Call, Calls, Service, Script, Serve

-----------------------------------------------------------------------------
(* The invariant *)

\* It holds at first, for every request.
LEMMA InitInv == Init => IInv
<1> SUFFICES ASSUME Init PROVE IInv
  OBVIOUS
<1>1. PICK r \in Requests :
        /\ client = [mode |-> r.mode, left |-> r.body, ended |-> FALSE, gone |-> FALSE]
        /\ script = [state |-> "none", status |-> 0, sig |-> "none", out |-> r.out, length |-> r.length,
                     location |-> r.location, head |-> 0, wrote |-> 0, eof |-> FALSE, open |-> {}]
  BY DEF Init
<1>2. /\ r.mode \in {"stream", "form", "chunked"} /\ r.body \in Nat /\ r.out \in Nat
      /\ r.length \in Nat \cup {-1} /\ r.location \in BOOLEAN
      /\ {PipeSize, CgiMax, WriteMax, DownMax} \subseteq Nat \ {0}
  BY CgiAssumption
<1>3. ClientTyped
  BY <1>1, <1>2 DEF ClientTyped, Client
<1>4. ScriptTyped
  <2>1. PICK none \in SUBSET Channels, zero \in 0 .. 2, nothing \in Nat, ok \in {0, 1}, no \in BOOLEAN,
             length \in Nat \cup {-1} :
          none = {} /\ zero = 0 /\ nothing = 0 /\ ok = 0 /\ no = FALSE /\ length = r.length
    <3>1. {} \in SUBSET Channels /\ 0 \in 0 .. 2 /\ 0 \in Nat /\ 0 \in {0, 1} /\ FALSE \in BOOLEAN
      OBVIOUS
    <3> QED
      BY <1>2, <3>1, Zenon
  <2>2. script = [state |-> "none", status |-> ok, sig |-> "none", out |-> r.out, length |-> length,
                  location |-> r.location, head |-> zero, wrote |-> nothing, eof |-> no, open |-> none]
    BY <1>1, <2>1, Zenon
  <2> QED
    BY <1>2, <2>2 DEF ScriptTyped, Process
<1>5. CmdTyped
  <2>1. PICK none \in SUBSET Channels, zero \in 0 .. 2, failed \in {-1, 0, 1}, no \in BOOLEAN :
          none = {} /\ zero = 0 /\ failed = -1 /\ no = FALSE
    <3>1. {} \in SUBSET Channels /\ 0 \in 0 .. 2 /\ -1 \in {-1, 0, 1} /\ FALSE \in BOOLEAN
      OBVIOUS
    <3> QED
      BY <3>1, Zenon
  <2>2. cmd = [pid |-> no, status |-> failed, fd |-> none, handlers |-> none, on |-> none, eofCount |-> zero,
               complete |-> no, signal |-> no, callback |-> no]
    BY <2>1, Zenon DEF Init
  <2> QED
    BY <2>2 DEF CmdTyped, Command
<1>6. CgiTyped /\ StreamTyped /\ PlaceTyped /\ EventsTyped
  BY DEF Init, CgiTyped, Handler, StreamTyped, Stream, PlaceTyped, Place, Idle, EventsTyped
<1>7. PipeTyped /\ CgiqTyped /\ ResponseTyped
  <2>1. <<>> \in Seq(Output) /\ <<>> \in Seq(Packet)
    OBVIOUS
  <2> QED
    BY <2>1 DEF Init, PipeTyped, CgiqTyped, ResponseTyped, Queue
<1>8. Descriptors /\ Decided /\ Processes
  BY <1>1 DEF Init, Descriptors, Decided, Processes
<1>9. Before /\ After
  BY <1>1 DEF Init, Before, Fresh, After, Quiet, Gone, Closed, At, Idle
<1>10. Written /\ Passed /\ Bounds
  <2>1. /\ \A c \in Channels : pipe[c] = <<>>
        /\ script.wrote = 0 /\ script.head = 0 /\ script.out \in Nat /\ cgi.bodyBytes = 0 /\ Len(<<>>) = 0
    BY <1>1, <1>2 DEF Init
  <2> QED
    BY <1>2, <2>1 DEF Written, Passed, Bounds
<1>11. EndLast /\ Located /\ ResponseWhole
  BY DEF Init, EndLast, Short, At, Idle, Located, ResponseWhole
<1> QED
  BY <1>3, <1>4, <1>5, <1>6, <1>7, <1>8, <1>9, <1>10, <1>11 DEF IInv

\* Every step keeps it.
LEMMA NextInv == IInv /\ [Next]_vars => IInv'
<1> SUFFICES ASSUME IInv, [Next]_vars PROVE IInv'
  OBVIOUS
<1>1. /\ ClientTyped /\ ScriptTyped /\ CmdTyped /\ CgiTyped /\ StreamTyped /\ PlaceTyped
      /\ EventsTyped /\ PipeTyped /\ CgiqTyped /\ ResponseTyped
      /\ Descriptors /\ Decided /\ Processes /\ Before /\ After
      /\ Written /\ Passed /\ EndLast /\ Located /\ Bounds /\ ResponseWhole
  BY DEF IInv
<1>2. States
  BY <1>1 DEF States
<1>3. ClientTyped' /\ ScriptTyped' /\ CgiTyped' /\ StreamTyped' /\ PlaceTyped'
  BY <1>1, ClientTypedStep, ScriptTypedStep, CgiTypedStep, StreamTypedStep, PlaceTypedStep
<1>4. CmdTyped' /\ Descriptors'
  BY <1>1, CmdStep
<1>5. EventsTyped' /\ ResponseTyped'
  BY <1>1, EventsTypedStep, ResponseStep
<1>6. CgiqTyped' /\ EndLast' /\ PipeTyped' /\ Bounds'
  BY <1>1, CgiqStep, PipeStep
<1>7. Decided' /\ Processes' /\ Before' /\ After'
  BY <1>1, <1>2, DecidedStep, ProcessesStep, BeforeStep, AfterStep
<1>8. Written' /\ Passed' /\ Located' /\ ResponseWhole'
  BY <1>1, <1>2, WrittenStep, PassedStep, LocatedStep, ResponseWholeStep
<1> QED
  BY <1>3, <1>4, <1>5, <1>6, <1>7, <1>8 DEF IInv

\* So it always holds.
THEOREM Inductive == Spec => []IInv
BY InitInv, NextInv, PTL DEF Spec

\* Every variable keeps its type, and no pipe holds more than it can, whatever the requests and the sizes are.
THEOREM TypeCorrect == Spec => []TypeOK
<1>1. IInv => TypeOK
  <2> SUFFICES ASSUME IInv PROVE TypeOK
    OBVIOUS
  <2>1. script \in [state : {"none", "running", "exited", "reaped"}, status : {0, 1}, sig : {"none", "term", "kill"},
                    out : Nat, length : Nat \cup {-1}, location : BOOLEAN, head : 0 .. 2, wrote : 0 .. script.out,
                    eof : BOOLEAN, open : SUBSET Channels]
    <3>1. script \in Process /\ script.wrote \in 0 .. script.out
      BY DEF IInv, ScriptTyped, Process, Bounds
    <3> QED
      BY <3>1 DEF Process
  <2>2. \A c \in Channels : pipe[c] \in Seq({"part", "head", "data"}) /\ Len(pipe[c]) <= PipeSize
    BY DEF IInv, PipeTyped, Output, Bounds
  <2>3. client \in Client /\ cmd \in Command /\ cgi \in Handler /\ stream \in Stream /\ pc \in Place
    BY DEF IInv, ClientTyped, CmdTyped, CgiTyped, StreamTyped, PlaceTyped
  <2>4. /\ cgiq \in [packets : Seq({"data", END}), suspended : BOOLEAN]
        /\ writeq \in [packets : Seq({"data", END}), suspended : BOOLEAN]
        /\ down \in Seq({"data", END})
    BY DEF IInv, CgiqTyped, ResponseTyped, Queue, Packet
  <2>5. /\ cmd.on \subseteq cmd.handlers /\ cmd.handlers \subseteq cmd.fd
        /\ sched \subseteq {"cgiq", "writeq"} /\ events \subseteq Channels \cup {"sigchld", "child"}
    BY DEF IInv, Descriptors, EventsTyped
  <2> QED
    BY <2>1, <2>2, <2>3, <2>4, <2>5, Zenon DEF TypeOK, Client, Command, Handler, Stream, Place
<1> QED
  BY <1>1, Inductive, PTL

\* A response that is finalized without an error or a redirection is what the script meant it to be: readFromCgi,
\* checkCgiLength and the completion of the command in cmd.c may come in any order, with any sizes of the queues.
THEOREM ResponseIsWhole == Spec => []ResponseWhole
<1>1. IInv => ResponseWhole
  BY DEF IInv
<1> QED
  BY <1>1, Inductive, PTL

\* A request that is closed leaves nothing of its command: mprDestroyCmd has closed the descriptors, removed the
\* handlers, and reaped the process or killed it.
THEOREM NothingIsLeft == Spec => []NothingLeft
<1>1. IInv => NothingLeft
  <2>1. ASSUME IInv, Closed, pc = Idle PROVE ~cgi.cmd /\ Quiet
    BY <2>1 DEF IInv, After, Idle, At
  <2>2. ASSUME IInv, Quiet PROVE cmd.on = {}
    BY <2>2 DEF IInv, Descriptors, Quiet
  <2> QED
    BY <2>1, <2>2 DEF NothingLeft, Quiet, Gone
<1> QED
  BY <1>1, Inductive, PTL
=============================================================================
