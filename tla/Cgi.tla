-------------------------------- MODULE Cgi --------------------------------
(* A CGI request and the command that serves it: modules/cgiHandler.c over cmd.c   *)
(* of the runtime. The handler runs on the dispatcher of its stream, one event at  *)
(* a time; the script, the client and the service thread, which turns the          *)
(* readiness of pipes and SIGCHLD into events, act at any time in between.         *)
EXTENDS Integers, Sequences, FiniteSets

CONSTANTS
  Requests,   \* the requests and what their scripts do, see CgiAssumption
  PipeSize,   \* units that a pipe holds
  CgiMax,     \* cgi->writeq->max
  WriteMax,   \* stream->writeq->max
  DownMax     \* units that the pipeline after stream->writeq takes before it is full

\* The body comes as a "stream" while the script runs, as a "form", which is awaited before the start, or "chunked";
\* the script writes at most out units and declares a length, -1 for none, or another location
ASSUME CgiAssumption ==
  /\ Requests \subseteq [mode : {"stream", "form", "chunked"}, body : Nat, out : Nat, length : Nat \cup {-1}, location : BOOLEAN]
  /\ {PipeSize, CgiMax, WriteMax, DownMax} \subseteq Nat \ {0}

VARIABLES
  client,   \* the body: its mode, the units to come, whether its end has come, whether the client is gone
  script,   \* the process: its plan, what it has written and read, the ends of the pipes it holds
  pipe,     \* the contents of the pipes
  cmd,      \* MprCmd
  cgi,      \* Cgi: the state of the handler, what it knows of the response
  cgiq,     \* cgi->writeq: body packets for the script
  stream,   \* HttpStream and HttpTx: error, what is finalized, whether readq is suspended
  writeq,   \* stream->writeq: response packets
  down,     \* the packets of the response in the pipeline after writeq
  sched,    \* the queues that are scheduled for service
  events,   \* events of the dispatcher, and "sigchld", a signal the service thread has still to see
  pc        \* where the thread of the dispatcher is, and where it goes after it has serviced the queues

streamVars == <<stream, writeq, sched>>
vars == <<client, script, pipe, cmd, cgi, cgiq, stream, writeq, down, sched, events, pc>>

In == "in"
Out == "out"
Err == "err"
Channels == {In, Out, Err}
END == "END"
Units(s) == Cardinality({i \in DOMAIN s : s[i] # END})

Idle == [at |-> "idle", then |-> "idle"]
At(where) == pc.at = where
Goto(where) == pc' = [pc EXCEPT !.at = where]

Finalized == stream.input /\ stream.output /\ stream.connector
Closed == cgi.state = "closed"

Init ==
  /\ \E r \in Requests :
       /\ client = [mode |-> r.mode, left |-> r.body, ended |-> FALSE, gone |-> FALSE]
       /\ script = [state |-> "none", status |-> 0, sig |-> "none", out |-> r.out, length |-> r.length,
                    location |-> r.location, head |-> 0, wrote |-> 0, eof |-> FALSE, open |-> {}]
  /\ pipe = [c \in Channels |-> <<>>]
  /\ cmd = [pid |-> FALSE, status |-> -1, fd |-> {}, handlers |-> {}, on |-> {}, eofCount |-> 0, complete |-> FALSE,
            signal |-> FALSE, callback |-> FALSE]
  /\ cgi = [state |-> "open", started |-> FALSE, defer |-> FALSE, cmd |-> FALSE, seenHeader |-> FALSE, location |-> FALSE,
            bodyBytes |-> 0]
  /\ cgiq = [packets |-> <<>>, suspended |-> FALSE]
  /\ stream = [error |-> FALSE, input |-> FALSE, output |-> FALSE, connector |-> FALSE, created |-> FALSE,
               redirected |-> FALSE, suspended |-> FALSE]
  /\ writeq = [packets |-> <<>>, suspended |-> FALSE]
  /\ down = <<>>
  /\ sched = {} /\ events = {} /\ pc = Idle

-----------------------------------------------------------------------------
(* The stream *)

\* httpFinalizeOutput: the end of the response follows what the handler has put
WithEnd(packets) == IF stream.output THEN packets ELSE Append(packets, END)

FinalizeOutput ==
  /\ stream' = [stream EXCEPT !.output = TRUE]
  /\ writeq' = [writeq EXCEPT !.packets = WithEnd(@)]
  /\ sched' = IF writeq.suspended \/ stream.output THEN sched ELSE sched \cup {"writeq"}

\* httpFinalize, after httpRedirectUri if the script asked for another location
Finalize(redirect) ==
  /\ stream' = [stream EXCEPT !.output = TRUE, !.input = TRUE, !.redirected = @ \/ redirect]
  /\ writeq' = [writeq EXCEPT !.packets = WithEnd(@)]
  /\ sched' = IF writeq.suspended \/ stream.output THEN sched ELSE sched \cup {"writeq"}

\* httpError on a stream st: it is aborted if its headers are created, else its output is replaced
RaiseErrorOn(st, queues, close) ==
  IF st.error THEN stream' = st /\ sched' = queues /\ UNCHANGED writeq
  ELSE IF st.created
    THEN /\ stream' = [st EXCEPT !.error = TRUE, !.output = TRUE, !.input = TRUE, !.connector = TRUE]
         /\ writeq' = [packets |-> <<>>, suspended |-> FALSE]
         /\ sched' = queues
    ELSE /\ stream' = [st EXCEPT !.error = TRUE, !.output = TRUE, !.input = @ \/ close]
         /\ writeq' = [packets |-> <<END>>, suspended |-> FALSE]
         /\ sched' = queues \cup {"writeq"}
RaiseError(close) == RaiseErrorOn(stream, sched, close)

-----------------------------------------------------------------------------
(* The command *)

\* mprStartCmd: the pipes are made, their handlers added, the handler of SIGCHLD too, and the process forked
Started(pid) ==
  [cmd EXCEPT !.pid = pid, !.status = -1, !.fd = Channels, !.handlers = Channels, !.on = Channels, !.eofCount = 0,
              !.complete = FALSE, !.signal = TRUE, !.callback = TRUE]

\* completeCommand
Completed(c) == [c EXCEPT !.complete = TRUE, !.handlers = {}, !.on = {}]

\* Faulty: a command whose process was reaped before is not completed by its last end of file
CloseCmdFd_Reaped(ch) ==
  [cmd EXCEPT !.handlers = @ \ {ch}, !.on = @ \ {ch}, !.fd = @ \ {ch},
              !.eofCount = IF ch \in cmd.fd /\ ch # In THEN @ + 1 ELSE @]

\* mprCloseCmdFd
CloseCmdFd(ch) ==
  LET c == [cmd EXCEPT !.handlers = @ \ {ch}, !.on = @ \ {ch}, !.fd = @ \ {ch},
                       !.eofCount = IF ch \in cmd.fd /\ ch # In THEN @ + 1 ELSE @]
  IN IF ch \in cmd.fd /\ ch # In /\ c.eofCount >= 2 /\ ~c.pid THEN Completed(c) ELSE c

\* mprWaitOn for the output channels that have a handler (mprEnableCmdOutputEvents)
EnableOutput(c, on) ==
  LET S == c.handlers \cap {Out, Err} IN [c EXCEPT !.on = IF on THEN @ \cup S ELSE @ \ S]

\* mprEnableCmdEvents, mprDisableCmdEvents
EnableInput(c, on) ==
  LET S == c.handlers \cap {In} IN [c EXCEPT !.on = IF on THEN @ \cup S ELSE @ \ S]

\* Faulty: a process that has exited completes the command, with output still to read
Reaped_Early ==
  Completed([cmd EXCEPT !.pid = FALSE, !.status = script.status, !.signal = FALSE])

\* reapCmd of a process that has exited, up to its callback
Reaped ==
  LET c == [cmd EXCEPT !.pid = FALSE, !.status = script.status, !.signal = FALSE]
  IN IF c.eofCount >= 2 THEN Completed(c) ELSE c

\* resetCmd, but for a process that runs, which has to be stopped first
Shut == [cmd EXCEPT !.handlers = {}, !.on = {}, !.fd = {}, !.eofCount = 0, !.complete = FALSE, !.status = -1,
                    !.signal = @ /\ cmd.pid]

\* ... with the SIGTERM of mprStopCmd
Reset(then) ==
  /\ pipe' = [c \in Channels |-> <<>>]
  /\ IF cmd.pid
       THEN /\ script' = [script EXCEPT !.sig = IF @ = "none" THEN "term" ELSE @]
            /\ pc' = [at |-> "reset", then |-> then]
       ELSE /\ script' = [script EXCEPT !.open = {}]
            /\ pc' = [at |-> "serve", then |-> then]

ReapAtReset ==
  /\ At("reset") /\ script.state = "exited"
  /\ cmd' = Reaped
  /\ script' = [script EXCEPT !.state = "reaped"]
  /\ Goto(IF cmd.callback THEN "after" ELSE "serve")
  /\ UNCHANGED <<client, pipe, cgi, cgiq, streamVars, down, events>>

\* CMD_STOP_GRACE has passed
KillAtReset ==
  /\ At("reset") /\ script.state = "running" /\ script.sig = "term"
  /\ script' = [script EXCEPT !.sig = "kill"]
  /\ UNCHANGED <<client, pipe, cmd, cgi, cgiq, streamVars, down, events, pc>>

\* Faulty: the loop is left without the SIGKILL
GiveUp_Unkilled ==
  /\ At("reset") /\ script.state = "running"
  /\ cmd' = [cmd EXCEPT !.signal = FALSE]
  /\ Goto("serve")
  /\ UNCHANGED <<client, script, pipe, cgi, cgiq, streamVars, down, events>>

\* The process is not gone in 20 seconds
GiveUp ==
  /\ At("reset") /\ script.state = "running" /\ script.sig = "kill"
  /\ cmd' = [cmd EXCEPT !.signal = FALSE]
  /\ Goto("serve")
  /\ UNCHANGED <<client, script, pipe, cgi, cgiq, streamVars, down, events>>

-----------------------------------------------------------------------------
(* The handler: start and body *)

MayStart ==
  /\ pc = Idle /\ cgi.state = "open" /\ ~cgi.started /\ ~stream.error
  /\ client.mode = "form" => client.ended

\* startCgi up to mprStartCmd: a body of unknown length is awaited first
StartCgi ==
  /\ MayStart
  /\ LET wait == client.mode = "chunked" /\ ~client.ended IN
     /\ cgi' = [cgi EXCEPT !.started = TRUE, !.defer = wait]
     /\ IF wait THEN UNCHANGED pc ELSE Goto("start")
  /\ UNCHANGED <<client, script, pipe, cmd, cgiq, streamVars, down, events>>

\* mprStartCmd: the script runs, or cannot be found, or cannot be forked with its pipes made
Launch ==
  /\ At("start")
  /\ cgi' = [cgi EXCEPT !.cmd = TRUE]
  /\ \/ /\ cmd' = Started(TRUE)
        /\ script' = [script EXCEPT !.state = "running", !.open = Channels]
        /\ UNCHANGED streamVars
     \/ /\ cmd' = [cmd EXCEPT !.callback = TRUE]
        /\ RaiseError(FALSE)
        /\ UNCHANGED script
     \/ /\ cmd' = Started(FALSE)
        /\ script' = [script EXCEPT !.open = Channels]
        /\ RaiseError(FALSE)
  /\ Goto("serve")
  /\ UNCHANGED <<client, pipe, cgiq, down, events>>

MayReceive ==
  /\ pc = Idle /\ cgi.state = "open" /\ ~client.ended /\ ~stream.suspended
  /\ client.mode = "stream" => cgi.started

\* httpPutForService on cgi->writeq
PutToCgi(p) ==
  /\ cgiq' = [cgiq EXCEPT !.packets = Append(@, p)]
  /\ sched' = IF cgiq.suspended THEN sched ELSE sched \cup {"cgiq"}

\* browserToCgiData for a packet of the body
BrowserData ==
  /\ MayReceive /\ client.left > 0
  /\ client' = [client EXCEPT !.left = @ - 1]
  /\ PutToCgi("data")
  /\ stream' = [stream EXCEPT !.suspended = cgi.cmd /\ Units(cgiq'.packets) >= CgiMax]
  /\ Goto("serve")
  /\ UNCHANGED <<script, pipe, cmd, cgi, writeq, down, events>>

\* browserToCgiData for the end of the body, which starts a command that was deferred
BrowserEnd ==
  /\ MayReceive /\ client.left = 0
  /\ client' = [client EXCEPT !.ended = TRUE]
  /\ PutToCgi(END)
  /\ stream' = [stream EXCEPT !.input = TRUE, !.suspended = cgi.cmd /\ Units(cgiq'.packets) >= CgiMax]
  /\ cgi' = [cgi EXCEPT !.defer = FALSE]
  /\ Goto(IF cgi.defer /\ ~stream.error THEN "start" ELSE "serve")
  /\ UNCHANGED <<script, pipe, cmd, writeq, down, events>>

\* browserToCgiData for a body that ends too soon: the client is gone
BrowserShort ==
  /\ MayReceive /\ client.left > 0 /\ client.mode # "chunked"
  /\ client' = [client EXCEPT !.ended = TRUE, !.gone = TRUE]
  /\ RaiseError(FALSE)
  /\ IF cgi.cmd THEN cmd' = Shut /\ Reset("short")
     ELSE pc' = [at |-> "serve", then |-> "short"] /\ UNCHANGED <<cmd, script, pipe>>
  /\ UNCHANGED <<cgi, cgiq, down, events>>

\* ... and its rest, when the command is destroyed
ShortDone ==
  /\ At("short")
  /\ cgi' = [cgi EXCEPT !.cmd = FALSE]
  /\ PutToCgi(END)
  /\ pc' = [at |-> "serve", then |-> "idle"]
  /\ UNCHANGED <<client, script, pipe, cmd, stream, writeq, down, events>>

\* closeCgi: the request is finished, or its connection is closed or timed out. What becomes of the packets in the
\* queues no longer concerns the handler.
Close ==
  /\ pc = Idle /\ cgi.state = "open"
  /\ cgi' = [cgi EXCEPT !.state = "closed", !.cmd = FALSE]
  /\ cgiq' = [packets |-> <<>>, suspended |-> FALSE]
  /\ writeq' = [packets |-> <<>>, suspended |-> FALSE]
  /\ down' = <<>> /\ sched' = {}
  /\ IF cgi.cmd THEN cmd' = [Shut EXCEPT !.callback = FALSE] /\ Reset("idle")
     ELSE UNCHANGED <<cmd, script, pipe, pc>>
  /\ UNCHANGED <<client, stream, events>>

-----------------------------------------------------------------------------
(* Queues *)

\* What browserToCgiService can write: the packets before the end while the pipe has room
Room == PipeSize - Len(pipe[In])
Writable == IF Units(cgiq.packets) <= Room THEN Units(cgiq.packets) ELSE Room
Broken == In \notin cmd.fd \/ In \notin script.open

\* browserToCgiService without a command
ServeCgiEarly ==
  /\ At("serve") /\ "cgiq" \in sched /\ ~cgiq.suspended /\ ~cgi.cmd
  /\ sched' = sched \ {"cgiq"}
  /\ UNCHANGED <<client, script, pipe, cmd, cgi, cgiq, stream, writeq, down, events, pc>>

\* Faulty: the handler is not told to wait for room when a part could be written
ServeCgi_Silent ==
  /\ At("serve") /\ "cgiq" \in sched /\ ~cgiq.suspended /\ cgi.cmd
  /\ Units(cgiq.packets) = 0 \/ ~Broken
  /\ LET rest == SubSeq(cgiq.packets, Writable + 1, Len(cgiq.packets))
         full == Units(rest) > 0
     IN /\ pipe' = [pipe EXCEPT ![In] = @ \o SubSeq(cgiq.packets, 1, Writable)]
        /\ cgiq' = [packets |-> IF full THEN rest ELSE <<>>, suspended |-> full]
        /\ cmd' = EnableInput(IF full \/ rest = <<>> THEN cmd ELSE CloseCmdFd(In), Writable = 0)
        /\ stream' = [stream EXCEPT !.suspended = @ /\ Units(rest) >= CgiMax]
  /\ sched' = sched \ {"cgiq"}
  /\ UNCHANGED <<client, script, cgi, writeq, down, events, pc>>

\* browserToCgiService: stdin is closed after the end of the body, or awaited when the pipe is full
ServeCgi ==
  /\ At("serve") /\ "cgiq" \in sched /\ ~cgiq.suspended /\ cgi.cmd
  /\ Units(cgiq.packets) = 0 \/ ~Broken
  /\ LET rest == SubSeq(cgiq.packets, Writable + 1, Len(cgiq.packets))
         full == Units(rest) > 0
     IN /\ pipe' = [pipe EXCEPT ![In] = @ \o SubSeq(cgiq.packets, 1, Writable)]
        /\ cgiq' = [packets |-> IF full THEN rest ELSE <<>>, suspended |-> full]
        /\ cmd' = EnableInput(IF full \/ rest = <<>> THEN cmd ELSE CloseCmdFd(In), full)
        /\ stream' = [stream EXCEPT !.suspended = @ /\ Units(rest) >= CgiMax]
  /\ sched' = sched \ {"cgiq"}
  /\ UNCHANGED <<client, script, cgi, writeq, down, events, pc>>

\* browserToCgiService when nobody reads stdin: the body is discarded, its end stays
ServeCgiBroken ==
  /\ At("serve") /\ "cgiq" \in sched /\ ~cgiq.suspended /\ cgi.cmd
  /\ Units(cgiq.packets) > 0 /\ Broken
  /\ cgiq' = [cgiq EXCEPT !.packets = IF \E i \in DOMAIN @ : @[i] = END THEN <<END>> ELSE <<>>]
  /\ cmd' = CloseCmdFd(In)
  /\ RaiseErrorOn([stream EXCEPT !.suspended = FALSE], sched \ {"cgiq"}, FALSE)
  /\ UNCHANGED <<client, script, pipe, cgi, down, events, pc>>

\* What the pipeline after writeq accepts: packets as long as they fit, an end always
Fits(i) == writeq.packets[i] = END \/ Units(down) + Units(SubSeq(writeq.packets, 1, i)) <= DownMax
Accepted == Cardinality({n \in 1 .. Len(writeq.packets) : \A i \in 1 .. n : Fits(i)})

\* cgiToBrowserService: the script is listened to again when writeq is drained
ServeWriteq ==
  /\ At("serve") /\ "writeq" \in sched /\ ~writeq.suspended
  /\ LET rest == SubSeq(writeq.packets, Accepted + 1, Len(writeq.packets))
     IN /\ down' = down \o SubSeq(writeq.packets, 1, Accepted)
        /\ writeq' = [packets |-> rest, suspended |-> rest # <<>>]
        /\ cmd' = IF cgi.cmd /\ Units(rest) = 0 THEN EnableOutput(cmd, TRUE) ELSE cmd
  /\ stream' = [stream EXCEPT !.created = @ \/ Accepted > 0]
  /\ sched' = sched \ {"writeq"}
  /\ UNCHANGED <<client, script, pipe, cgi, cgiq, events, pc>>

Serve ==
  \/ ServeCgiEarly \/ ServeCgi \/ ServeCgiBroken \/ ServeWriteq

\* httpServiceQueue takes a suspended queue off the schedule and passes over it
ServeDone ==
  /\ At("serve")
  /\ \A q \in sched : IF q = "cgiq" THEN cgiq.suspended ELSE writeq.suspended
  /\ sched' = {}
  /\ pc' = [at |-> pc.then, then |-> "idle"]
  /\ UNCHANGED <<client, script, pipe, cmd, cgi, cgiq, stream, writeq, down, events>>

\* The socket takes the next packet; the queue before an empty one is resumed
NetSend ==
  /\ pc = Idle /\ down # <<>> /\ ~stream.connector
  /\ down' = Tail(down)
  /\ stream' = [stream EXCEPT !.connector = Head(down) = END]
  /\ IF Units(down') = 0
       THEN /\ writeq' = [writeq EXCEPT !.suspended = FALSE]
            /\ sched' = IF writeq.suspended \/ Units(writeq.packets) > 0 THEN sched \cup {"writeq"} ELSE sched
       ELSE UNCHANGED <<writeq, sched>>
  /\ Goto("serve")
  /\ UNCHANGED <<client, script, pipe, cmd, cgi, cgiq, events>>

-----------------------------------------------------------------------------
(* Events of the command *)

\* What epoll reports: for the writing end of a full pipe that nobody reads an error only, which
\* serviceIO takes for readable and does not deliver
Ready(ch) ==
  IF ch = In THEN Len(pipe[In]) < PipeSize
  ELSE pipe[ch] # <<>> \/ ch \notin script.open

\* serviceIO: further events are suppressed until the handler is enabled again
QueueIOEvent(ch) ==
  /\ ch \in cmd.on /\ Ready(ch)
  /\ events' = events \cup {ch}
  /\ cmd' = [cmd EXCEPT !.on = @ \ {ch}]
  /\ UNCHANGED <<client, script, pipe, cgi, cgiq, streamVars, down, pc>>

\* mprServiceSignals
ServiceSignals ==
  /\ "sigchld" \in events
  /\ events' = (events \ {"sigchld"}) \cup (IF cmd.signal THEN {"child"} ELSE {})
  /\ UNCHANGED <<client, script, pipe, cmd, cgi, cgiq, streamVars, down, pc>>

\* stdinCallback and the case of stdin in cgiCallback
StdinEvent ==
  /\ pc = Idle /\ In \in events
  /\ events' = events \ {In}
  /\ IF cmd.callback /\ In \in cmd.fd
       THEN /\ cgiq' = [cgiq EXCEPT !.suspended = FALSE]
            /\ sched' = sched \cup {"cgiq"}
            /\ Goto("after")
       ELSE UNCHANGED <<cgiq, sched, pc>>
  /\ UNCHANGED <<client, script, pipe, cmd, cgi, stream, writeq, down>>

\* stdoutCallback, stderrCallback, and the beginning of readFromCgi
OutputEvent(ch) ==
  /\ pc = Idle /\ ch \in events \ {In}
  /\ events' = events \ {ch}
  /\ IF cmd.callback /\ ch \in cmd.fd
       THEN /\ Goto(ch)
            /\ cmd' = IF Finalized THEN CloseCmdFd(ch) ELSE cmd
       ELSE UNCHANGED <<cmd, pc>>
  /\ UNCHANGED <<client, script, pipe, cgi, cgiq, streamVars, down>>

\* reapCmd for SIGCHLD, and the default case of cgiCallback
ChildDeath ==
  /\ pc = Idle /\ "child" \in events
  /\ events' = events \ {"child"}
  /\ IF cmd.signal /\ cmd.pid /\ script.state = "exited"
       THEN /\ cmd' = Reaped
            /\ script' = [script EXCEPT !.state = "reaped"]
            /\ IF cmd.callback THEN Goto("after") ELSE UNCHANGED pc
            /\ IF cmd.callback /\ script.status # 0 THEN RaiseError(FALSE) ELSE UNCHANGED streamVars
       ELSE UNCHANGED <<cmd, script, pc, streamVars>>
  /\ UNCHANGED <<client, pipe, cgi, cgiq, down>>

\* The guard of the loop of readFromCgi
Reading(ch) == At(ch) /\ ch \in cmd.fd /\ ~Finalized /\ Units(writeq.packets) < WriteMax
AtEnd(ch) == pipe[ch] = <<>> /\ ch \notin script.open

ReadStops ==
  /\ \E ch \in {Out, Err} : At(ch) /\ (Reading(ch) => pipe[ch] = <<>> /\ ch \in script.open)
  /\ Goto("after")
  /\ UNCHANGED <<client, script, pipe, cmd, cgi, cgiq, streamVars, down, events>>

Take(ch) == pipe' = [pipe EXCEPT ![ch] = Tail(@)]

\* The first part of the headers is kept (cgi->headers), and the loop left
ReadPart ==
  /\ Reading(Out) /\ pipe[Out] # <<>> /\ Head(pipe[Out]) = "part"
  /\ Take(Out)
  /\ Goto("after")
  /\ UNCHANGED <<client, script, cmd, cgi, cgiq, streamVars, down, events>>

\* maParseCgiResponse of complete headers
ReadHead ==
  /\ Reading(Out) /\ pipe[Out] # <<>> /\ Head(pipe[Out]) = "head"
  /\ Take(Out)
  /\ cgi' = [cgi EXCEPT !.seenHeader = TRUE, !.location = script.location]
  /\ UNCHANGED <<client, script, cmd, cgiq, streamVars, down, events, pc>>

\* The body is passed on unless it is longer than declared
ReadData ==
  /\ Reading(Out) /\ pipe[Out] # <<>> /\ Head(pipe[Out]) = "data"
  /\ Take(Out)
  /\ IF stream.output THEN UNCHANGED <<cgi, streamVars, pc>>
     ELSE LET n == cgi.bodyBytes + 1
              over == script.length >= 0 /\ n > script.length
          IN /\ cgi' = [cgi EXCEPT !.bodyBytes = n]
             /\ IF over THEN Goto("after") ELSE UNCHANGED pc
             /\ IF ~over THEN /\ writeq' = [writeq EXCEPT !.packets = Append(@, "data")]
                              /\ sched' = IF writeq.suspended THEN sched ELSE sched \cup {"writeq"}
                              /\ UNCHANGED stream
                ELSE IF cgi.location THEN UNCHANGED streamVars ELSE RaiseError(TRUE)
  /\ UNCHANGED <<client, script, cmd, cgiq, down, events>>

\* checkCgiLength at the end of the output
WrongLength ==
  /\ script.length >= 0 /\ cgi.bodyBytes # script.length
  /\ ~stream.error /\ ~stream.output /\ ~cgi.location

\* The end of an output: stdout completes the response, stderr, whose contents are only logged, does not
ReadEnd(ch) ==
  /\ Reading(ch) /\ AtEnd(ch)
  /\ cmd' = CloseCmdFd(ch)
  /\ IF ch = Err THEN UNCHANGED streamVars
     ELSE IF ~cgi.seenHeader THEN RaiseError(FALSE)
     ELSE IF WrongLength THEN RaiseError(TRUE) ELSE FinalizeOutput
  /\ Goto("after")
  /\ UNCHANGED <<client, script, pipe, cgi, cgiq, down, events>>

\* The rest of cgiCallback: finalize, or listen to the script unless writeq is suspended
AfterCallback ==
  /\ At("after")
  /\ IF cmd.complete \/ cgi.location
       THEN /\ Finalize(cgi.location)
            /\ cgi' = [cgi EXCEPT !.location = FALSE]
            /\ UNCHANGED cmd
       ELSE /\ cmd' = EnableOutput(cmd, ~writeq.suspended)
            /\ UNCHANGED <<cgi, streamVars>>
  /\ Goto("serve")
  /\ UNCHANGED <<client, script, pipe, cgiq, down, events>>

-----------------------------------------------------------------------------
(* The script *)

Running == script.state = "running"
ScriptStep == UNCHANGED <<client, cmd, cgi, cgiq, streamVars, down, pc>>
MayWrite(ch) == Running /\ ch \in script.open /\ ch \in cmd.fd /\ Len(pipe[ch]) < PipeSize

ScriptWrites(ch, what) ==
  /\ MayWrite(ch)
  /\ pipe' = [pipe EXCEPT ![ch] = Append(@, what)]
  /\ UNCHANGED events /\ ScriptStep

ScriptHeads ==
  /\ script.head < 2
  /\ ScriptWrites(Out, IF script.head = 0 THEN "part" ELSE "head")
  /\ script' = [script EXCEPT !.head = @ + 1]

ScriptAnswers ==
  /\ script.head = 2 /\ script.wrote < script.out
  /\ ScriptWrites(Out, "data")
  /\ script' = [script EXCEPT !.wrote = @ + 1]

MayRead == Running /\ In \in script.open /\ (pipe[In] # <<>> \/ (In \notin cmd.fd /\ ~script.eof))

\* A unit of the body, or its end when the server has closed the pipe
ScriptReads ==
  /\ MayRead
  /\ IF pipe[In] # <<>> THEN Take(In) /\ UNCHANGED script
     ELSE script' = [script EXCEPT !.eof = TRUE] /\ UNCHANGED pipe
  /\ UNCHANGED events /\ ScriptStep

ScriptCloses(ch) ==
  /\ Running /\ ch \in script.open
  /\ script' = [script EXCEPT !.open = @ \ {ch}]
  /\ UNCHANGED <<pipe, events>> /\ ScriptStep

ScriptExits(status) ==
  /\ Running
  /\ status = 0 => script.sig = "none"
  /\ script' = [script EXCEPT !.state = "exited", !.status = status, !.open = {}]
  /\ events' = events \cup {"sigchld"}
  /\ UNCHANGED pipe /\ ScriptStep

Script ==
  \/ ScriptHeads \/ ScriptAnswers \/ ScriptReads
  \/ \E ch \in Channels : ScriptCloses(ch)
  \/ \E status \in {0, 1} : ScriptExits(status)

-----------------------------------------------------------------------------
\* The steps of a call that is under way
Call ==
  \/ Launch \/ ShortDone \/ ReapAtReset \/ KillAtReset \/ GiveUp
  \/ Serve \/ ServeDone
  \/ ReadStops \/ ReadPart \/ ReadHead \/ ReadData \/ (\E ch \in {Out, Err} : ReadEnd(ch))
  \/ AfterCallback

\* The events that call the handler
Calls ==
  \/ StartCgi \/ BrowserData \/ BrowserEnd \/ BrowserShort \/ Close
  \/ NetSend
  \/ StdinEvent \/ (\E ch \in {Out, Err} : OutputEvent(ch)) \/ ChildDeath

Service == ServiceSignals \/ \E ch \in Channels : QueueIOEvent(ch)

Next == Call \/ Calls \/ Service \/ Script

Spec == Init /\ [][Next]_vars

-----------------------------------------------------------------------------
TypeOK ==
  /\ client \in [mode : {"stream", "form", "chunked"}, left : Nat, ended : BOOLEAN, gone : BOOLEAN]
  /\ script \in [state : {"none", "running", "exited", "reaped"}, status : {0, 1}, sig : {"none", "term", "kill"},
                 out : Nat, length : Nat \cup {-1}, location : BOOLEAN, head : 0 .. 2, wrote : 0 .. script.out,
                 eof : BOOLEAN, open : SUBSET Channels]
  /\ \A c \in Channels : pipe[c] \in Seq({"part", "head", "data"}) /\ Len(pipe[c]) <= PipeSize
  /\ cmd \in [pid : BOOLEAN, status : {-1, 0, 1}, fd : SUBSET Channels, handlers : SUBSET Channels, on : SUBSET Channels,
              eofCount : 0 .. 2, complete : BOOLEAN, signal : BOOLEAN, callback : BOOLEAN]
  /\ cmd.on \subseteq cmd.handlers /\ cmd.handlers \subseteq cmd.fd
  /\ cgi \in [state : {"open", "closed"}, started : BOOLEAN, defer : BOOLEAN, cmd : BOOLEAN, seenHeader : BOOLEAN,
              location : BOOLEAN, bodyBytes : Nat]
  /\ cgiq \in [packets : Seq({"data", END}), suspended : BOOLEAN]
  /\ stream \in [error : BOOLEAN, input : BOOLEAN, output : BOOLEAN, connector : BOOLEAN, created : BOOLEAN,
                 redirected : BOOLEAN, suspended : BOOLEAN]
  /\ writeq \in [packets : Seq({"data", END}), suspended : BOOLEAN]
  /\ down \in Seq({"data", END})
  /\ sched \subseteq {"cgiq", "writeq"}
  /\ events \subseteq Channels \cup {"sigchld", "child"}
  /\ pc \in [at : {"idle", "start", "serve", "after", "reset", "short", Out, Err}, then : {"idle", "short"}]

\* A response that is finalized without an error or a redirection is what the script meant it to be: its headers, all
\* that it wrote before it closed its output, and as much as it declared; whichever of its exit and the ends of its
\* two outputs comes first, and however slow the client is.
ResponseWhole ==
  stream.output /\ ~stream.error /\ ~stream.redirected /\ ~cgi.location /\ cgi.state = "open" =>
    /\ cgi.seenHeader /\ AtEnd(Out)
    /\ cgi.bodyBytes = script.wrote
    /\ script.length >= 0 => cgi.bodyBytes = script.length

\* A request that is closed leaves nothing of its command: the process is reaped, or was killed in vain, and neither
\* a descriptor, a wait handler nor the handler of SIGCHLD is left that could call back.
NothingLeft ==
  Closed /\ pc = Idle =>
    /\ script.state \in {"none", "reaped"} \/ script.sig = "kill"
    /\ cmd.fd = {} /\ cmd.on = {} /\ ~cmd.signal /\ ~cgi.cmd

\* When the script is gone the request is finalized, or closed.
Finishes == script.state \in {"exited", "reaped"} ~> Finalized \/ Closed

\* A script that reads what it is sent gets the whole body and its end, however small the pipe and the queues are,
\* unless it closes its input or the request ends in another way.
InputEnds == Running ~> script.eof \/ In \notin script.open \/ stream.error \/ stream.output \/ Closed

\* The handler and the service thread run when they can, the client sends its body and reads the response, a script
\* reads what it is sent and dies of SIGKILL; a request that is finalized, or that has lost its client, is closed.
\* These are weak fairness conditions with the guards of the actions written out.
FairSpec ==
  /\ Spec
  /\ []<>(pc = Idle) \/ []<><<Call>>_vars
  /\ []<>~MayStart \/ []<><<StartCgi>>_vars
  /\ []<>~(pc = Idle /\ down # <<>> /\ ~stream.connector) \/ []<><<NetSend>>_vars
  /\ []<>~(pc = Idle /\ In \in events) \/ []<><<StdinEvent>>_vars
  /\ \A ch \in {Out, Err} : []<>~(pc = Idle /\ ch \in events) \/ []<><<OutputEvent(ch)>>_vars
  /\ []<>~(pc = Idle /\ "child" \in events) \/ []<><<ChildDeath>>_vars
  /\ []<>("sigchld" \notin events) \/ []<><<ServiceSignals>>_vars
  /\ \A ch \in Channels : []<>~(ch \in cmd.on /\ Ready(ch)) \/ []<><<QueueIOEvent(ch)>>_vars
  /\ []<>~MayReceive \/ []<><<BrowserData \/ BrowserEnd>>_vars
  /\ []<>~MayRead \/ []<><<ScriptReads>>_vars
  /\ []<>~(pc = Idle /\ cgi.state = "open" /\ (Finalized \/ client.gone)) \/ []<><<Close>>_vars
=============================================================================
