------------------------------ MODULE Pipeline ------------------------------
(***************************************************************************)
(* The way a response takes from its handler to the socket: the queues of  *)
(* each stream (handler, chunk filter, tail filter), the queue of the      *)
(* HTTP/1 or HTTP/2 filter that all streams of a connection share, and the *)
(* queue of the network connector.  Queues are serviced by a scheduler,    *)
(* suspended when the next one is full and resumed when it has drained;    *)
(* HTTP/2 adds flow control windows.                                       *)
(* Sources: httpLib.c, its parts queue.c, packet.c, tailFilter.c,          *)
(* chunkFilter.c, fileHandler.c, http1Filter.c, http2Filter.c,             *)
(* netConnector.c and the writing part of tx.c.                            *)
(*                                                                         *)
(* All of this runs on the dispatcher of the connection, so a call is one  *)
(* step and so is one round of the loop of a service routine.  What such a *)
(* step calls is an operator from worlds to worlds: a world is a record of *)
(* the variables below.  A unit is a run of bytes that is never split.     *)
(***************************************************************************)
EXTENDS Integers, Sequences, FiniteSets

CONSTANTS
  Streams,       \* the streams of the connection, positive numbers
  Setups,        \* the connections to check: [proto, mode], mode: stream -> "file", "write" or "none"
  Body,          \* how many units a handler writes at most
  Sizes,         \* the sizes that files may have
  PacketSize,    \* limits->packetSize
  Max, Low,      \* q->max and q->low
  Allow,         \* HTTP_QUEUE_ALLOW: by less than this a packet may exceed the room of a queue
  ChunkSize,     \* limits->chunkSize
  SockMax,       \* what the socket buffers
  InitNet,       \* the window of a connection, which no setting changes
  InitWindow,    \* the first window of a stream
  Settings,      \* values of SETTINGS_INITIAL_WINDOW_SIZE that a peer may send
  SettingsMax,   \* how many times it may
  None

ASSUME PipelineAssumption ==
  /\ Streams \subseteq Nat \ {0} /\ IsFiniteSet(Streams)
  /\ PacketSize \in 1..Max /\ Low \in 1..Max /\ Allow \in Nat \ {0} /\ ChunkSize \in Nat \ {0}
  /\ Body \in Nat /\ Sizes \subseteq 0..Body /\ SockMax \in Nat \ {0} /\ InitNet \in Nat \ {0} /\ InitWindow \in Nat
  /\ Settings \subseteq Nat /\ SettingsMax \in Nat /\ None \notin Streams

VARIABLES
  queue,         \* the queues: their packets, count and whether they are suspended
  serviceq,      \* net->serviceq, the queues to service
  net,           \* the connection: protocol, windows, I/O vector, event mask, ...
  tx,            \* the transmit state of each stream
  peer,          \* the other end: what it has got, what it allows
  run            \* the queue in service, Idle between events, Between two services

vars == <<queue, serviceq, net, tx, peer, run>>

OutQ == <<"out", 0>>          \* net->outputq
SockQ == <<"sock", 0>>        \* net->socketq
HandlerQ(s) == <<"head", s>>  \* stream->txHead, which is stream->writeq too
ChunkQ(s) == <<"chunk", s>>
TailQ(s) == <<"tail", s>>     \* stream->outputq
Idle == <<"idle", 0>>
Between == <<"between", 0>>
Queues == ({"head", "chunk", "tail"} \X Streams) \cup {OutQ, SockQ}

World == [queue |-> queue, serviceq |-> serviceq, net |-> net, tx |-> tx, peer |-> peer]
Become(w) == /\ queue' = w.queue /\ serviceq' = w.serviceq /\ net' = w.net
             /\ tx' = w.tx /\ peer' = w.peer

Least(a, b) == IF a < b THEN a ELSE b
Http2(w) == w.net.proto = 2

-----------------------------------------------------------------------------
(* Packets.  A data packet has the units from + 1 to from + n of its stream. *)
(* The header of its frame or chunk is a prefix of one unit that tells a     *)
(* length; fin is END_STREAM or the last chunk.                              *)

Packet(s, kind, from, n) ==
  [s |-> s, kind |-> kind, from |-> from, n |-> n, prefix |-> 0, told |-> 0, fin |-> FALSE]
Framed(p) == [p EXCEPT !.prefix = 1, !.told = p.n]
EndPacket(s) == Packet(s, "end", 0, 0)
IsData(p) == p.kind \in {"data", "file"}

Length_Entity(p) == p.n  \* Faulty: the units of a file that are still to read are counted

\* httpGetPacketLength: an entity packet of the file handler has none.
Length(p) == IF p.kind = "file" THEN 0 ELSE p.n

\* httpSplitPacket: the prefix stays with the first part.
FirstPart(p, m) == [p EXCEPT !.n = m]
Rest(p, m) == [p EXCEPT !.from = @ + m, !.n = @ - m, !.prefix = 0]

First(w, q) == w.queue[q].packets[1]
Empty(w, q) == w.queue[q].packets = <<>>
Count(w, q) == w.queue[q].count
Suspended(w, q) == w.queue[q].suspended

-----------------------------------------------------------------------------
(* queue.c and packet.c *)

\* A chunk filter that has removed itself is not in the ring any more.
HasService(w, q) ==
  CASE q[1] = "head" -> w.tx[q[2]].mode = "file"
    [] q[1] = "chunk" -> w.tx[q[2]].chunking # "removed"
    [] OTHER -> TRUE

\* httpFindPreviousQueue: the queues of a stream form a ring, those of the connection another.
Previous(w, q) ==
  CASE q = OutQ -> SockQ
    [] q = SockQ -> OutQ
    [] q[1] = "head" -> TailQ(q[2])
    [] q[1] = "chunk" -> HandlerQ(q[2])
    [] q[1] = "tail" -> IF HasService(w, ChunkQ(q[2])) THEN ChunkQ(q[2]) ELSE HandlerQ(q[2])

\* httpFindNextQueue from the handler's queue
AfterHandler(w, s) == IF HasService(w, ChunkQ(s)) THEN ChunkQ(s) ELSE TailQ(s)

Schedule(w, q) ==
  IF HasService(w, q) /\ ~Suspended(w, q) /\ \A i \in DOMAIN w.serviceq : w.serviceq[i] # q
  THEN [w EXCEPT !.serviceq = Append(@, q)]
  ELSE w

Suspend(w, q) == [w EXCEPT !.queue[q].suspended = TRUE]

\* httpResumeQueue: an empty queue resumes the one before.
RECURSIVE Resume(_, _, _)
Resume(w, q, schedule) ==
  LET on == IF Suspended(w, q) \/ schedule
            THEN Schedule([w EXCEPT !.queue[q].suspended = FALSE], q) ELSE w
      prev == Previous(w, q)
  IN IF Count(on, q) = 0 /\ (Suspended(on, prev) \/ Count(on, prev) > 0)
     THEN Resume(on, prev, schedule \/ ~Suspended(on, prev))
     ELSE on

\* The second half of httpGetPacket, which is for empty queues too
BackEnable(w, q) ==
  LET prev == Previous(w, q)
  IN IF Count(w, q) < Low /\ (Suspended(w, prev) \/ Count(w, prev) > 0)
     THEN Resume(w, prev, ~Suspended(w, prev))
     ELSE w

GetPacket(w, q) ==
  IF Empty(w, q) THEN BackEnable(w, q)
  ELSE BackEnable([w EXCEPT !.queue[q].packets = Tail(@),
                            !.queue[q].count = @ - Length(First(w, q))], q)

PutForService(w, q, p, serviceQ) ==
  LET put == [w EXCEPT !.queue[q].packets = Append(@, p), !.queue[q].count = @ + Length(p)]
  IN IF serviceQ THEN Schedule(put, q) ELSE put

PutBack(w, q, p) ==
  [w EXCEPT !.queue[q].packets = <<p>> \o @, !.queue[q].count = @ + Length(p)]

\* Faulty: any room is enough for any packet
Accept_Whole(w, q, nextQ, p, room, slack) ==
  IF room > 0 \/ p.n < slack THEN [ok |-> TRUE, w |-> w, p |-> p]
  ELSE [ok |-> FALSE, w |-> Schedule(Suspend(w, q), nextQ), p |-> p]

\* httpWillQueueAcceptPacket and its like: q is about to pass p on to nextQ, which has this
\* room.  Of a packet that does not fit q keeps the rest; without room q is suspended.
Accept(w, q, nextQ, p, room, slack) ==
  CASE p.n - room < slack -> [ok |-> TRUE, w |-> w, p |-> p]
    [] p.n - room >= slack /\ room > 0 ->
         [ok |-> TRUE, w |-> PutBack(w, q, Rest(p, room)), p |-> FirstPart(p, room)]
    [] p.n - room >= slack /\ room <= 0 ->
         [ok |-> FALSE, w |-> Schedule(Suspend(w, q), nextQ), p |-> p]

WillQueueAccept(w, q, nextQ, p) == Accept(w, q, nextQ, p, Max - Count(w, nextQ), Allow)

\* httpJoinPackets: the data packets at the front become one, until it has the size.
RECURSIVE JoinFront(_, _)
JoinFront(ps, size) ==
  IF Len(ps) < 2 \/ ps[2].kind # "data" \/ ps[1].n >= size THEN ps
  ELSE JoinFront(<<[ps[1] EXCEPT !.n = @ + ps[2].n]>> \o SubSeq(ps, 3, Len(ps)), size)

JoinPackets(w, q, size) ==
  IF Empty(w, q) \/ First(w, q).kind # "data" THEN w
  ELSE [w EXCEPT !.queue[q].packets = JoinFront(@, size)]

-----------------------------------------------------------------------------
(* netConnector.c *)

\* addPacketForNet: what a packet puts on the wire, its prefix and its content
Wire(p) ==
  [i \in 1..p.prefix |-> [s |-> p.s, kind |-> "prefix", id |-> p.told, fin |-> p.fin /\ p.n = 0]]
  \o [i \in 1..p.n |-> [s |-> p.s, kind |-> p.kind, id |-> p.from + i, fin |-> p.fin /\ i = p.n]]

\* buildNetVec
RECURSIVE WireAll(_)
WireAll(ps) == IF ps = <<>> THEN <<>> ELSE Wire(ps[1]) \o WireAll(Tail(ps))

\* httpEnableNetEvents with the mask of httpGetNetEventMask.  HTTP/1 does not read beside a response.
EnableEvents(w) ==
  [w EXCEPT !.net.mask =
     (IF w.serviceq # <<>> \/ Count(w, SockQ) + Len(w.net.vec) > 0 THEN {"W"} ELSE {})
     \cup (IF Http2(w) THEN {"R"} ELSE {})]

\* freeNetPackets: what was written leaves the packets at the front.  An END goes whatever
\* was written, and the connector has then finished with the stream.
RECURSIVE FreePackets(_, _)
FreePackets(w, bytes) ==
  IF Empty(w, SockQ) THEN w
  ELSE LET p == First(w, SockQ)
           ofPrefix == Least(p.prefix, bytes)
           ofData == Least(p.n, bytes - ofPrefix)
           less == [p EXCEPT !.prefix = @ - ofPrefix, !.from = @ + ofData, !.n = @ - ofData]
           written == [w EXCEPT !.queue[SockQ].packets[1] = less, !.queue[SockQ].count = @ - ofData]
       IN CASE p.kind = "end" ->
                 FreePackets(GetPacket([written EXCEPT !.tx[p.s].connector = TRUE], SockQ), bytes - ofPrefix)
            [] p.kind # "end" /\ less.n + less.prefix = 0 ->
                 FreePackets(GetPacket(written, SockQ), bytes - ofPrefix - ofData)
            [] OTHER -> written

\* The peer takes what arrives apart: left is what it expects of the frame or chunk it is in.
RECURSIVE Receive(_, _, _)
Receive(w, units, framed) ==
  LET u == units[1]
      data == u.kind = "data" /\ (w.peer.left > 0 \/ ~framed)
      next == [w.peer EXCEPT
        !.left = IF u.kind = "prefix" THEN u.id ELSE IF @ > 0 THEN @ - 1 ELSE 0,
        !.garbled = @ \/ (framed /\ (u.kind = "prefix") = (w.peer.left > 0)),
        !.headers = IF u.kind = "header" THEN @ \cup {u.s} ELSE @,
        !.got = IF data THEN [@ EXCEPT ![u.s] = Append(@, u.id)] ELSE @,
        !.fin = IF u.fin THEN @ \cup {u.s} ELSE @]
  IN IF units = <<>> THEN w
     ELSE Receive([w EXCEPT !.peer = next], Tail(units), framed)

\* The socket takes what it has room for.  Headers of HTTP/1 come before any chunk.
Transmit(w, n) ==
  LET units == SubSeq(w.net.vec, 1, n)
      plain == SelectSeq(units, LAMBDA u : u.kind = "header")
      rest == SelectSeq(units, LAMBDA u : u.kind # "header")
      out == [w EXCEPT !.net.room = @ - n, !.net.vec = SubSeq(@, n + 1, Len(@))]
  IN IF Http2(w) THEN Receive(out, units, TRUE)
     ELSE Receive(Receive(out, plain, FALSE), rest, \E s \in Streams : w.tx[s].chunking = "chunks")

\* The loop of netOutgoingService: write until the queue is empty or the socket is full.
\* Whether the socket was full, and the world then.
Built(w) == IF w.net.vec = <<>> THEN [w EXCEPT !.net.vec = WireAll(w.queue[SockQ].packets)] ELSE w
Takes(w) == Least(w.net.room, Len(w.net.vec))

RECURSIVE WriteLoop(_)
WriteLoop(w) ==
  CASE Built(w).net.vec = <<>> -> [blocked |-> FALSE, w |-> FreePackets(w, 0)]
    [] Built(w).net.vec # <<>> /\ w.net.room = 0 -> [blocked |-> TRUE, w |-> Built(w)]
    [] Built(w).net.vec # <<>> /\ w.net.room > 0 -> WriteLoop(FreePackets(Transmit(Built(w), Takes(Built(w))), Takes(Built(w))))

AfterWrites(loop) ==
  CASE loop.blocked /\ "W" \notin loop.w.net.mask -> EnableEvents(loop.w)
    [] ~loop.blocked /\ Count(loop.w, SockQ) <= Low /\ Suspended(loop.w, OutQ) -> Resume(loop.w, OutQ, FALSE)
    [] OTHER -> loop.w

NetService(w) == AfterWrites(WriteLoop(w))

\* netOutgoing
PutSocket(w, p) ==
  IF Empty(w, SockQ) THEN NetService(PutForService(w, SockQ, p, FALSE))
  ELSE PutForService(w, SockQ, p, TRUE)

-----------------------------------------------------------------------------
(* From the tail filter of a stream into the filter of the protocol *)

\* outgoingHttp1
PutHttp1(w, p) ==
  LET answer == WillQueueAccept(w, OutQ, SockQ, p)
  IN IF Count(w, OutQ) # 0 THEN PutForService(w, OutQ, p, TRUE)
     ELSE IF answer.ok THEN PutSocket(answer.w, answer.p)
     ELSE PutForService(answer.w, OutQ, p, TRUE)

\* Faulty: frames with headers are charged too
PutHttp2_Headers(w, p) == PutForService([w EXCEPT !.tx[p.s].window = @ - p.n], OutQ, p, TRUE)

\* outgoingHttp2: the window of the stream is charged here.
PutHttp2(w, p) ==
  PutForService(IF IsData(p) THEN [w EXCEPT !.tx[p.s].window = @ - p.n] ELSE w, OutQ, p, TRUE)

PutOut(w, p) == IF Http2(w) THEN PutHttp2(w, p) ELSE PutHttp1(w, p)

\* Faulty: the window is not looked at
WillTailAccept_Room(w, s, p) ==
  Accept(w, TailQ(s), OutQ, p, Max - Count(w, OutQ), IF Http2(w) THEN 1 ELSE Allow)

\* willQueueAcceptPacket of the tail filter
WillTailAccept(w, s, p) ==
  LET room == Max - Count(w, OutQ)
  IN Accept(w, TailQ(s), OutQ, p,
            IF Http2(w) /\ IsData(p) THEN Least(w.tx[s].window, room) ELSE room,
            IF Http2(w) THEN 1 ELSE Allow)

\* Faulty: a packet passes by what the queue holds
PutTail_Past(w, s, p) ==
  LET ready == IF w.tx[s].headers THEN w
               ELSE PutForService([w EXCEPT !.tx[s].headers = TRUE], TailQ(s), Packet(s, "header", 0, 1), TRUE)
      answer == WillTailAccept(ready, s, p)
  IN IF answer.ok THEN PutOut(answer.w, answer.p) ELSE PutForService(answer.w, TailQ(s), p, TRUE)

\* outgoingTail: the headers go first.  An empty queue is passed by.
PutTail(w, s, p) ==
  LET ready == IF w.tx[s].headers THEN w
               ELSE PutForService([w EXCEPT !.tx[s].headers = TRUE], TailQ(s), Packet(s, "header", 0, 1), TRUE)
      answer == WillTailAccept(ready, s, p)
  IN IF Count(ready, TailQ(s)) # 0 THEN PutForService(ready, TailQ(s), p, TRUE)
     ELSE IF answer.ok THEN PutOut(answer.w, answer.p)
     ELSE PutForService(answer.w, TailQ(s), p, TRUE)

\* httpPutPacketToNext from the handler's queue
PutAfterHandler(w, s, p) ==
  IF HasService(w, ChunkQ(s)) THEN PutForService(w, ChunkQ(s), p, TRUE) ELSE PutTail(w, s, p)

\* httpTransferPackets from the chunk filter, and httpRemoveQueue
RECURSIVE Transfer(_, _)
Transfer(w, s) ==
  IF Empty(w, ChunkQ(s)) THEN BackEnable(w, ChunkQ(s))
  ELSE Transfer(PutTail(GetPacket(w, ChunkQ(s)), s, First(w, ChunkQ(s))), s)

-----------------------------------------------------------------------------
(* Handlers *)

\* httpFinalizeOutput: the END packet, unless the handler has put it.
FinalizeOutput(w, s) ==
  IF w.tx[s].finalized THEN w
  ELSE PutAfterHandler([w EXCEPT !.tx[s].finalized = TRUE], s, EndPacket(s))

EndOfFile(w, s) == IF Empty(w, HandlerQ(s)) THEN FinalizeOutput(w, s) ELSE w

\* One round of outgoingFileService: read a packet of the file and put it on, or what it had
\* to put back; the END right after the last one.
FileService(s) ==
  /\ run = HandlerQ(s)
  /\ IF Empty(World, run)
     THEN run' = Between /\ UNCHANGED <<queue, serviceq, net, tx, peer>>
     ELSE LET p == First(World, run)
              size == Least(p.n, PacketSize)
              data == Packet(s, "data", p.from, size)
              less == [World EXCEPT !.queue[run].packets[1].from = @ + size, !.queue[run].packets[1].n = @ - size]
              read == IF p.n = size THEN GetPacket(less, run) ELSE less
              answer == IF p.kind = "file" THEN WillQueueAccept(read, run, AfterHandler(read, s), data)
                        ELSE [ok |-> TRUE, w |-> GetPacket(World, run), p |-> p]
          IN IF ~answer.ok
             THEN Become(PutBack(answer.w, run, data)) /\ run' = Between
             ELSE /\ Become(EndOfFile(IF p.kind = "file" /\ size = 0 THEN GetPacket(World, run)
                                      ELSE PutAfterHandler(answer.w, s, answer.p), s))
                  /\ UNCHANGED run

MayWrite(s) == run = Idle /\ tx[s].mode = "write" /\ ~tx[s].finalized /\ ~net.closed

\* httpWriteBlock with HTTP_NON_BLOCK: a handler that is told of a full queue waits.
HandlerWrite(s) ==
  /\ MayWrite(s)
  /\ Count(World, AfterHandler(World, s)) < Max
  /\ \E n \in 1..Least(PacketSize, Body - tx[s].produced) :
       Become(PutAfterHandler([World EXCEPT !.tx[s].produced = @ + n], s,
                              Packet(s, "data", tx[s].produced, n)))
  /\ run' = Between

\* httpFinalize by a handler
HandlerFinalize(s) ==
  /\ MayWrite(s)
  /\ Become(FinalizeOutput(World, s))
  /\ run' = Between

-----------------------------------------------------------------------------
(* The service routines of the filters *)

\* needChunking, at the first service: not if the length is known or all of the data is here.
LastKind(w, q) == w.queue[q].packets[Len(w.queue[q].packets)].kind
NeedChunking(w, s) ==
  /\ ~Http2(w) /\ w.tx[s].mode = "write"
  /\ Empty(w, ChunkQ(s)) \/ LastKind(w, ChunkQ(s)) # "end"

\* The first service of outgoingChunkService, without chunks
ChunkRemove(s) ==
  /\ run = ChunkQ(s) /\ tx[s].chunking = "new" /\ ~NeedChunking(World, s)
  /\ LET all == Transfer(JoinPackets(World, run, Body), s)
     IN Become([all EXCEPT !.tx[s].chunking = "removed"])
  /\ run' = Between

\* One round of its loop.  Before the END goes a last, empty chunk.
FinalChunk(s) == [Framed(Packet(s, "data", 0, 0)) EXCEPT !.fin = TRUE]

\* The packets of the queue at the front as one of at most the size of a chunk
Chunk(w, q) ==
  LET joined == JoinPackets(w, q, ChunkSize)
      cut == GetPacket(joined, q)
      p == First(joined, q)
  IN IF p.n > ChunkSize THEN [w |-> PutBack(cut, q, Rest(p, ChunkSize)), p |-> FirstPart(p, ChunkSize)]
     ELSE [w |-> cut, p |-> p]

PutChunk(answer, s) ==
  PutTail(IF answer.p.kind = "end" THEN PutTail(answer.w, s, FinalChunk(s)) ELSE answer.w,
          s, IF answer.p.kind = "data" THEN Framed(answer.p) ELSE answer.p)

WillTailTake(next, q, s) == WillQueueAccept(next.w, q, TailQ(s), next.p)

ChunkService(s) ==
  /\ run = ChunkQ(s) /\ (tx[s].chunking = "new" => NeedChunking(World, s))
  /\ LET got == GetPacket([World EXCEPT !.tx[s].chunking = "chunks"], run)
         p == First(World, run)
         answer == WillTailTake(IF p.kind = "data" THEN Chunk(PutBack(got, run, p), run) ELSE [w |-> got, p |-> p],
                                run, s)
     IN IF Empty(World, run) THEN Become(got) /\ run' = Between
        ELSE IF ~answer.ok THEN Become(PutBack(answer.w, run, answer.p)) /\ run' = Between
        ELSE Become(PutChunk(answer, s)) /\ UNCHANGED run

\* One round of outgoingTailService
TailService(s) ==
  /\ run = TailQ(s)
  /\ LET got == GetPacket(World, run)
         answer == WillTailAccept(got, s, First(World, run))
     IN IF Empty(World, run) THEN Become(got) /\ run' = Between
        ELSE IF ~answer.ok THEN Become(PutBack(answer.w, run, answer.p)) /\ run' = Between
        ELSE Become(PutOut(answer.w, answer.p)) /\ UNCHANGED run

\* Filters multiplex, so they resume the streams by themselves.
ResumeTail(w, s) == IF Count(w, OutQ) <= Low /\ Suspended(w, TailQ(s)) THEN Resume(w, TailQ(s), FALSE) ELSE w

\* One round of outgoingHttp1Service.  The stream is the one of the connection.
Http1Service ==
  /\ run = OutQ /\ net.proto = 1
  /\ LET got == GetPacket(World, run)
         answer == WillQueueAccept(got, OutQ, SockQ, First(World, run))
         s == CHOOSE s \in Streams : tx[s].mode # "none"
     IN IF Empty(World, run) THEN Become(ResumeTail(got, s)) /\ run' = Between
        ELSE IF ~answer.ok THEN Become(PutBack(answer.w, run, answer.p)) /\ run' = Between
        ELSE Become(PutSocket(answer.w, answer.p)) /\ UNCHANGED run

-----------------------------------------------------------------------------
(* http2Filter.c *)

Control == Packet(0, "control", 0, 0)

\* sendFrame, after a GOAWAY it drops everything
SendFrame(w, p) == IF w.net.goaway THEN w ELSE PutSocket(w, Framed(p))

\* sendGoAway by the server
GoAway(w) == [SendFrame(w, Control) EXCEPT !.net.goaway = TRUE]

\* restartSuspendedStreams goes through the streams in their order.
RECURSIVE RestartFrom(_, _)
RestartFrom(w, s) ==
  LET q == TailQ(s)
      on == IF Count(w, q) > 0 /\ w.tx[s].window > 0 /\ Suspended(w, q) THEN Resume(w, q, FALSE) ELSE w
      later == {t \in Streams : t > s}
  IN IF later = {} THEN on ELSE RestartFrom(on, CHOOSE t \in later : \A u \in later : t <= u)

RestartSuspendedStreams(w) == RestartFrom(w, CHOOSE t \in Streams : \A u \in Streams : t <= u)

\* Faulty: the streams are restarted only when the queue was suspended
AfterHttp2Loop_Suspended(w) ==
  IF w.net.window >= 0 /\ Count(w, OutQ) <= Low /\ Suspended(w, OutQ) THEN RestartSuspendedStreams(w) ELSE w

\* The end of outgoingHttp2Service
AfterHttp2Loop(w) ==
  IF w.net.window >= 0 /\ Count(w, OutQ) <= Low /\ ~Suspended(w, OutQ) THEN RestartSuspendedStreams(w) ELSE w

\* setLastPacket: what the packet is followed by in the queue, of whatever stream that is
EndsStream(w, p) ==
  ~Empty(w, OutQ) /\ First(w, OutQ).kind = "end"

\* A data or END packet as a frame: getFrameFlags and setState(E2_TX_END).  A frame with
\* END_STREAM half closes the stream, which the request had half closed before.
DataFrame(w, p, last) ==
  LET charged == [w EXCEPT !.net.window = @ - (IF IsData(p) THEN p.n ELSE 0)]
      ended == [charged EXCEPT !.tx[p.s].allDataSent = TRUE, !.tx[p.s].h2 = "closed"]
  IN SendFrame(IF last THEN ended ELSE charged, [p EXCEPT !.fin = last])

\* The body of the loop of outgoingHttp2Service for a packet p of a stream that is there
Http2Packet(w, p) ==
  CASE p.kind = "header" -> SendFrame(w, p)
    [] p.kind = "data" ->
         LET whole == p.n <= w.net.window
             cut == IF whole THEN w ELSE PutBack(w, OutQ, Rest(p, w.net.window))
         IN DataFrame(cut, FirstPart(p, Least(p.n, w.net.window)), whole /\ EndsStream(w, p))
    [] p.kind = "end" -> IF w.tx[p.s].allDataSent THEN PutSocket(w, p) ELSE DataFrame(w, p, TRUE)

EndHttp2Service(w) == Become(AfterHttp2Loop(w)) /\ run' = Between

NextHttp2Round(w) ==
  IF w.net.window <= 0 THEN EndHttp2Service(Suspend(w, OutQ)) ELSE Become(w) /\ UNCHANGED run

Http2Service ==
  /\ run = OutQ /\ net.proto = 2
  /\ LET got == GetPacket(World, run)
         p == First(World, run)
         full == got.net.window <= 0 \/ Count(got, SockQ) >= Max
         illegal == tx[p.s].h2 = "closed" /\ (p.kind # "end" \/ ~tx[p.s].allDataSent)
         sent == IF tx[p.s].destroyed THEN got ELSE ResumeTail(Http2Packet(got, p), p.s)
     IN IF Empty(World, run) THEN EndHttp2Service(got)
        ELSE IF full THEN EndHttp2Service(PutBack(Suspend(got, run), run, p))
        ELSE IF illegal /\ ~tx[p.s].destroyed THEN EndHttp2Service(GoAway(got))
        ELSE NextHttp2Round(sent)

\* netOutgoingService, of both protocols
SocketService ==
  /\ run = SockQ
  /\ Become(NetService(World))
  /\ run' = Between

-----------------------------------------------------------------------------
(* The scheduler and the events of the connection *)

\* httpServiceNetQueues takes the next queue; httpServiceQueue passes by one that is suspended.
NextQueue ==
  /\ run = Between /\ serviceq # <<>>
  /\ LET q == serviceq[1]
     IN run' = IF HasService(World, q) /\ ~Suspended(World, q) THEN q ELSE Between
  /\ serviceq' = Tail(serviceq)
  /\ UNCHANGED <<queue, net, tx, peer>>

\* The rest of httpServiceNet, and of incomingHttp2 for a stream that a frame was for
ServiceDone ==
  /\ run = Between /\ serviceq = <<>>
  /\ LET s == net.frame
         reaped == IF s # None /\ tx[s].h2 = "closed" THEN [World EXCEPT !.tx[s].destroyed = TRUE] ELSE World
         clear == [reaped EXCEPT !.net.frame = None]
     IN Become(IF net.goaway /\ Empty(World, SockQ)
               THEN [clear EXCEPT !.net.closed = TRUE, !.net.mask = {}]
               ELSE EnableEvents(clear))
  /\ run' = Idle

\* httpIOEvent with MPR_WRITABLE.  An event comes once for every time it is enabled.
IOWritable ==
  /\ run = Idle /\ "W" \in net.mask /\ net.room > 0
  /\ LET off == [World EXCEPT !.net.mask = {}]
     IN Become(IF Count(off, SockQ) + Len(net.vec) > 0 THEN Resume(off, SockQ, TRUE) ELSE off)
  /\ run' = Between

\* Frames of the peer, for a connection that reads
Readable == run = Idle /\ "R" \in net.mask
Open(s) == tx[s].mode # "none" /\ ~tx[s].destroyed

\* parseWindowFrame for the connection, and for a stream.  What the peer has got it may
\* allow again; of a stream whose end it has seen it speaks no more.
RECURSIVE Total(_)
Total(S) == IF S = {} THEN 0 ELSE LET s == CHOOSE s \in S : TRUE IN Len(peer.got[s]) + Total(S \ {s})
OwedNet == Total(Streams) - peer.grantedNet
Owed(s) == Len(peer.got[s]) - peer.granted[s]
MayAllow(s) == Readable /\ Open(s) /\ s \notin peer.fin /\ Owed(s) > 0

NetWindow ==
  /\ Readable /\ OwedNet > 0
  /\ Become(Resume([World EXCEPT !.net.mask = {}, !.net.window = @ + OwedNet, !.peer.grantedNet = @ + OwedNet],
                   OutQ, FALSE))
  /\ run' = Between

StreamWindow(s) ==
  /\ MayAllow(s)
  /\ Become(Resume([World EXCEPT !.net.mask = {}, !.net.frame = s, !.tx[s].window = @ + Owed(s),
                                 !.peer.granted[s] = @ + Owed(s)], TailQ(s), FALSE))
  /\ run' = Between

\* parseSettingsFrame: a new initial window changes the windows of all streams, below zero too.
SettingsFrame ==
  /\ Readable /\ peer.settings < SettingsMax /\ ~net.goaway
  /\ \E v \in Settings \ {net.initial} :
       LET Diff(s) == IF tx[s].h2 = "cremote" /\ Open(s) THEN v - net.initial ELSE 0
           changed == [World EXCEPT
             !.net.mask = {}, !.net.initial = v, !.peer.settings = @ + 1,
             !.tx = [s \in Streams |-> [@[s] EXCEPT !.window = @ + Diff(s)]],
             !.peer.changed = [s \in Streams |-> @[s] + Diff(s)]]
       IN Become(RestartSuspendedStreams(SendFrame(changed, Control)))
  /\ run' = Between

MayStart(s) == run = Idle /\ tx[s].mode = "file" /\ ~tx[s].started /\ ~net.closed

\* startFileHandler and readyFileHandler: an entity packet stands for the file.
StartFile(s) ==
  /\ MayStart(s)
  /\ \E size \in Sizes :
       Become(Schedule(PutForService([World EXCEPT !.tx[s].started = TRUE, !.tx[s].produced = size],
                                     HandlerQ(s), Packet(s, "file", 0, size), FALSE), HandlerQ(s)))
  /\ run' = Between

\* The peer reads what has arrived.
PeerReads ==
  /\ net.room < SockMax
  /\ net' = [net EXCEPT !.room = SockMax]
  /\ UNCHANGED <<queue, serviceq, tx, peer, run>>

-----------------------------------------------------------------------------
Init ==
  /\ queue = [q \in Queues |-> [packets |-> <<>>, count |-> 0, suspended |-> FALSE]]
  /\ serviceq = <<>> /\ run = Idle
  /\ \E setup \in Setups :
       /\ net = [proto |-> setup.proto, initial |-> InitWindow, window |-> InitNet, room |-> SockMax,
                 vec |-> <<>>, mask |-> IF setup.proto = 2 THEN {"R"} ELSE {}, frame |-> None,
                 goaway |-> FALSE, closed |-> FALSE]
       /\ tx = [s \in Streams |->
                 [mode |-> setup.mode[s], started |-> FALSE, produced |-> 0, finalized |-> FALSE,
                  headers |-> FALSE, chunking |-> "new", connector |-> FALSE,
                  window |-> InitWindow, h2 |-> "cremote", allDataSent |-> FALSE, destroyed |-> FALSE]]
  /\ peer = [got |-> [s \in Streams |-> <<>>], headers |-> {}, fin |-> {}, left |-> 0, garbled |-> FALSE,
             granted |-> [s \in Streams |-> 0], grantedNet |-> 0,
             changed |-> [s \in Streams |-> 0], settings |-> 0]

ServiceQueue ==
  \/ \E s \in Streams : FileService(s) \/ ChunkRemove(s) \/ ChunkService(s) \/ TailService(s)
  \/ Http1Service \/ Http2Service \/ SocketService
  \/ NextQueue \/ ServiceDone

Done ==
  /\ run = Idle
  /\ net.closed \/ \A s \in Streams : tx[s].mode # "none" => tx[s].connector \/ tx[s].destroyed
  /\ UNCHANGED vars

Next ==
  \/ ServiceQueue
  \/ \E s \in Streams : StartFile(s) \/ HandlerWrite(s) \/ HandlerFinalize(s) \/ StreamWindow(s)
  \/ IOWritable \/ NetWindow \/ SettingsFrame \/ PeerReads
  \/ Done

Spec == Init /\ [][Next]_vars

\* The program runs its queues and its events, handlers come to an end, and the peer reads
\* and allows again what it has got.  An action that stays possible is taken: these are weak
\* fairness conditions with the actions' guards written out.
FairSpec ==
  /\ Spec
  /\ []<>(run = Idle) \/ []<><<ServiceQueue>>_vars
  /\ []<>~(run = Idle /\ "W" \in net.mask /\ net.room > 0) \/ []<><<IOWritable>>_vars
  /\ []<>(net.room = SockMax) \/ []<><<PeerReads>>_vars
  /\ []<>~(Readable /\ OwedNet > 0) \/ []<><<NetWindow>>_vars
  /\ \A s \in Streams :
       /\ []<>~MayStart(s) \/ []<><<StartFile(s)>>_vars
       /\ []<>~MayWrite(s) \/ []<><<HandlerFinalize(s)>>_vars
       /\ []<>~MayAllow(s) \/ []<><<StreamWindow(s)>>_vars

-----------------------------------------------------------------------------
\* Types; the counts of the queues, which are signed in the code, stay above zero.
TypeOK ==
  /\ \A q \in Queues : queue[q].count \in Nat /\ queue[q].suspended \in BOOLEAN
  /\ \A i \in DOMAIN serviceq : serviceq[i] \in Queues
  /\ net.proto \in {1, 2} /\ net.room \in 0..SockMax /\ net.mask \subseteq {"R", "W"}
  /\ \A s \in Streams : tx[s].window \in Int /\ tx[s].chunking \in {"new", "chunks", "removed"}
  /\ run \in Queues \cup {Idle, Between}

\* httpVerifyQueue: the count of a queue is the length of its packets, through all splits,
\* joins, put backs and partial writes.
RECURSIVE Lengths(_)
Lengths(ps) == IF ps = <<>> THEN 0 ELSE Length(ps[1]) + Lengths(Tail(ps))
CountExact == \A q \in Queues : queue[q].count = Lengths(queue[q].packets)

\* How far the data of a stream has come: past the charge of the stream's window, or of the
\* connection's.
Reached(s, qs) ==
  LET ids == {0, Len(peer.got[s])}
        \cup {queue[q].packets[i].from + queue[q].packets[i].n :
                <<q, i>> \in {<<q, i>> \in qs \X (1..20) :
                    /\ i \in DOMAIN queue[q].packets
                    /\ queue[q].packets[i].s = s /\ queue[q].packets[i].kind = "data"}}
  IN CHOOSE m \in ids : \A n \in ids : n <= m

RECURSIVE Taken(_)
Taken(S) == IF S = {} THEN 0 ELSE LET s == CHOOSE s \in S : TRUE IN Reached(s, {SockQ}) + Taken(S \ {s})

\* The windows are exact: what a peer has allowed is what is left plus what has been taken,
\* although packets are split, put back and joined on the way and the settings change.
WindowExact ==
  net.proto = 2 =>
    /\ \A s \in Streams : tx[s].window + Reached(s, {OutQ, SockQ})
                            = InitWindow + peer.granted[s] + peer.changed[s]
    /\ ~net.goaway => net.window + Taken(Streams) = InitNet + peer.grantedNet

\* What has got its end is complete for the peer: a last frame or chunk, or the length that
\* the headers of HTTP/1 tell when the chunk filter is gone.
Ended(s) ==
  \/ s \in peer.fin
  \/ /\ net.proto = 1 /\ tx[s].chunking = "removed" /\ s \in peer.headers
     /\ Len(peer.got[s]) = tx[s].produced

\* Data passes the two points of flow control only while the windows cover it, even when a
\* setting has made a window negative.
NeverOverdrawn ==
  [][net.proto = 2 =>
       /\ \A s \in Streams : tx'[s].window < tx[s].window /\ net'.initial = net.initial => tx'[s].window >= 0
       /\ net'.window >= 0]_vars

\* The buffers of a connection are bounded, whatever its streams send and however slow the peer is.
BufferBound ==
  /\ queue[OutQ].count <= Max + Allow - 1
  /\ queue[SockQ].count <= Max + Allow + PacketSize

\* What the pipeline promises its handlers and its peer: the data of each stream arrives in
\* order, once, and of no other stream; and no response looks complete before it is.
Bytes == INSTANCE ByteStream WITH
  sent <- [s \in Streams |-> tx[s].produced],
  final <- [s \in Streams |-> tx[s].finalized],
  got <- peer.got,
  ended <- [s \in Streams |-> Ended(s)]
BytesSpec == Bytes!Spec

\* Every response that its handler ends reaches the peer as a whole.
AllSent == \A s \in Streams : tx[s].finalized ~> Ended(s)

=============================================================================
