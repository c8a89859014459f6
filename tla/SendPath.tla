------------------------------ MODULE SendPath ------------------------------
(***************************************************************************)
(* The way out of a node: threads that call SlaveReactor::sendData for a    *)
(* session, the queue of send tasks with its eventfd, the reactor thread,   *)
(* the session's write buffer (a RingBuffer) and the kernel's send buffer,  *)
(* which the edge-triggered EPOLLOUT watches.                               *)
(*                                                                          *)
(* One session; its packets are numbered in the order sendData accepts      *)
(* them, and byte <<k, i, n>> is byte i of packet k, which is n bytes long. *)
(***************************************************************************)
EXTENDS Integers, Sequences

CONSTANTS
  Size,          \* c_p2pSessionWriteBufferSize
  Lens,          \* bound: the lengths of packets
  MaxSend,       \* bound: calls of sendData
  KernelSpace,   \* the kernel's send buffer
  EdgeSpace,     \* the free space of it from which the kernel reports EPOLLOUT
  Resets         \* whether the peer may reset the connection

ASSUME SendAssumption ==
  /\ Size \in Nat /\ Size > 2
  /\ Lens \subseteq 1 .. Size       \* sendData refuses longer ones
  /\ MaxSend \in Nat /\ KernelSpace \in Nat \ {0}
  /\ EdgeSpace \in 1 .. KernelSpace
  /\ Resets \in BOOLEAN

PacketByte == (1 .. MaxSend) \X (1 .. Size) \X Lens
Zero == <<0, 0, 0>>
Byte == PacketByte \cup {Zero}

VARIABLES
  start, end, buffer,   \* the session's write buffer
  sends,         \* calls of sendData that returned 0
  tasks,         \* m_sendTasks
  owed,          \* callers that have queued a task and not yet written the eventfd
  wakeup,        \* the eventfd's counter is not 0
  pc,            \* where the reactor thread is
  batch,         \* the tasks handleSendTasks has swapped out
  got,           \* what epoll_wait reported of the session
  flush,         \* data, length and sendLen of the EPOLLOUT loop
  armed,         \* EPOLLOUT is in the session's event mask
  edge,          \* epoll has an event of the session to report
  free,          \* free space of the kernel's send buffer
  sent,          \* every byte the kernel has taken
  partial,       \* whether it has taken only a part of what a flush handed it
  conn,          \* the connection: "open", "reset" by the peer, "closed"
  waiting,       \* P2PSession::m_isWaitingDisconnect
  destroying     \* the session destroyer has been told

bufferVars == <<start, end, buffer>>
callVars   == <<sends, tasks, owed, wakeup>>
kernelVars == <<armed, edge, free, sent, partial>>
connVars   == <<conn, waiting, destroying>>
vars == <<bufferVars, callVars, pc, batch, got, flush, kernelVars, connVars>>

WriteBuffer == INSTANCE RingBuffer

Least(a, b) == IF a < b THEN a ELSE b
Data(k, n)  == [i \in 1 .. n |-> <<k, i, n>>]
Task        == {Data(k, n) : k \in 1 .. MaxSend, n \in Lens}
NoFlush     == [at |-> 0, len |-> 0, done |-> 0]

Init ==
  /\ WriteBuffer!Init
  /\ sends = 0 /\ tasks = << >> /\ owed = 0 /\ wakeup = FALSE
  /\ pc = "poll" /\ batch = << >> /\ got = "none" /\ flush = NoFlush
  /\ armed = FALSE /\ edge = FALSE /\ free = KernelSpace /\ sent = << >> /\ partial = FALSE
  /\ conn = "open" /\ waiting = FALSE /\ destroying = FALSE

-----------------------------------------------------------------------------
(* The callers, the peer and the destroyer.                                *)

\* sendData queues the task, then writes the eventfd.
SendData(n) ==
  /\ sends < MaxSend
  /\ conn # "closed" /\ ~waiting
  /\ sends' = sends + 1
  /\ tasks' = Append(tasks, Data(sends + 1, n))
  /\ owed' = owed + 1
  /\ UNCHANGED <<bufferVars, wakeup, pc, batch, got, flush, kernelVars, connVars>>

WriteEventfd ==
  /\ owed > 0
  /\ owed' = owed - 1
  /\ wakeup' = TRUE
  /\ UNCHANGED <<bufferVars, sends, tasks, pc, batch, got, flush, kernelVars, connVars>>

Writable(space) == space >= EdgeSpace

\* The peer acknowledges some bytes.
Acknowledge ==
  /\ conn = "open"
  /\ \E space \in free + 1 .. KernelSpace :
       /\ free' = space
       /\ edge' = (edge \/ (armed /\ Writable(space)))
  /\ UNCHANGED <<bufferVars, callVars, pc, batch, got, flush, armed, sent, partial, connVars>>

Reset ==
  /\ Resets /\ conn = "open"
  /\ conn' = "reset"
  /\ edge' = TRUE
  /\ UNCHANGED <<bufferVars, callVars, pc, batch, got, flush, armed, free, sent,
                 partial, waiting, destroying>>

\* The destroy handler: mark the session, remove it from epoll, close it.
CloseSession ==
  /\ destroying /\ conn # "closed"
  /\ conn' = "closed"
  /\ waiting' = TRUE
  /\ edge' = FALSE /\ armed' = FALSE
  /\ UNCHANGED <<bufferVars, callVars, pc, batch, got, flush, free, sent, partial,
                 destroying>>

-----------------------------------------------------------------------------
(* The reactor thread: epoll_wait, the send tasks, then the events.        *)

Reported ==
  CASE conn = "reset"                          -> "err"
    [] conn = "open" /\ armed /\ Writable(free) -> "out"
    [] OTHER                                    -> "none"

Poll(input) ==
  /\ pc = "poll"
  /\ wakeup \/ edge \/ input
  /\ got' \in IF edge THEN {Reported}
              ELSE IF input /\ conn = "open" THEN {Reported, "none"} ELSE {"none"}
  /\ edge' = FALSE
  /\ pc' = "swap"
  /\ UNCHANGED <<bufferVars, callVars, batch, flush, armed, free, sent, partial,
                 connVars>>

\* epoll_wait returns for the eventfd or an event of the session.
PollReady == Poll(FALSE)

\* epoll_wait returns because bytes for this or another session have arrived.
PollInput == Poll(TRUE)

CopyTasks ==                                                 \* mutant
  /\ pc = "swap"
  /\ batch' = tasks /\ UNCHANGED tasks
  /\ pc' = "batch"
  /\ UNCHANGED <<bufferVars, sends, owed, wakeup, got, flush, kernelVars, connVars>>

SwapTasks ==
  /\ pc = "swap"
  /\ batch' = tasks /\ tasks' = << >>
  /\ pc' = "batch"
  /\ UNCHANGED <<bufferVars, sends, owed, wakeup, got, flush, kernelVars, connVars>>

KeepMask   == UNCHANGED <<armed, edge>>                      \* mutant
ArmOut     == armed' = TRUE /\ edge' = Writable(free')
DisarmOut  == armed' = FALSE /\ edge' = FALSE

SendNowWhole(bytes) ==                                       \* mutant
  /\ sent' = sent \o bytes /\ free' = free - Len(bytes)
  /\ UNCHANGED <<bufferVars, armed, edge, partial, pc>>

\* The kernel takes what it has room for; the rest waits in the write buffer
\* for EPOLLOUT.  A packet the empty buffer has no room for ends the process.
\* The sends of one packet are one step: a reset between two of them, which the
\* code answers as it does any other (line 430), comes before or after it.
SendNow(bytes) ==
  LET n == Least(Len(bytes), free)
      rest == SubSeq(bytes, n + 1, Len(bytes))
  IN  /\ sent' = sent \o SubSeq(bytes, 1, n)
      /\ free' = free - n
      /\ UNCHANGED partial
      /\ CASE rest = << >> -> UNCHANGED <<bufferVars, armed, edge, pc>>
           [] Len(rest) > WriteBuffer!Space -> pc' = "abort" /\ UNCHANGED <<bufferVars, armed, edge>>
           [] OTHER -> WriteBuffer!Write(rest) /\ ArmOut /\ UNCHANGED pc

OvertakeBuffer(bytes) ==                                     \* mutant
  LET n == Least(Len(bytes), free)
  IN  /\ sent' = sent \o SubSeq(bytes, 1, n) /\ free' = free - n
      /\ UNCHANGED <<bufferVars, armed, edge, partial, pc>>

\* Behind bytes that wait, wait too; what the buffer has no room for is lost.
SendLater(bytes) ==
  /\ IF Len(bytes) > WriteBuffer!Space THEN UNCHANGED bufferVars
                                       ELSE WriteBuffer!Write(bytes)
  /\ UNCHANGED <<kernelVars, pc>>

\* handleSend of the next task.
HandleSend ==
  /\ pc = "batch" /\ batch # << >>
  /\ batch' = Tail(batch)
  /\ CASE waiting -> UNCHANGED <<bufferVars, kernelVars, pc, destroying>>
       [] ~waiting /\ WriteBuffer!DataLength # 0 ->
            SendLater(Head(batch)) /\ UNCHANGED destroying
       [] ~waiting /\ WriteBuffer!DataLength = 0 /\ conn = "open" ->
            SendNow(Head(batch)) /\ UNCHANGED destroying
       [] OTHER -> /\ destroying' = (destroying \/ conn = "reset")
                   /\ UNCHANGED <<bufferVars, kernelVars, pc>>
  /\ UNCHANGED <<callVars, got, flush, conn, waiting>>

ReadEventfd ==
  /\ pc = "batch" /\ batch = << >>
  /\ wakeup' = FALSE
  /\ pc' = "events"
  /\ UNCHANGED <<bufferVars, sends, tasks, owed, batch, got, flush, kernelVars, connVars>>

HandleEvent ==
  /\ pc = "events"
  /\ pc' = IF got = "out" /\ ~waiting THEN "flush" ELSE "poll"
  /\ IF got = "err" /\ conn # "closed"
       THEN waiting' = TRUE /\ destroying' = TRUE
       ELSE UNCHANGED <<waiting, destroying>>
  /\ UNCHANGED <<bufferVars, callVars, batch, got, flush, kernelVars, conn>>

\* The outer loop: the next run of bytes the write buffer says is contiguous.
FlushNext ==
  /\ pc = "flush"
  /\ IF WriteBuffer!DataLength = 0
       THEN pc' = "poll" /\ UNCHANGED flush
       ELSE /\ flush' = [at |-> start, len |-> WriteBuffer!ContinuousSize, done |-> 0]
            /\ pc' = "send"
  /\ UNCHANGED <<bufferVars, callVars, batch, got, kernelVars, connVars>>

\* A negative size is a huge one of type std::size_t.
More == flush.len < 0 \/ flush.done < flush.len

FlushDone ==
  /\ pc = "send" /\ ~More
  /\ pc' = "flush"
  /\ UNCHANGED <<bufferVars, callVars, batch, got, flush, kernelVars, connVars>>

\* send(fd, data, length): neither data nor length moves with what was sent;
\* bytes past the vector are whatever is there.
Flushed(n) == [i \in 1 .. n |->
                 IF flush.at + i - 1 < Size THEN buffer[flush.at + i - 1] ELSE Zero]

FlushSend ==
  LET n == IF flush.len < 0 THEN free ELSE Least(flush.len, free)
  IN  /\ pc = "send" /\ More
      /\ conn = "open" /\ n > 0
      /\ sent' = sent \o Flushed(n)
      /\ free' = free - n
      /\ IF n <= WriteBuffer!DataLength THEN WriteBuffer!DecreaseUsedSpace(n)
                                        ELSE UNCHANGED bufferVars
      /\ flush' = [flush EXCEPT !.done = @ + n]
      /\ partial' = (partial \/ n # flush.len)
      /\ DisarmOut
      /\ UNCHANGED <<callVars, pc, batch, got, connVars>>

\* EAGAIN: ask for EPOLLOUT again and try again at once.
FlushFull ==
  /\ pc = "send" /\ More
  /\ conn = "open" /\ free = 0
  /\ UNCHANGED free /\ ArmOut
  /\ UNCHANGED <<bufferVars, callVars, pc, batch, got, flush, sent, partial, connVars>>

\* ECONNRESET or EPIPE: tell the destroyer and try again at once.
FlushBroken ==
  /\ pc = "send" /\ More
  /\ conn = "reset"
  /\ waiting' = TRUE /\ destroying' = TRUE
  /\ UNCHANGED <<bufferVars, callVars, pc, batch, got, flush, kernelVars, conn>>

-----------------------------------------------------------------------------
Reactor ==
  \/ SwapTasks \/ HandleSend \/ ReadEventfd \/ HandleEvent
  \/ FlushNext \/ FlushDone \/ FlushSend \/ FlushFull \/ FlushBroken

Next ==
  \/ \E n \in Lens : SendData(n)
  \/ WriteEventfd \/ Acknowledge \/ Reset \/ CloseSession
  \/ PollReady \/ PollInput \/ Reactor

Spec == Init /\ [][Next]_vars

\* The threads keep running and the peer keeps acknowledging; nothing says
\* that it ever sends.
FairSpec ==
  /\ Spec
  /\ WF_vars(PollReady) /\ WF_vars(Reactor) /\ WF_vars(CloseSession)
  /\ WF_vars(WriteEventfd) /\ WF_vars(Acknowledge)

-----------------------------------------------------------------------------
(* Properties.                                                             *)

TypeOK ==
  /\ WriteBuffer!TypeOK
  /\ sends \in 0 .. MaxSend /\ owed \in 0 .. MaxSend
  /\ tasks \in Seq(Task) /\ batch \in Seq(Task)
  /\ wakeup \in BOOLEAN /\ armed \in BOOLEAN /\ edge \in BOOLEAN
  /\ pc \in {"poll", "swap", "batch", "events", "flush", "send", "abort"}
  /\ got \in {"none", "out", "err"}
  /\ flush \in [at : 0 .. Size - 1, len : Int, done : Nat]
  /\ free \in 0 .. KernelSpace
  /\ sent \in Seq(Byte) /\ partial \in BOOLEAN
  /\ conn \in {"open", "reset", "closed"}
  /\ waiting \in BOOLEAN /\ destroying \in BOOLEAN

Follows(a, b) == \/ b[1] = a[1] /\ b[2] = a[2] + 1 /\ b[3] = a[3]
                 \/ b[1] > a[1] /\ a[2] = a[3] /\ b[2] = 1

\* What has been sent and what waits behind it.
Stream == sent \o WriteBuffer!Contents

\* The stream is a sequence of whole packets, in the order sendData accepted
\* them: none is torn, repeated or overtaken (the comment on sendData at
\* SlaveReactor.h:61: so that packets do not get mixed up).
StreamIsWholePackets ==
  pc # "abort" /\ Stream # << >> =>
    /\ Stream[1][2] = 1
    /\ \A i \in 1 .. Len(Stream) - 1 : Follows(Stream[i], Stream[i + 1])
    /\ LET last == Stream[Len(Stream)] IN last[2] = last[3]

\* That holds of everything handleSend does, however the kernel splits a
\* packet and whatever waits, as long as each flush is taken in one go
\* (SlaveReactor.cpp:374-449).
WholeUntilPartialFlush == ~partial => StreamIsWholePackets

\* The stream is exactly that: the bytes of the packets sendData accepted, in
\* that order, less some whole packets; until a flush is taken in part or the
\* process has ended (SlaveReactor.cpp:58-62, 327-449).
Broken == partial \/ pc = "abort"
Channel == INSTANCE PacketChannel
  WITH Packets  <- [k \in 1 .. MaxSend |-> {Data(k, n) : n \in Lens}],
       accepted <- IF Broken THEN 0 ELSE sends,
       queue    <- IF Broken THEN << >> ELSE batch \o tasks,
       stream   <- IF Broken THEN << >> ELSE Stream,
       broken   <- Broken
ChannelSpec == Channel!Spec

\* Bytes that wait in the write buffer of a working connection are watched
\* for: EPOLLOUT is armed or being handled (SlaveReactor.cpp:139-191, 420-424:
\* without it they would stay for ever).
ArmedWhilePending ==
  WriteBuffer!DataLength > 0 /\ conn = "open" /\ ~waiting =>
    armed \/ pc \in {"flush", "send", "abort"}

\* The assertion at SlaveReactor.cpp:137: EPOLLOUT is handled only while
\* there is something to send.
EventHasData ==
  pc = "events" /\ got = "out" /\ ~waiting => WriteBuffer!DataLength > 0

\* Bytes in the write buffer are sent in the end, unless the connection
\* breaks or a flush is taken in part.
PendingIsSent ==
  WriteBuffer!DataLength > 0 ~> (WriteBuffer!DataLength = 0 \/ conn # "open" \/ partial)
=============================================================================
