------------------------------ MODULE Receive ------------------------------
(***************************************************************************)
(* The way into a node: the bytes of one session arrive in the kernel, the  *)
(* reactor thread receives them on an edge-triggered EPOLLIN                *)
(* (SlaveReactor.cpp), and the decoder's pool of threads appends them to    *)
(* the session's read buffer (a RingBuffer) and takes whole packets off it  *)
(* (SessionDataDecoder.cpp).                                                *)
(*                                                                          *)
(* The peer sends the packets of "plan"; a byte is its place in that stream. *)
(***************************************************************************)
EXTENDS Integers, Sequences

CONSTANTS
  Size,        \* c_p2pSessionReadBufferSize
  RecvSize,    \* the size of m_recvBuffer
  Header,      \* PacketHeader::headerLength()
  Plans,       \* what a peer may send: sequences of packets
  Worker       \* the decoder's threads

\* A packet has a payload length and a type PayloadFactory knows, or not.
PlannedPacket == [len : Nat, known : BOOLEAN]

ASSUME ReceiveAssumption ==
  /\ Size \in Nat /\ Size > 2
  /\ RecvSize \in Nat \ {0} /\ Header \in Nat \ {0}
  /\ \A plan \in Plans : plan \in Seq(PlannedPacket)

VARIABLES
  start, end, buffer,   \* the session's read buffer
  plan,         \* the packets this peer sends
  registered,   \* how far SlaveReactor::addSession is: "no", "epoll", "map"
  arrived,      \* bytes that have reached the kernel
  received,     \* bytes recv has returned
  edge,         \* epoll has an EPOLLIN of the session to report
  chunks,       \* tasks of the thread pool: intervals of the stream
  holding,      \* the chunk each thread works on
  lock,         \* the thread that holds readBufferMutex
  delivered,    \* packets handed to the packet handler, as it sees them
  waiting,      \* P2PSession::m_isWaitingDisconnect
  aborted,      \* an assertion has ended the process
  upTo,         \* the last byte appended to the read buffer
  intact        \* whether every byte up to it has been, in order

bufferVars  == <<start, end, buffer>>
reactorVars == <<plan, registered, arrived, received, edge>>
vars == <<bufferVars, reactorVars, chunks, holding, lock, delivered, waiting,
          aborted, upTo, intact>>

NoWorker == 0
ASSUME WorkerAssumption == Worker \subseteq Nat \ {NoWorker}

NoChunk == [first |-> 1, last |-> 0]
Length(chunk) == chunk.last - chunk.first + 1
BytesOf(chunk) == [i \in 1 .. Length(chunk) |-> chunk.first + i - 1]

\* Byte number of the end of packet k of the plan.
EndOf[k \in Nat] == IF k = 0 THEN 0 ELSE EndOf[k - 1] + Header + plan[k].len
Total == EndOf[Len(plan)]
HeaderOf(k)  == [i \in 1 .. Header |-> EndOf[k - 1] + i]
PayloadOf(k) == [i \in 1 .. plan[k].len |-> EndOf[k - 1] + Header + i]

ReadBuffer == INSTANCE RingBuffer WITH Byte <- Nat, Zero <- 0

Init ==
  /\ ReadBuffer!Init
  /\ plan \in Plans
  /\ registered = "no" /\ arrived = 0 /\ received = 0 /\ edge = FALSE
  /\ chunks = << >> /\ holding = [w \in Worker |-> NoChunk] /\ lock = NoWorker
  /\ delivered = << >>
  /\ waiting = FALSE /\ aborted = FALSE
  /\ upTo = 0 /\ intact = TRUE

-----------------------------------------------------------------------------
(* The kernel, the registration of the session and the reactor thread.     *)

Arrive ==
  /\ ~aborted
  /\ \E n \in 1 .. Total - arrived : arrived' = arrived + n
  /\ edge' = (registered # "no")
  /\ UNCHANGED <<bufferVars, plan, registered, received, chunks, holding, lock,
                 delivered, waiting, aborted, upTo, intact>>

\* addSession: the socket is added to epoll, which reports what is there,
AddToEpoll ==
  /\ registered = "no" /\ ~aborted
  /\ registered' = "epoll"
  /\ edge' = (arrived > received)
  /\ UNCHANGED <<bufferVars, plan, arrived, received, chunks, holding, lock,
                 delivered, waiting, aborted, upTo, intact>>

\* and only then the session to the map of sessions.
AddToMap ==
  /\ registered = "epoll" /\ ~aborted
  /\ registered' = "map"
  /\ UNCHANGED <<bufferVars, plan, arrived, received, edge, chunks, holding, lock,
                 delivered, waiting, aborted, upTo, intact>>

FullRecv   == RecvSize                                        \* mutant
RecvLength == IF arrived - received > RecvSize THEN RecvSize ELSE arrived - received

\* An EPOLLIN: one recv, whose bytes become a task of the decoder.  The event
\* of a session that is not in the map yet is dropped.
HandleEpollIn ==
  /\ edge /\ ~aborted
  /\ edge' = FALSE
  /\ IF registered = "map" /\ arrived > received
       THEN LET last == received + RecvLength
            IN  /\ received' = last
                /\ chunks' = Append(chunks, [first |-> received + 1, last |-> last])
       ELSE UNCHANGED <<received, chunks>>
  /\ UNCHANGED <<bufferVars, plan, registered, arrived, holding, lock, delivered,
                 waiting, aborted, upTo, intact>>

\* The session is being torn down.
Disconnect ==
  /\ ~waiting /\ ~aborted
  /\ waiting' = TRUE
  /\ UNCHANGED <<bufferVars, reactorVars, chunks, holding, lock, delivered,
                 aborted, upTo, intact>>

-----------------------------------------------------------------------------
(* The decoder's threads.                                                  *)

\* A task whose session is being torn down, or destroyed, does nothing.
TakeTask(w) ==
  /\ ~aborted
  /\ holding[w] = NoChunk /\ chunks # << >>
  /\ holding' = [holding EXCEPT ![w] = IF waiting THEN NoChunk ELSE Head(chunks)]
  /\ chunks' = Tail(chunks)
  /\ UNCHANGED <<bufferVars, reactorVars, lock, delivered, waiting, aborted,
                 upTo, intact>>

Release(w) ==
  /\ lock' = NoWorker
  /\ holding' = [holding EXCEPT ![w] = NoChunk]

\* Take the mutex and append the chunk, which is dropped when it does not fit.
AppendChunk(w) ==
  LET chunk == holding[w]
  IN  /\ ~aborted /\ lock = NoWorker /\ chunk # NoChunk
      /\ IF Length(chunk) > ReadBuffer!Space
           THEN Release(w) /\ UNCHANGED <<bufferVars, upTo, intact>>
           ELSE /\ ReadBuffer!Write(BytesOf(chunk))
                /\ lock' = w
                /\ upTo' = chunk.last
                /\ intact' = (intact /\ chunk.first = upTo + 1)
                /\ UNCHANGED holding
      /\ UNCHANGED <<reactorVars, chunks, delivered, waiting, aborted>>

\* The bytes decodePacketHeader looks at; the first of them is the magic number.
HeaderBytes  == ReadBuffer!ReadData(Header, 0)
IsMagicMatch == \E k \in 1 .. Len(plan) : HeaderBytes[1] = HeaderOf(k)[1]

\* The length and type that follow it: a packet's, or what happens to be there
\* when the bytes are not in order.
Fields ==
  LET own == {k \in 1 .. Len(plan) : HeaderBytes = HeaderOf(k)}
  IN  IF own # {} THEN {plan[k] : k \in own}
                  ELSE [len : 0 .. Size, known : BOOLEAN]

PayloadAtStart(n) == ReadBuffer!ReadData(n, 0)               \* mutant

\* decodePacketPayload: in place when getContinuousData says so.
PayloadBytes(n) ==
  IF ReadBuffer!ContinuousSize < Header + n
    THEN ReadBuffer!ReadData(n, Header)
    ELSE ReadBuffer!CopyFrom(start + Header, n)

PayloadOnly(n) == n                                          \* mutant
Consumed(n) == Header + n

Stop(w) ==
  /\ ReadBuffer!DataLength < Header
  /\ Release(w)
  /\ UNCHANGED <<bufferVars, delivered, aborted>>

\* The assertion on the magic number fails: other bytes are there, or the
\* header wraps around the end of the buffer and is decoded from a copy that
\* has been freed (and may or may not be intact).
Garbage ==
  /\ ReadBuffer!DataLength >= Header
  /\ ~IsMagicMatch \/ ~ReadBuffer!ReadInPlaceOk(Header)
  /\ aborted' = TRUE
  /\ UNCHANGED <<bufferVars, holding, lock, delivered>>

\* The payload is not complete, or its type is one the factory does not know.
Incomplete(w) ==
  /\ ReadBuffer!DataLength >= Header /\ IsMagicMatch
  /\ \E f \in Fields : /\ f.len # 0
                       /\ ReadBuffer!DataLength - Header < f.len \/ ~f.known
  /\ Release(w)
  /\ UNCHANGED <<bufferVars, delivered, aborted>>

TakePacket ==
  /\ ReadBuffer!DataLength >= Header /\ IsMagicMatch
  /\ \E f \in Fields :
       /\ f.len = 0 \/ (f.known /\ ReadBuffer!DataLength - Header >= f.len)
       /\ ReadBuffer!DecreaseUsedSpace(Consumed(f.len))
       /\ delivered' = Append(delivered,
                              [header |-> HeaderBytes, payload |-> PayloadBytes(f.len)])
  /\ UNCHANGED aborted

DeliverOne(w) == TakePacket /\ Release(w)                    \* mutant
Deliver(w)    == TakePacket /\ UNCHANGED <<holding, lock>>

\* One turn of the decoder's loop.
DecodeNext(w) ==
  /\ lock = w /\ ~aborted
  /\ Stop(w) \/ Garbage \/ Incomplete(w) \/ Deliver(w)
  /\ UNCHANGED <<reactorVars, chunks, waiting, upTo, intact>>

-----------------------------------------------------------------------------
Next ==
  \/ Arrive \/ AddToEpoll \/ AddToMap \/ HandleEpollIn \/ Disconnect
  \/ \E w \in Worker : TakeTask(w) \/ AppendChunk(w) \/ DecodeNext(w)

Spec == Init /\ [][Next]_vars

-----------------------------------------------------------------------------
(* Properties.                                                             *)

\* Where everything is; recv never returns what has not arrived.
TypeOK ==
  /\ ReadBuffer!TypeOK
  /\ plan \in Plans /\ registered \in {"no", "epoll", "map"}
  /\ arrived \in 0 .. Total /\ received \in 0 .. arrived /\ upTo \in 0 .. received
  /\ edge \in BOOLEAN /\ waiting \in BOOLEAN
  /\ aborted \in BOOLEAN /\ intact \in BOOLEAN
  /\ chunks \in Seq([first : 1 .. Total, last : 1 .. Total])
  /\ holding \in [Worker -> [first : 1 .. Total, last : 1 .. Total] \cup {NoChunk}]
  /\ lock \in Worker \cup {NoWorker}
  /\ \A i \in 1 .. Len(delivered) : /\ delivered[i].header \in Seq(0 .. Total)
                                   /\ delivered[i].payload \in Seq(0 .. Total)

\* As long as every chunk has been appended, in order, the packets delivered
\* are the peer's, each once, in order and with its payload, wherever the
\* chunks begin and end and however often the buffer wraps around
\* (SessionDataDecoder.cpp:74-100).
DeliveredInOrder ==
  intact => /\ Len(delivered) <= Len(plan)
            /\ \A i \in 1 .. Len(delivered) :
                 delivered[i] = [header |-> HeaderOf(i), payload |-> PayloadOf(i)]

\* And the read buffer holds what follows the last one, up to the last byte
\* appended: no byte is lost between two packets or read twice.
BufferFollowsDelivered ==
  intact => ReadBuffer!Contents =
              [i \in 1 .. upTo - EndOf[Len(delivered)] |-> EndOf[Len(delivered)] + i]

\* When no thread is at work on the buffer, no packet waits in it in full:
\* only more bytes could complete one (SessionDataDecoder.cpp:74), unless the
\* packet at its head has a type the factory does not know.
NothingStranded ==
  LET next == Len(delivered) + 1
  IN  intact /\ lock = NoWorker /\ ~aborted /\ next <= Len(plan)
        => \/ upTo < EndOf[next]
           \/ plan[next].len # 0 /\ ~plan[next].known

\* The assertion at SessionDataDecoder.cpp:157, that a header begins with the
\* magic number: on a stream appended in order it can fail only for a header
\* that wraps around the end of the buffer, which is decoded from freed memory.
MagicFailsOnlyWrapped ==
  intact /\ aborted => ~ReadBuffer!ReadInPlaceOk(Header)
=============================================================================
