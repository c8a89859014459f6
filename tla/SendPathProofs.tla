--------------------------- MODULE SendPathProofs ---------------------------
(***************************************************************************)
(* Bytes that wait in a session's write buffer are watched for, for every  *)
(* size of the write buffer and of the kernel's, every set of packets, and *)
(* whatever the callers, the peer and the destroyer do meanwhile.  What    *)
(* leaves is whole packets in order; last, the way out is shown to be the  *)
(* PacketChannel.  What the write buffer does is taken from the theorems   *)
(* about the ring buffer.                                                  *)
(***************************************************************************)
EXTENDS SendPath, SequenceTheorems, TLAPS

Buffer == INSTANCE RingBufferProofs

Pending == WriteBuffer!DataLength

\* Where everything is.  A caller owes the eventfd nothing but what it sent.
Types ==
  /\ TypeOK
  /\ Pending <= Size - 2
  /\ owed <= sends

\* EPOLLOUT is armed only while bytes wait, unless the flush is lost in a run
\* of negative length.
ArmedHasData == armed => Pending > 0 \/ (pc = "send" /\ flush.len < 0)

\* What epoll_wait reported is still so when the event is handled.
GotHasData == got = "out" /\ pc \in {"swap", "batch", "events"} => Pending > 0

\* What the flush has not sent of its run is still in the write buffer.
FlushHasData == pc = "send" /\ flush.len >= 0 => Pending >= flush.len - flush.done

IInv == Types /\ ArmedHasData /\ GotHasData /\ FlushHasData /\ ArmedWhilePending

-----------------------------------------------------------------------------
(* The write buffer.                                                       *)

\* The ring buffer's assumptions hold of the write buffer.
LEMMA BufferAssumptions == Buffer!SizeAssumption /\ Buffer!ByteAssumption
  BY SendAssumption DEF Buffer!SizeAssumption, Buffer!ByteAssumption, Buffer!Reserved, Byte

\* The types of the constants.
LEMMA Constants ==
  /\ Size \in Nat /\ Size > 2
  /\ \A n \in Lens : n \in 1 .. Size
  /\ MaxSend \in Nat /\ KernelSpace \in Nat /\ KernelSpace > 0
  BY SendAssumption

\* The ring buffer's own invariant.
BufferOK == WriteBuffer!TypeOK /\ Pending <= Size - 2

\* BufferOK is the invariant of the theorems about the ring buffer.
LEMMA BufferInvariant == BufferOK <=> Buffer!IInv
  BY DEF BufferOK, Pending, WriteBuffer!TypeOK, WriteBuffer!DataLength, WriteBuffer!Slot,
         Buffer!IInv, Buffer!TypeOK, Buffer!DataLength, Buffer!Slot, Buffer!Reserved

\* How much waits, and how much more there is room for.
LEMMA Room ==
  ASSUME BufferOK
  PROVE  Pending \in 0 .. Size - 2 /\ WriteBuffer!Space = Size - 2 - Pending
<1>1. Buffer!CapacityKept
  BY BufferAssumptions, BufferInvariant, Buffer!CapacityFromIInv
<1> QED
  BY <1>1 DEF Buffer!CapacityKept, Buffer!DataLength, Buffer!Space, Buffer!Reserved,
              Pending, WriteBuffer!DataLength, WriteBuffer!Space, WriteBuffer!Reserved

\* A write adds its bytes to those that wait.
LEMMA WriteAdds ==
  ASSUME BufferOK, NEW bytes \in Seq(Byte), bytes # << >>, WriteBuffer!Write(bytes)
  PROVE  BufferOK' /\ Pending' = Pending + Len(bytes)
<1>1. Pending \in 0 .. Size - 2 /\ Len(bytes) <= Size - 2 - Pending
  BY Room DEF WriteBuffer!Write
<1>2. Len(bytes) \in 1 .. Size /\ Len(bytes) \in Nat
  BY <1>1, Constants
<1>3. bytes \in Buffer!Bytes
  <2>1. bytes \in [1 .. Len(bytes) -> Byte]
    OBVIOUS
  <2> QED
    BY <1>2, <2>1 DEF Buffer!Bytes
<1>4. Buffer!Write(bytes)
  BY DEF WriteBuffer!Write, WriteBuffer!CopyTo, WriteBuffer!Space, WriteBuffer!Slot,
         WriteBuffer!Reserved, WriteBuffer!IncreaseUsedSpace,
         Buffer!Write, Buffer!CopyTo, Buffer!Space, Buffer!Slot, Buffer!Reserved,
         Buffer!IncreaseUsedSpace
<1>5. Buffer!IInv
  BY BufferInvariant
<1>6. Buffer!IInv'
  <2>1. Buffer!Next
    BY <1>3, <1>4 DEF Buffer!Next
  <2> QED
    BY <1>5, <2>1, BufferAssumptions, Buffer!NextIInv
<1>7. BufferOK'
  BY <1>6 DEF BufferOK, Pending, WriteBuffer!TypeOK, WriteBuffer!DataLength, WriteBuffer!Slot,
         Buffer!IInv, Buffer!TypeOK, Buffer!DataLength, Buffer!Slot, Buffer!Reserved
<1>8. Pending' = Pending + Len(bytes)
  <2>1. Buffer!DataLength = Pending /\ Buffer!DataLength' = Pending'
    BY DEF Buffer!DataLength, Pending, WriteBuffer!DataLength
  <2>2. start' = start /\ end' = (end + Len(bytes)) % Size
    BY DEF WriteBuffer!Write, WriteBuffer!IncreaseUsedSpace
  <2>3. Buffer!DataLength + Len(bytes) <= Size - 2
    BY <1>1, <1>2, <2>1, Constants
  <2>4. Buffer!DataLength' = Buffer!DataLength + Len(bytes)
    BY <1>2, <1>5, <2>2, <2>3, BufferAssumptions, Buffer!LengthAfter
  <2> QED
    BY <2>1, <2>4
<1> QED
  BY <1>7, <1>8

\* decreaseUsedSpace takes its bytes away from them.
LEMMA DecreaseTakes ==
  ASSUME BufferOK, NEW n \in Nat, n > 0, WriteBuffer!DecreaseUsedSpace(n)
  PROVE  BufferOK' /\ Pending' = Pending - n
<1>1. n \in 1 .. Size
  BY Room, Constants DEF WriteBuffer!DecreaseUsedSpace, Pending
<1>2. Buffer!DecreaseUsedSpace(n)
  BY DEF WriteBuffer!DecreaseUsedSpace, WriteBuffer!DataLength,
         Buffer!DecreaseUsedSpace, Buffer!DataLength
<1>3. Buffer!IInv
  BY BufferInvariant
<1>4. Buffer!IInv'
  <2>1. Buffer!Next
    BY <1>1, <1>2 DEF Buffer!Next
  <2> QED
    BY <1>3, <2>1, BufferAssumptions, Buffer!NextIInv
<1>5. BufferOK'
  BY <1>4 DEF BufferOK, Pending, WriteBuffer!TypeOK, WriteBuffer!DataLength, WriteBuffer!Slot,
         Buffer!IInv, Buffer!TypeOK, Buffer!DataLength, Buffer!Slot, Buffer!Reserved
<1>6. Buffer!DataLength' = Buffer!DataLength - n
  BY <1>1, <1>2, <1>3, BufferAssumptions, Buffer!LengthAfterDecrease
<1>7. Buffer!DataLength = Pending /\ Buffer!DataLength' = Pending'
  BY DEF Buffer!DataLength, Pending, WriteBuffer!DataLength
<1> QED
  BY <1>5, <1>6, <1>7

\* A run that is handed to the kernel is not longer than what waits.
LEMMA RunIsPending ==
  ASSUME BufferOK, Pending # 0
  PROVE  WriteBuffer!ContinuousSize \in Int /\ WriteBuffer!ContinuousSize <= Pending
  BY Constants DEF BufferOK, Pending, WriteBuffer!TypeOK, WriteBuffer!Slot,
     WriteBuffer!DataLength, WriteBuffer!ContinuousSize, WriteBuffer!Reserved

-----------------------------------------------------------------------------
(* Packets and the bytes in them.                                          *)

\* The bytes of a packet, whole or in part.
LEMMA PacketBytes ==
  ASSUME NEW bytes \in Task
  PROVE  bytes \in Seq(Byte) /\ Len(bytes) \in 1 .. Size
<1>1. PICK k \in 1 .. MaxSend, n \in Lens : bytes = Data(k, n)
  BY DEF Task
<1>2. n \in 1 .. Size
  BY Constants
<1>3. Data(k, n) \in [1 .. n -> Byte]
  <2>1. ASSUME NEW i \in 1 .. n PROVE <<k, i, n>> \in Byte
    <3>1. i \in 1 .. Size
      BY <1>2, Constants
    <3> QED
      BY <3>1 DEF Byte, PacketByte
  <2> QED
    BY <2>1 DEF Data
<1> HIDE DEF Byte
<1> QED
  BY <1>1, <1>2, <1>3, Constants

\* What is left of a sequence after its first m elements.
LEMMA Split ==
  ASSUME NEW bytes \in Seq(Byte), NEW m \in 0 .. Len(bytes)
  PROVE  /\ SubSeq(bytes, 1, m) \in Seq(Byte)
         /\ SubSeq(bytes, m + 1, Len(bytes)) \in Seq(Byte)
         /\ Len(SubSeq(bytes, m + 1, Len(bytes))) = Len(bytes) - m
<1>1. \A i \in 1 .. m : bytes[i] \in Byte
  OBVIOUS
<1>2. SubSeq(bytes, 1, m) \in Seq(Byte)
  BY <1>1, SubSeqProperties
<1>3. \A i \in m + 1 .. Len(bytes) : bytes[i] \in Byte
  OBVIOUS
<1>4. /\ SubSeq(bytes, m + 1, Len(bytes)) \in Seq(Byte)
      /\ Len(SubSeq(bytes, m + 1, Len(bytes))) =
           IF m + 1 <= Len(bytes) THEN Len(bytes) - (m + 1) + 1 ELSE 0
  BY <1>3, SubSeqProperties
<1> QED
  BY <1>2, <1>4

\* What the kernel takes in a flush, bytes past the vector included.
LEMMA FlushedBytes ==
  ASSUME TypeOK, NEW n \in Nat
  PROVE  Flushed(n) \in Seq(Byte)
<1>1. ASSUME NEW i \in 1 .. n, flush.at + i - 1 < Size
      PROVE  buffer[flush.at + i - 1] \in Byte
  <2>1. flush.at + i - 1 \in 0 .. Size - 1
    BY <1>1, Constants DEF TypeOK
  <2> QED
    BY <2>1 DEF TypeOK, WriteBuffer!TypeOK, WriteBuffer!Slot
<1>2. Zero \in Byte
  BY DEF Byte
<1>3. Flushed(n) \in [1 .. n -> Byte]
  BY <1>1, <1>2 DEF Flushed
<1> QED
  BY <1>3

-----------------------------------------------------------------------------
(* One lemma per action.                                                   *)

\* What waits is not negative.
LEMMA PendingIsNat == IInv => BufferOK /\ Pending \in 0 .. Size - 2
<1>1. IInv => BufferOK
  BY DEF IInv, Types, TypeOK, BufferOK
<1> QED
  BY <1>1, Room

\* A step that leaves the write buffer, the reactor thread and the mask alone,
\* and neither opens the connection nor takes back the mark.
LEMMA Frame ==
  ASSUME IInv, TypeOK', owed' <= sends',
         UNCHANGED <<bufferVars, pc, got, flush, armed>>,
         conn' = "open" => conn = "open",
         waiting => waiting'
  PROVE  IInv'
  BY DEF IInv, Types, bufferVars, Pending, WriteBuffer!DataLength, ArmedHasData, GotHasData,
         FlushHasData, ArmedWhilePending

\* The invariant at the start, and kept by each action.
LEMMA InitIInv == Init => IInv
<1> SUFFICES ASSUME Init PROVE IInv
  OBVIOUS
<1>1. WriteBuffer!TypeOK /\ Pending = 0
  BY Constants DEF Init, WriteBuffer!Init, WriteBuffer!TypeOK, WriteBuffer!Slot, Pending,
     WriteBuffer!DataLength, Byte
<1>2. TypeOK
  <2>1. tasks \in Seq(Task) /\ batch \in Seq(Task) /\ sent \in Seq(Byte)
    BY DEF Init
  <2>2. flush \in [at : 0 .. Size - 1, len : Int, done : Nat]
    BY Constants DEF Init, NoFlush
  <2>3. sends \in 0 .. MaxSend /\ owed \in 0 .. MaxSend /\ free \in 0 .. KernelSpace
    BY Constants DEF Init
  <2>4. /\ wakeup \in BOOLEAN /\ armed \in BOOLEAN /\ edge \in BOOLEAN /\ partial \in BOOLEAN
        /\ waiting \in BOOLEAN /\ destroying \in BOOLEAN
    BY Zenon DEF Init
  <2>5. /\ pc \in {"poll", "swap", "batch", "events", "flush", "send", "abort"}
        /\ got \in {"none", "out", "err"} /\ conn \in {"open", "reset", "closed"}
    BY DEF Init
  <2> QED
    BY <1>1, <2>1, <2>2, <2>3, <2>4, <2>5, Zenon DEF TypeOK
<1> QED
  BY <1>1, <1>2, Constants DEF Init, IInv, Types, ArmedHasData, GotHasData, FlushHasData,
     ArmedWhilePending, Pending

LEMMA SendDataIInv == ASSUME IInv, NEW n \in Lens, SendData(n) PROVE IInv'
<1>1. sends + 1 \in 1 .. MaxSend /\ owed + 1 \in 0 .. MaxSend /\ owed + 1 <= sends + 1
  BY Constants DEF IInv, Types, TypeOK, SendData
<1>2. Data(sends + 1, n) \in Task
  BY <1>1 DEF Task
<1>3. Append(tasks, Data(sends + 1, n)) \in Seq(Task)
  BY <1>2 DEF IInv, Types, TypeOK
<1>4. TypeOK'
  BY <1>1, <1>3 DEF IInv, Types, TypeOK, SendData, kernelVars, connVars, bufferVars,
     WriteBuffer!TypeOK
<1> QED
  BY <1>1, <1>4, Frame DEF SendData, kernelVars, connVars

LEMMA WriteEventfdIInv == ASSUME IInv, WriteEventfd PROVE IInv'
<1>1. owed - 1 \in 0 .. MaxSend /\ owed - 1 <= sends
  BY Constants DEF IInv, Types, TypeOK, WriteEventfd
<1>2. TypeOK'
  BY <1>1 DEF IInv, Types, TypeOK, WriteEventfd, kernelVars, connVars, bufferVars,
     WriteBuffer!TypeOK
<1> QED
  BY <1>1, <1>2, Frame DEF WriteEventfd, kernelVars, connVars

LEMMA AcknowledgeIInv == ASSUME IInv, Acknowledge PROVE IInv'
<1>1. PICK space \in free + 1 .. KernelSpace :
        free' = space /\ edge' = (edge \/ (armed /\ Writable(space)))
  BY DEF Acknowledge
<1>2. free' \in 0 .. KernelSpace /\ edge' \in BOOLEAN
  BY <1>1, Constants DEF IInv, Types, TypeOK
<1>3. TypeOK'
  BY <1>2 DEF IInv, Types, TypeOK, Acknowledge, callVars, connVars, bufferVars,
     WriteBuffer!TypeOK
<1>4. owed' <= sends'
  BY DEF IInv, Types, Acknowledge, callVars
<1> QED
  BY <1>3, <1>4, Frame DEF Acknowledge, callVars, connVars

LEMMA ResetIInv == ASSUME IInv, Reset PROVE IInv'
<1>1. TypeOK'
  BY DEF IInv, Types, TypeOK, Reset, callVars, bufferVars, WriteBuffer!TypeOK
<1>2. owed' <= sends'
  BY DEF IInv, Types, Reset, callVars
<1> QED
  BY <1>1, <1>2, Frame DEF Reset, callVars

LEMMA CloseSessionIInv == ASSUME IInv, CloseSession PROVE IInv'
<1>1. TypeOK'
  BY DEF IInv, Types, TypeOK, CloseSession, callVars, bufferVars, WriteBuffer!TypeOK
<1>2. owed' <= sends'
  BY DEF IInv, Types, CloseSession, callVars
<1>3. Pending' = Pending
  BY DEF CloseSession, bufferVars, Pending, WriteBuffer!DataLength
<1> QED
  BY <1>1, <1>2, <1>3 DEF IInv, Types, CloseSession, ArmedHasData, GotHasData, FlushHasData,
     ArmedWhilePending

LEMMA PollIInv == ASSUME IInv, NEW input \in BOOLEAN, Poll(input) PROVE IInv'
<1>1. got' \in {"none", "out", "err"} /\ (got' = "out" => armed)
  BY DEF Poll, Reported
<1>2. TypeOK'
  BY <1>1 DEF IInv, Types, TypeOK, Poll, callVars, connVars, bufferVars, WriteBuffer!TypeOK
<1>3. Pending' = Pending
  BY DEF Poll, bufferVars, Pending, WriteBuffer!DataLength
<1> QED
  BY <1>1, <1>2, <1>3 DEF IInv, Types, Poll, callVars, connVars, Pending, ArmedHasData,
     GotHasData, FlushHasData, ArmedWhilePending

LEMMA SwapTasksIInv == ASSUME IInv, SwapTasks PROVE IInv'
<1>1. TypeOK'
  BY DEF IInv, Types, TypeOK, SwapTasks, kernelVars, connVars, bufferVars, WriteBuffer!TypeOK
<1>2. Pending' = Pending
  BY DEF SwapTasks, bufferVars, Pending, WriteBuffer!DataLength
<1> QED
  BY <1>1, <1>2 DEF IInv, Types, SwapTasks, kernelVars, connVars, Pending, ArmedHasData,
     GotHasData, FlushHasData, ArmedWhilePending

LEMMA ReadEventfdIInv == ASSUME IInv, ReadEventfd PROVE IInv'
<1>1. TypeOK'
  BY DEF IInv, Types, TypeOK, ReadEventfd, kernelVars, connVars, bufferVars, WriteBuffer!TypeOK
<1>2. Pending' = Pending
  BY DEF ReadEventfd, bufferVars, Pending, WriteBuffer!DataLength
<1> QED
  BY <1>1, <1>2 DEF IInv, Types, ReadEventfd, kernelVars, connVars, Pending, ArmedHasData,
     GotHasData, FlushHasData, ArmedWhilePending

LEMMA HandleEventIInv == ASSUME IInv, HandleEvent PROVE IInv'
<1>1. TypeOK'
  BY DEF IInv, Types, TypeOK, HandleEvent, callVars, kernelVars, bufferVars, WriteBuffer!TypeOK
<1>2. Pending' = Pending
  BY DEF HandleEvent, bufferVars, Pending, WriteBuffer!DataLength
<1>3. waiting => waiting'
  BY DEF HandleEvent
<1> QED
  BY <1>1, <1>2, <1>3 DEF IInv, Types, HandleEvent, callVars, kernelVars, Pending, ArmedHasData,
     GotHasData, FlushHasData, ArmedWhilePending

\* A packet sent with nothing before it: what the kernel does not take is
\* written, and then EPOLLOUT is armed.
LEMMA SendNowIInv ==
  ASSUME IInv, NEW bytes \in Task, SendNow(bytes), pc = "batch", Pending = 0
  PROVE  /\ BufferOK' /\ sent' \in Seq(Byte) /\ free' \in 0 .. KernelSpace
         /\ partial' = partial /\ pc' \in {"batch", "abort"}
         /\ \/ armed' = armed /\ edge' = edge /\ Pending' = Pending
            \/ armed' = TRUE /\ edge' \in BOOLEAN /\ Pending' > 0
<1> DEFINE n == Least(Len(bytes), free)
           rest == SubSeq(bytes, n + 1, Len(bytes))
<1>1. bytes \in Seq(Byte) /\ Len(bytes) \in 1 .. Size
  BY PacketBytes
<1>2. free \in 0 .. KernelSpace /\ sent \in Seq(Byte)
  BY DEF IInv, Types, TypeOK
<1>3. n \in 0 .. Len(bytes) /\ n <= free
  BY <1>1, <1>2, Constants DEF Least
<1>4. free' \in 0 .. KernelSpace
  <2>1. free' = free - n
    BY DEF SendNow
  <2> HIDE DEF n
  <2> QED
    BY <1>1, <1>2, <1>3, <2>1, Constants
<1> HIDE DEF n
<1>5. /\ SubSeq(bytes, 1, n) \in Seq(Byte) /\ rest \in Seq(Byte)
  BY <1>1, <1>3, Split
<1>6. sent' \in Seq(Byte)
  BY <1>2, <1>5, ConcatProperties DEF SendNow, n
<1>7. CASE rest = << >>
  <2>1. ~(Len(rest) > WriteBuffer!Space)
    <3> HIDE DEF rest
    <3>1. Len(rest) = 0
      BY <1>7
    <3>2. WriteBuffer!Space \in Nat
      BY PendingIsNat, Room, Constants
    <3> QED
      BY <3>1, <3>2
  <2>2. UNCHANGED <<bufferVars, armed, edge, pc, partial>>
    BY <1>7, <2>1 DEF SendNow, n
  <2> QED
    BY <1>4, <1>6, <2>2, PendingIsNat
    DEF bufferVars, BufferOK, Pending, WriteBuffer!DataLength, WriteBuffer!TypeOK
<1>8. CASE rest # << >> /\ Len(rest) > WriteBuffer!Space
  <2>1. UNCHANGED <<bufferVars, armed, edge, partial>> /\ pc' = "abort"
    BY <1>8 DEF SendNow, n
  <2> QED
    BY <1>4, <1>6, <2>1, PendingIsNat
    DEF bufferVars, BufferOK, Pending, WriteBuffer!DataLength, WriteBuffer!TypeOK
<1>9. CASE rest # << >> /\ ~(Len(rest) > WriteBuffer!Space)
  <2>1. WriteBuffer!Write(rest) /\ ArmOut /\ UNCHANGED <<pc, partial>>
    BY <1>9 DEF SendNow, n
  <2> HIDE DEF rest
  <2>2. BufferOK' /\ Pending' = Pending + Len(rest)
    BY <1>5, <1>9, <2>1, PendingIsNat, WriteAdds
  <2>3. Len(rest) \in Nat /\ Len(rest) > 0
    BY <1>5, <1>9
  <2>4. armed' = TRUE /\ edge' \in BOOLEAN
    BY <2>1 DEF ArmOut, Writable
  <2>5. Pending' > 0
    BY <2>2, <2>3
  <2>6. partial' = partial /\ pc' = "batch"
    BY <2>1
  <2> QED
    BY <1>4, <1>6, <2>2, <2>4, <2>5, <2>6, Zenon
<1> QED
  BY <1>7, <1>8, <1>9

\* A packet put behind others.
LEMMA SendLaterIInv ==
  ASSUME IInv, NEW bytes \in Task, SendLater(bytes)
  PROVE  BufferOK' /\ Pending' >= Pending /\ Pending' \in Nat /\ UNCHANGED <<kernelVars, pc>>
<1>1. bytes \in Seq(Byte) /\ Len(bytes) \in 1 .. Size
  BY PacketBytes
<1>2. BufferOK /\ Pending \in Nat
  BY PendingIsNat, Constants
<1>3. CASE UNCHANGED bufferVars
  BY <1>2, <1>3 DEF SendLater, bufferVars, BufferOK, Pending, WriteBuffer!DataLength,
     WriteBuffer!TypeOK
<1>4. CASE WriteBuffer!Write(bytes)
  <2>1. bytes # << >>
    BY <1>1
  <2>2. BufferOK' /\ Pending' = Pending + Len(bytes)
    BY <1>1, <1>2, <1>4, <2>1, WriteAdds
  <2> QED
    BY <1>1, <1>2, <2>2, Constants DEF SendLater
<1> QED
  BY <1>3, <1>4 DEF SendLater

LEMMA HandleSendIInv == ASSUME IInv, HandleSend PROVE IInv'
<1>1. /\ pc = "batch" /\ batch # << >> /\ batch' = Tail(batch)
      /\ UNCHANGED <<callVars, got, flush, conn, waiting>>
  BY DEF HandleSend
<1>2. Head(batch) \in Task /\ batch' \in Seq(Task)
  BY <1>1 DEF IInv, Types, TypeOK
<1>3. BufferOK /\ Pending \in Nat
  BY PendingIsNat, Constants
<1>4. destroying' \in BOOLEAN
  BY DEF HandleSend, IInv, Types, TypeOK
<1>5. ASSUME BufferOK', sent' \in Seq(Byte), free' \in 0 .. KernelSpace, partial' = partial,
             pc' \in {"batch", "abort"}, armed' \in BOOLEAN, edge' \in BOOLEAN
      PROVE  Types'
  BY <1>1, <1>2, <1>4, <1>5 DEF callVars, BufferOK, IInv, Types, TypeOK
<1>6. CASE UNCHANGED <<bufferVars, kernelVars, pc>>
  <2>1. Pending' = Pending /\ BufferOK'
    BY <1>3, <1>6 DEF bufferVars, BufferOK, Pending, WriteBuffer!DataLength, WriteBuffer!TypeOK
  <2>2. Types'
    BY <1>1, <1>5, <1>6, <2>1 DEF kernelVars, IInv, Types, TypeOK
  <2> QED
    BY <1>1, <1>6, <2>1, <2>2 DEF kernelVars, IInv, ArmedHasData, GotHasData, FlushHasData,
       ArmedWhilePending, Pending
<1>7. CASE Pending # 0 /\ SendLater(Head(batch))
  <2>1. BufferOK' /\ Pending' >= Pending /\ Pending' \in Nat /\ UNCHANGED <<kernelVars, pc>>
    BY <1>2, <1>7, SendLaterIInv
  <2>2. Pending > 0 /\ Pending' > 0
    BY <1>3, <1>7, <2>1
  <2>3. Types'
    BY <1>1, <1>5, <2>1 DEF kernelVars, IInv, Types, TypeOK
  <2> QED
    BY <1>1, <2>1, <2>2, <2>3 DEF kernelVars, IInv, ArmedHasData, GotHasData, FlushHasData,
       ArmedWhilePending, Pending
<1>8. CASE Pending = 0 /\ SendNow(Head(batch))
  <2>1. /\ BufferOK' /\ sent' \in Seq(Byte) /\ free' \in 0 .. KernelSpace
        /\ partial' = partial /\ pc' \in {"batch", "abort"}
        /\ \/ armed' = armed /\ edge' = edge /\ Pending' = Pending
           \/ armed' = TRUE /\ edge' \in BOOLEAN /\ Pending' > 0
    BY <1>1, <1>2, <1>8, SendNowIInv
  <2>2. Types'
    BY <1>5, <2>1 DEF IInv, Types, TypeOK
  <2> QED
    BY <1>1, <1>8, <2>1, <2>2 DEF IInv, ArmedHasData, GotHasData, FlushHasData,
       ArmedWhilePending, Pending
<1> QED
  BY <1>6, <1>7, <1>8 DEF HandleSend, Pending

LEMMA FlushNextIInv == ASSUME IInv, FlushNext PROVE IInv'
<1>1. BufferOK /\ Pending \in Nat
  BY PendingIsNat, Constants
<1>2. Pending' = Pending
  BY DEF FlushNext, bufferVars, Pending, WriteBuffer!DataLength
<1>3. CASE Pending = 0
  <2>1. pc' = "poll" /\ UNCHANGED flush
    BY <1>3 DEF FlushNext, Pending
  <2>2. TypeOK'
    BY <2>1 DEF IInv, Types, TypeOK, FlushNext, callVars, kernelVars, connVars, bufferVars,
       WriteBuffer!TypeOK
  <2> QED
    BY <1>2, <1>3, <2>1, <2>2 DEF IInv, Types, FlushNext, callVars, kernelVars, connVars,
       Pending, ArmedHasData, GotHasData, FlushHasData, ArmedWhilePending
<1>4. CASE Pending # 0
  <2>1. /\ flush' = [at |-> start, len |-> WriteBuffer!ContinuousSize, done |-> 0]
        /\ pc' = "send"
    BY <1>4 DEF FlushNext, Pending
  <2>2. WriteBuffer!ContinuousSize \in Int /\ WriteBuffer!ContinuousSize <= Pending
    BY <1>1, <1>4, RunIsPending
  <2>3. start \in 0 .. Size - 1
    BY <1>1 DEF BufferOK, WriteBuffer!TypeOK, WriteBuffer!Slot
  <2>4. flush' \in [at : 0 .. Size - 1, len : Int, done : Nat]
    BY <2>1, <2>2, <2>3
  <2>5. TypeOK'
    BY <2>1, <2>4 DEF IInv, Types, TypeOK, FlushNext, callVars, kernelVars, connVars,
       bufferVars, WriteBuffer!TypeOK
  <2>6. FlushHasData'
    BY <1>2, <2>1, <2>2 DEF FlushHasData
  <2>7. ArmedHasData'
    BY <1>1, <1>2, <1>4 DEF ArmedHasData
  <2> QED
    BY <1>2, <2>1, <2>5, <2>6, <2>7 DEF IInv, Types, FlushNext, callVars, kernelVars,
       connVars, GotHasData, ArmedWhilePending
<1> QED
  BY <1>3, <1>4

LEMMA FlushDoneIInv == ASSUME IInv, FlushDone PROVE IInv'
<1>1. TypeOK'
  BY DEF IInv, Types, TypeOK, FlushDone, callVars, kernelVars, connVars, bufferVars,
     WriteBuffer!TypeOK
<1>2. Pending' = Pending
  BY DEF FlushDone, bufferVars, Pending, WriteBuffer!DataLength
<1> QED
  BY <1>1, <1>2 DEF IInv, Types, FlushDone, More, callVars, kernelVars, connVars, Pending,
     ArmedHasData, GotHasData, FlushHasData, ArmedWhilePending

LEMMA FlushSendIInv == ASSUME IInv, FlushSend PROVE IInv'
<1> DEFINE n == IF flush.len < 0 THEN free ELSE Least(flush.len, free)
<1>1. /\ pc = "send" /\ More /\ n > 0
      /\ sent' = sent \o Flushed(n)
      /\ free' = free - n
      /\ IF n <= Pending THEN WriteBuffer!DecreaseUsedSpace(n) ELSE UNCHANGED bufferVars
      /\ flush' = [flush EXCEPT !.done = @ + n]
      /\ partial' = (partial \/ n # flush.len)
      /\ armed' = FALSE /\ edge' = FALSE
      /\ UNCHANGED <<callVars, pc, batch, got, connVars>>
  BY DEF FlushSend, DisarmOut, Pending
<1>2. /\ TypeOK /\ free \in 0 .. KernelSpace /\ KernelSpace \in Nat /\ sent \in Seq(Byte)
      /\ flush \in [at : 0 .. Size - 1, len : Int, done : Nat] /\ partial \in BOOLEAN
  BY Constants DEF IInv, Types, TypeOK
<1>3. n \in Nat /\ n <= free
  BY <1>1, <1>2 DEF Least
<1> HIDE DEF n
<1>4. sent' \in Seq(Byte)
  BY <1>1, <1>2, <1>3, FlushedBytes, ConcatProperties
<1>5. free' \in 0 .. KernelSpace
  BY <1>1, <1>2, <1>3
<1>6. /\ flush' \in [at : 0 .. Size - 1, len : Int, done : Nat]
      /\ flush'.len = flush.len /\ flush'.done = flush.done + n
  <2>1. flush.done + n \in Nat
    BY <1>2, <1>3
  <2>2. flush' = [flush EXCEPT !.done = flush.done + n]
    BY <1>1
  <2> QED
    BY <1>2, <2>1, <2>2
<1>7. BufferOK /\ Pending \in Nat
  BY PendingIsNat, Constants
<1>8. /\ BufferOK' /\ Pending' \in Nat
      /\ Pending' = Pending - n \/ (Pending' = Pending /\ n > Pending)
  <2>1. CASE n <= Pending
    BY <1>1, <1>3, <1>7, <2>1, DecreaseTakes
  <2>2. CASE ~(n <= Pending)
    <3>1. UNCHANGED bufferVars
      BY <1>1, <2>2
    <3>2. BufferOK' /\ Pending' = Pending
      BY <1>7, <3>1 DEF bufferVars, BufferOK, Pending, WriteBuffer!DataLength, WriteBuffer!TypeOK
    <3> QED
      BY <1>3, <1>7, <2>2, <3>2
  <2> QED
    BY <2>1, <2>2
<1>9. Types'
  BY <1>1, <1>4, <1>5, <1>6, <1>8 DEF callVars, connVars, BufferOK, IInv, Types, TypeOK
<1>10. FlushHasData'
  BY <1>1, <1>2, <1>3, <1>6, <1>7, <1>8 DEF IInv, FlushHasData
<1> QED
  BY <1>1, <1>9, <1>10 DEF IInv, ArmedHasData, GotHasData, ArmedWhilePending

LEMMA FlushFullIInv == ASSUME IInv, FlushFull PROVE IInv'
<1>1. armed' = TRUE /\ edge' \in BOOLEAN
  BY DEF FlushFull, ArmOut, Writable
<1>2. TypeOK'
  BY <1>1 DEF IInv, Types, TypeOK, FlushFull, callVars, connVars, bufferVars, WriteBuffer!TypeOK
<1>3. Pending' = Pending
  BY DEF FlushFull, bufferVars, Pending, WriteBuffer!DataLength
<1>4. Pending \in Nat /\ flush.len \in Int /\ flush.done \in Nat
  BY PendingIsNat, Constants DEF IInv, Types, TypeOK
<1>5. ArmedHasData'
  BY <1>3, <1>4 DEF FlushFull, More, IInv, FlushHasData, ArmedHasData
<1> QED
  BY <1>1, <1>2, <1>3, <1>5 DEF IInv, Types, FlushFull, callVars, connVars,
     GotHasData, FlushHasData, ArmedWhilePending

LEMMA FlushBrokenIInv == ASSUME IInv, FlushBroken PROVE IInv'
<1>1. TypeOK'
  BY DEF IInv, Types, TypeOK, FlushBroken, callVars, kernelVars, bufferVars, WriteBuffer!TypeOK
<1>2. owed' <= sends'
  BY DEF IInv, Types, FlushBroken, callVars
<1> QED
  BY <1>1, <1>2, Frame DEF FlushBroken, callVars, kernelVars

\* A step in which nothing happens.
LEMMA StutterIInv == ASSUME IInv, UNCHANGED vars PROVE IInv'
<1>1. TypeOK'
  BY DEF IInv, Types, TypeOK, vars, callVars, kernelVars, connVars, bufferVars,
     WriteBuffer!TypeOK
<1>2. owed' <= sends'
  BY DEF IInv, Types, vars, callVars
<1> QED
  BY <1>1, <1>2, Frame DEF vars, callVars, kernelVars, connVars

LEMMA NextIInv == IInv /\ [Next]_vars => IInv'
<1> SUFFICES ASSUME IInv, [Next]_vars PROVE IInv'
  OBVIOUS
<1>1. CASE \E n \in Lens : SendData(n)
  BY <1>1, SendDataIInv
<1>2. CASE WriteEventfd \/ Acknowledge \/ Reset \/ CloseSession
  BY <1>2, WriteEventfdIInv, AcknowledgeIInv, ResetIInv, CloseSessionIInv
<1>3. CASE PollReady \/ PollInput
  BY <1>3, PollIInv DEF PollReady, PollInput
<1>4. CASE SwapTasks \/ HandleSend \/ ReadEventfd \/ HandleEvent
  BY <1>4, SwapTasksIInv, HandleSendIInv, ReadEventfdIInv, HandleEventIInv
<1>5. CASE FlushNext \/ FlushDone \/ FlushSend \/ FlushFull \/ FlushBroken
  BY <1>5, FlushNextIInv, FlushDoneIInv, FlushSendIInv, FlushFullIInv, FlushBrokenIInv
<1>6. CASE UNCHANGED vars
  BY <1>6, StutterIInv
<1> QED
  BY <1>1, <1>2, <1>3, <1>4, <1>5, <1>6 DEF Next, Reactor

\* The invariant holds in every reachable state.
LEMMA IInvHolds == Spec => []IInv
  BY InitIInv, NextIInv, PTL DEF Spec

-----------------------------------------------------------------------------
\* The type invariant, for every size and every set of packet lengths: no
\* flush or split (SlaveReactor.cpp:139-191, 386-449) takes more room in the
\* kernel's buffer than there is, or an offset out of the write buffer.
THEOREM TypeCorrect == Spec => []TypeOK
<1>1. IInv => TypeOK
  BY DEF IInv, Types
<1> QED
  BY <1>1, IInvHolds, PTL

\* Bytes that wait in the write buffer of a working connection are watched
\* for: EPOLLOUT is armed or being handled (SlaveReactor.cpp:139-191, 420-424).
THEOREM WatchedCorrect == Spec => []ArmedWhilePending
<1>1. IInv => ArmedWhilePending
  BY DEF IInv
<1> QED
  BY <1>1, IInvHolds, PTL

\* The assertion at SlaveReactor.cpp:137 holds: the batch of send tasks between
\* epoll_wait and the handling of EPOLLOUT leaves something to send.
THEOREM EventCorrect == Spec => []EventHasData
<1>1. IInv => EventHasData
  BY DEF IInv, GotHasData, EventHasData, Pending
<1> QED
  BY <1>1, IInvHolds, PTL

-----------------------------------------------------------------------------
(* What reaches the kernel is a sequence of whole packets, in the order    *)
(* sendData accepted them, as long as each flush is taken in one go: for   *)
(* every size of the write buffer and of the kernel's, every set of packet *)
(* lengths and any number of calls.                                        *)

\* A sequence of whole packets.
Whole(q) ==
  q # << >> =>
    /\ q[1][2] = 1
    /\ \A i \in 1 .. Len(q) - 1 : Follows(q[i], q[i + 1])
    /\ q[Len(q)][2] = q[Len(q)][3]

\* The number of a packet, and of the last one in the stream.
Number(bytes) == bytes[1][1]
LastOf(q) == IF q = << >> THEN 0 ELSE q[Len(q)][1]
Last == LastOf(Stream)

\* A batch is worked off before anything else is done.
BatchTaken == pc \notin {"batch", "abort"} => batch = << >>

\* The tasks wait in the order of their numbers, those of the batch first.
InOrder ==
  /\ \A i, j \in DOMAIN batch : i < j => Number(batch[i]) < Number(batch[j])
  /\ \A i, j \in DOMAIN tasks : i < j => Number(tasks[i]) < Number(tasks[j])
  /\ \A i \in DOMAIN batch : \A j \in DOMAIN tasks : Number(batch[i]) < Number(tasks[j])
  /\ \A i \in DOMAIN batch : Number(batch[i]) <= sends
  /\ \A i \in DOMAIN tasks : Number(tasks[i]) <= sends

\* The stream is behind all of them.
SentBefore ==
  /\ Last <= sends
  /\ \A i \in DOMAIN batch : Last < Number(batch[i])
  /\ \A i \in DOMAIN tasks : Last < Number(tasks[i])

\* A flush has handed the kernel nothing of its run or all of it.
FlushWhole ==
  pc = "send" =>
    \/ flush.done = flush.len
    \/ flush.done = 0 /\ flush.at = start /\ flush.len = WriteBuffer!ContinuousSize

\* As far as each flush was taken in one go.
StreamInv == ~partial /\ pc # "abort" => Whole(Stream) /\ SentBefore /\ FlushWhole

OInv == BatchTaken /\ InOrder /\ StreamInv

-----------------------------------------------------------------------------
(* Packets.                                                                *)

\* A byte has the number of its packet.
LEMMA ByteNumber == \A b \in Byte : b[1] \in Int
<1> SUFFICES ASSUME NEW b \in Byte PROVE b[1] \in Int
  OBVIOUS
<1>1. CASE b \in PacketByte
  <2>1. PICK k \in 1 .. MaxSend, i \in 1 .. Size, n \in Lens : b = <<k, i, n>>
    BY <1>1 DEF PacketByte
  <2> QED
    BY <2>1
<1>2. CASE b = Zero
  BY <1>2 DEF Zero
<1> QED
  BY <1>1, <1>2 DEF Byte

\* The numbers of a packet and of its bytes.
LEMMA TaskNumber ==
  ASSUME NEW bytes \in Task
  PROVE  /\ Number(bytes) \in 1 .. MaxSend
         /\ bytes \in Seq(Byte) /\ Len(bytes) \in 1 .. Size
         /\ bytes[1][2] = 1
         /\ \A i \in 1 .. Len(bytes) - 1 : Follows(bytes[i], bytes[i + 1])
         /\ bytes[Len(bytes)][1] = Number(bytes)
         /\ bytes[Len(bytes)][2] = bytes[Len(bytes)][3]
<1>1. PICK k \in 1 .. MaxSend, n \in Lens : bytes = Data(k, n)
  BY DEF Task
<1>2. n \in 1 .. Size /\ Size \in Nat
  BY Constants
<1>3. bytes = [i \in 1 .. n |-> <<k, i, n>>]
  BY <1>1 DEF Data
<1>4. bytes \in Seq(Byte) /\ Len(bytes) = n
  <2>1. bytes \in Seq(Byte)
    BY PacketBytes
  <2>2. DOMAIN bytes = 1 .. n
    BY <1>3
  <2>3. DOMAIN bytes = 1 .. Len(bytes) /\ Len(bytes) \in Nat
    BY <2>1, LenProperties
  <2> QED
    BY <1>2, <2>1, <2>2, <2>3
<1>5. \A i \in 1 .. n : bytes[i] = <<k, i, n>>
  BY <1>3
<1>6. ASSUME NEW i \in 1 .. n - 1 PROVE Follows(bytes[i], bytes[i + 1])
  <2>1. i \in 1 .. n /\ i + 1 \in 1 .. n
    BY <1>2
  <2>2. bytes[i] = <<k, i, n>> /\ bytes[i + 1] = <<k, i + 1, n>>
    BY <1>5, <2>1
  <2> QED
    BY <2>2 DEF Follows
<1>7. bytes[1] = <<k, 1, n>> /\ bytes[n] = <<k, n, n>>
  BY <1>2, <1>5
<1> QED
  BY <1>2, <1>4, <1>6, <1>7 DEF Number

\* A packet with a greater number put behind whole packets.
LEMMA WholeAppend ==
  ASSUME NEW q \in Seq(Byte), NEW bytes \in Task, Whole(q), LastOf(q) < Number(bytes)
  PROVE  Whole(q \o bytes) /\ LastOf(q \o bytes) = Number(bytes)
<1> DEFINE w == q \o bytes
           m == Len(q)
           n == Len(bytes)
<1>1. /\ bytes \in Seq(Byte) /\ n \in Nat /\ n >= 1 /\ bytes[1][2] = 1
      /\ \A i \in 1 .. n - 1 : Follows(bytes[i], bytes[i + 1])
      /\ bytes[n][1] = Number(bytes) /\ bytes[n][2] = bytes[n][3]
  BY TaskNumber, Constants
<1>2. m \in Nat
  BY LenProperties
<1>3. /\ w \in Seq(Byte) /\ Len(w) = m + n
      /\ \A i \in 1 .. m + n : w[i] = IF i <= m THEN q[i] ELSE bytes[i - m]
  BY <1>1, ConcatProperties
<1>4. (q = << >>) <=> (m = 0)
  BY EmptySeq
<1> HIDE DEF w, m, n
<1>5. ASSUME NEW j \in 1 .. n PROVE w[m + j] = bytes[j]
  <2>1. m + j \in 1 .. m + n /\ ~(m + j <= m) /\ (m + j) - m = j
    BY <1>1, <1>2
  <2> QED
    BY <1>3, <2>1
<1>6. w[1][2] = 1
  <2>1. CASE m = 0
    <3>1. w[1] = bytes[1]
      BY <1>1, <1>3, <2>1
    <3> QED
      BY <1>1, <3>1
  <2>2. CASE m # 0
    <3>1. w[1] = q[1]
      BY <1>1, <1>2, <1>3, <2>2
    <3> QED
      BY <1>4, <2>2, <3>1 DEF Whole
  <2> QED
    BY <2>1, <2>2
<1>7. w[m + n] = bytes[n]
  BY <1>1, <1>5
<1>8. ASSUME NEW i \in 1 .. (m + n) - 1 PROVE Follows(w[i], w[i + 1])
  <2>1. i \in 1 .. m + n /\ i + 1 \in 1 .. m + n
    BY <1>1, <1>2
  <2>2. CASE i < m
    <3>1. w[i] = q[i] /\ w[i + 1] = q[i + 1] /\ i \in 1 .. m - 1 /\ m # 0
      BY <1>2, <1>3, <2>1, <2>2
    <3> QED
      BY <1>4, <3>1 DEF Whole, m
  <2>3. CASE i = m
    <3>1. w[i] = q[m] /\ m # 0
      BY <1>2, <1>3, <2>1, <2>3
    <3>2. w[i + 1] = bytes[1]
      BY <1>1, <1>5, <2>3
    <3>3. q[m][1] < bytes[1][1] /\ q[m][2] = q[m][3]
      BY <1>4, <3>1 DEF Whole, LastOf, Number, m
    <3>4. q[m][1] \in Int /\ bytes[1][1] \in Int
      <4>1. q[m] \in Byte /\ bytes[1] \in Byte
        BY <1>1, <1>2, <3>1, ElementOfSeq DEF m, n
      <4> QED
        BY <4>1, ByteNumber
    <3>5. bytes[1][1] > q[m][1]
      BY <3>3, <3>4
    <3> QED
      BY <1>1, <3>1, <3>2, <3>3, <3>5 DEF Follows
  <2>4. CASE i > m
    <3> DEFINE j == i - m
    <3>1. j \in 1 .. n - 1 /\ j \in 1 .. n /\ j + 1 \in 1 .. n /\ i = m + j /\ i + 1 = m + (j + 1)
      BY <1>1, <1>2, <2>4
    <3> HIDE DEF j
    <3>2. w[m + j] = bytes[j] /\ w[m + (j + 1)] = bytes[j + 1]
      BY <1>5, <3>1
    <3>3. Follows(w[m + j], w[m + (j + 1)])
      BY <1>1, <3>1, <3>2
    <3> QED
      BY <3>1, <3>3
  <2> QED
    BY <1>2, <2>2, <2>3, <2>4
<1>9. w # << >>
  BY <1>1, <1>2, <1>3, EmptySeq
<1>10. Whole(w)
  BY <1>1, <1>3, <1>6, <1>7, <1>8 DEF Whole
<1>11. LastOf(w) = Number(bytes)
  BY <1>1, <1>3, <1>7, <1>9 DEF LastOf
<1> QED
  BY <1>10, <1>11 DEF w

-----------------------------------------------------------------------------
(* The write buffer's contents, from the theorems about the ring buffer.   *)

\* The bytes of the stream.
LEMMA StreamTypes ==
  ASSUME IInv
  PROVE  /\ sent \in Seq(Byte) /\ WriteBuffer!Contents \in Seq(Byte)
         /\ Stream \in Seq(Byte)
         /\ Len(WriteBuffer!Contents) = Pending
<1>1. Buffer!ContentsBySlot
  BY PendingIsNat, BufferInvariant, BufferAssumptions, Buffer!ContentsAre
<1>2. Buffer!Contents = WriteBuffer!Contents /\ Buffer!DataLength = Pending
  BY DEF Buffer!Contents, WriteBuffer!Contents, Buffer!DataLength, WriteBuffer!DataLength, Pending
<1>3. WriteBuffer!Contents \in Seq(Byte) /\ Len(WriteBuffer!Contents) = Pending
  BY <1>1, <1>2 DEF Buffer!ContentsBySlot
<1>4. sent \in Seq(Byte)
  BY DEF IInv, Types, TypeOK
<1> QED
  BY <1>3, <1>4, ConcatProperties DEF Stream

\* The ring buffer's invariant, before and after a step.
LEMMA BufferInvariants ==
  ASSUME IInv, IInv'
  PROVE  BufferOK /\ Buffer!IInv /\ Buffer!IInv'
<1>1. BufferOK /\ Buffer!IInv
  BY PendingIsNat, BufferInvariant
<1>2. IInv' => BufferOK'
  BY DEF IInv, Types, TypeOK, BufferOK
<1>3. BufferOK' => Buffer!IInv'
  BY DEF BufferOK, Pending, WriteBuffer!TypeOK, WriteBuffer!DataLength, WriteBuffer!Slot,
         Buffer!IInv, Buffer!TypeOK, Buffer!DataLength, Buffer!Slot, Buffer!Reserved
<1> QED
  BY <1>1, <1>2, <1>3

\* A write puts its bytes behind the stream.
LEMMA WriteExtends ==
  ASSUME IInv, IInv', NEW bytes \in Seq(Byte), bytes # << >>, WriteBuffer!Write(bytes)
  PROVE  (WriteBuffer!Contents)' = WriteBuffer!Contents \o bytes
<1>1. BufferOK /\ Buffer!IInv /\ Buffer!IInv'
  BY BufferInvariants
<1>2. Pending \in 0 .. Size - 2 /\ Len(bytes) <= Size - 2 - Pending
  BY <1>1, Room DEF WriteBuffer!Write
<1>3. Len(bytes) \in 1 .. Size
  BY <1>2, Constants
<1>4. bytes \in Buffer!Bytes
  <2>1. bytes \in [1 .. Len(bytes) -> Byte]
    OBVIOUS
  <2> QED
    BY <1>3, <2>1 DEF Buffer!Bytes
<1>5. Buffer!Write(bytes)
  BY DEF WriteBuffer!Write, WriteBuffer!CopyTo, WriteBuffer!Space, WriteBuffer!Slot,
         WriteBuffer!Reserved, WriteBuffer!IncreaseUsedSpace,
         Buffer!Write, Buffer!CopyTo, Buffer!Space, Buffer!Slot, Buffer!Reserved,
         Buffer!IncreaseUsedSpace
<1>6. (Buffer!Contents)' = Buffer!Contents \o bytes
  BY <1>1, <1>4, <1>5, BufferAssumptions, Buffer!WriteFromIInv
<1> QED
  BY <1>6 DEF Buffer!Contents, WriteBuffer!Contents, Buffer!DataLength, WriteBuffer!DataLength

\* decreaseUsedSpace takes bytes off its front.
LEMMA DecreaseShortens ==
  ASSUME IInv, IInv', NEW n \in Nat, n > 0, n <= Pending, WriteBuffer!DecreaseUsedSpace(n)
  PROVE  (WriteBuffer!Contents)' = SubSeq(WriteBuffer!Contents, n + 1, Pending)
<1>1. BufferOK /\ Buffer!IInv /\ Buffer!IInv'
  BY BufferInvariants
<1>2. n \in 1 .. Size
  BY <1>1, Room, Constants
<1>3. Buffer!DecreaseUsedSpace(n)
  BY DEF WriteBuffer!DecreaseUsedSpace, WriteBuffer!DataLength,
         Buffer!DecreaseUsedSpace, Buffer!DataLength
<1>4. (Buffer!Contents)' = SubSeq(Buffer!Contents, n + 1, Buffer!DataLength)
  BY <1>1, <1>2, <1>3, BufferAssumptions, Buffer!DecreaseFromIInv
<1> QED
  BY <1>4 DEF Buffer!Contents, WriteBuffer!Contents, Buffer!DataLength,
              WriteBuffer!DataLength, Pending

\* What a flush hands the kernel from the start of its run is the front of
\* the contents.
LEMMA FlushedIsFront ==
  ASSUME IInv, NEW n \in Nat, n > 0, n <= Pending, n = WriteBuffer!ContinuousSize, flush.at = start
  PROVE  Flushed(n) = SubSeq(WriteBuffer!Contents, 1, n)
<1>1. BufferOK /\ Pending \in 0 .. Size - 2 /\ Size \in Nat /\ Size > 2
  BY PendingIsNat, Constants
<1>2. start \in 0 .. Size - 1 /\ end \in 0 .. Size - 1
  BY <1>1 DEF BufferOK, WriteBuffer!TypeOK, WriteBuffer!Slot
<1>3. start + n <= Size
  BY <1>1, <1>2 DEF WriteBuffer!ContinuousSize, WriteBuffer!Reserved
<1> DEFINE C == WriteBuffer!Contents
<1>4. C \in Seq(Byte) /\ Len(C) = Pending
  BY StreamTypes
<1>5. ASSUME NEW i \in 1 .. n PROVE C[i] = buffer[start + i - 1]
  <2>1. i \in 1 .. Pending /\ start + i - 1 \in 0 .. Size - 1
    BY <1>1, <1>2, <1>3
  <2>2. C[i] = buffer[(start + i - 1) % Size]
    BY <2>1 DEF WriteBuffer!Contents, Pending
  <2>3. (start + i - 1) % Size = start + i - 1
    BY <1>1, <2>1
  <2> QED
    BY <2>2, <2>3
<1>6. ASSUME NEW i \in 1 .. n PROVE flush.at + i - 1 < Size
  BY <1>1, <1>2, <1>3
<1>7. Flushed(n) = [i \in 1 .. n |-> C[i]]
  BY <1>5, <1>6 DEF Flushed
<1> HIDE DEF C
<1>8. /\ SubSeq(C, 1, n) \in Seq(Byte) /\ Len(SubSeq(C, 1, n)) = n
      /\ \A i \in 1 .. n : SubSeq(C, 1, n)[i] = C[i]
  <2>1. \A i \in 1 .. n : C[i] \in Byte
    BY <1>1, <1>4
  <2>2. /\ SubSeq(C, 1, n) \in Seq(Byte)
        /\ Len(SubSeq(C, 1, n)) = IF 1 <= n THEN n - 1 + 1 ELSE 0
        /\ \A i \in 1 .. n - 1 + 1 : SubSeq(C, 1, n)[i] = C[1 + i - 1]
    BY <2>1, SubSeqProperties
  <2> QED
    BY <2>2
<1>9. SubSeq(C, 1, n) = [i \in 1 .. n |-> SubSeq(C, 1, n)[i]]
  <2>1. SubSeq(C, 1, n) \in [1 .. n -> Byte]
    BY <1>8, LenProperties
  <2> QED
    BY <2>1
<1>10. SubSeq(C, 1, n) = [i \in 1 .. n |-> C[i]]
  BY <1>8, <1>9
<1> QED
  BY <1>7, <1>10 DEF C

-----------------------------------------------------------------------------
(* What the steps do to the stream.                                        *)

\* Concatenation is associative.
LEMMA Associative == \A s, t, u \in Seq(Byte) : (s \o t) \o u = s \o (t \o u)
<1> SUFFICES ASSUME NEW s \in Seq(Byte), NEW t \in Seq(Byte), NEW u \in Seq(Byte)
             PROVE  (s \o t) \o u = s \o (t \o u)
  OBVIOUS
<1> QED
  BY ConcatAssociative

\* A packet sent with nothing before it is put behind the stream, part of it
\* in the kernel and the rest in the write buffer.
LEMMA SendNowExtends ==
  ASSUME IInv, IInv', NEW bytes \in Task, SendNow(bytes), Pending = 0, pc' # "abort"
  PROVE  Stream' = Stream \o bytes
<1> DEFINE n == Least(Len(bytes), free)
           first == SubSeq(bytes, 1, n)
           rest == SubSeq(bytes, n + 1, Len(bytes))
           C == WriteBuffer!Contents
<1>1. bytes \in Seq(Byte) /\ Len(bytes) \in 1 .. Size
  BY PacketBytes
<1>2. free \in 0 .. KernelSpace /\ sent \in Seq(Byte) /\ C \in Seq(Byte) /\ Len(C) = 0
  BY StreamTypes DEF IInv, Types, TypeOK
<1>3. n \in 0 .. Len(bytes)
  BY <1>1, <1>2, Constants DEF Least
<1>4. sent' = sent \o first
  BY DEF SendNow
<1> HIDE DEF n
<1>5. first \in Seq(Byte) /\ rest \in Seq(Byte) /\ Len(rest) = Len(bytes) - n
  BY <1>1, <1>3, Split
<1>6. first \o rest = bytes
  <2>1. 1 \in 1 .. Len(bytes) + 1 /\ n \in 1 - 1 .. Len(bytes) /\ Len(bytes) \in n .. Len(bytes)
    BY <1>1, <1>3, Constants
  <2>2. first \o rest = SubSeq(bytes, 1, Len(bytes))
    BY <1>1, <2>1, ConcatAdjacentSubSeq
  <2> QED
    BY <1>1, <2>2, SubSeqFull
<1>7. C' = rest
  <2> HIDE DEF first, rest
  <2>1. C = << >>
    BY <1>2, EmptySeq
  <2>2. CASE rest = << >>
    <3>1. ~(Len(rest) > WriteBuffer!Space)
      <4>1. WriteBuffer!Space \in Nat
        BY PendingIsNat, Room, Constants
      <4> QED
        BY <2>2, <4>1, EmptySeq
    <3>2. UNCHANGED bufferVars
      BY <2>2, <3>1 DEF SendNow, n, rest
    <3>3. C' = C
      BY <3>2 DEF bufferVars, WriteBuffer!Contents, WriteBuffer!DataLength
    <3> HIDE DEF C
    <3> QED
      BY <2>1, <2>2, <3>3
  <2>3. CASE rest # << >>
    <3>1. WriteBuffer!Write(rest)
      BY <2>3 DEF SendNow, n, rest
    <3>2. C' = C \o rest
      BY <1>5, <2>3, <3>1, WriteExtends
    <3> HIDE DEF C
    <3> QED
      BY <1>5, <2>1, <3>2, ConcatEmptySeq
  <2> QED
    BY <2>2, <2>3
<1> HIDE DEF first, rest
<1>8. Stream' = (sent \o first) \o rest
  BY <1>4, <1>7 DEF Stream
<1>9. Stream = sent
  <2>1. C = << >>
    BY <1>2, EmptySeq
  <2>2. Stream = sent \o C
    BY DEF Stream
  <2> HIDE DEF C
  <2> QED
    BY <1>2, <2>1, <2>2, ConcatEmptySeq
<1>10. (sent \o first) \o rest = sent \o (first \o rest)
  BY <1>2, <1>5, Associative, Zenon
<1> QED
  BY <1>6, <1>8, <1>9, <1>10

\* One that waits is put behind it, or dropped as a whole.
LEMMA SendLaterExtends ==
  ASSUME IInv, IInv', NEW bytes \in Task, SendLater(bytes)
  PROVE  Stream' = Stream \/ Stream' = Stream \o bytes
<1>1. bytes \in Seq(Byte) /\ bytes # << >>
  <2>1. bytes \in Seq(Byte) /\ Len(bytes) # 0
    BY PacketBytes, Constants
  <2> QED
    BY <2>1, EmptySeq
<1>2. sent' = sent
  BY DEF SendLater, kernelVars
<1>3. CASE UNCHANGED bufferVars
  BY <1>2, <1>3 DEF bufferVars, Stream, WriteBuffer!Contents, WriteBuffer!DataLength
<1>4. CASE WriteBuffer!Write(bytes)
  <2> DEFINE C == WriteBuffer!Contents
  <2>1. C' = C \o bytes
    BY <1>1, <1>4, WriteExtends
  <2>2. sent \in Seq(Byte) /\ C \in Seq(Byte)
    BY StreamTypes
  <2>3. Stream' = sent \o (C \o bytes)
    BY <1>2, <2>1 DEF Stream
  <2>4. Stream = sent \o C
    BY DEF Stream
  <2> HIDE DEF C
  <2>5. (sent \o C) \o bytes = sent \o (C \o bytes)
    BY <1>1, <2>2, Associative, Zenon
  <2> QED
    BY <2>3, <2>4, <2>5
<1> QED
  BY <1>3, <1>4 DEF SendLater

\* A flush that is taken in one go moves its run from the buffer to the kernel.
LEMMA FlushMoves ==
  ASSUME IInv, IInv', FlushSend, FlushWhole, ~partial'
  PROVE  Stream' = Stream /\ flush'.done = flush'.len
<1> DEFINE n == IF flush.len < 0 THEN free ELSE Least(flush.len, free)
           C == WriteBuffer!Contents
<1>1. /\ pc = "send" /\ More /\ n > 0
      /\ sent' = sent \o Flushed(n)
      /\ IF n <= Pending THEN WriteBuffer!DecreaseUsedSpace(n) ELSE UNCHANGED bufferVars
      /\ flush' = [flush EXCEPT !.done = @ + n]
      /\ partial' = (partial \/ n # flush.len)
  BY DEF FlushSend, Pending
<1>2. /\ free \in 0 .. KernelSpace /\ KernelSpace \in Nat
      /\ flush \in [at : 0 .. Size - 1, len : Int, done : Nat]
  BY Constants DEF IInv, Types, TypeOK
<1>3. n \in Nat
  BY <1>2 DEF Least
<1> HIDE DEF n
<1>4. n = flush.len
  BY <1>1
<1>5. flush.done = 0 /\ flush.at = start /\ n = WriteBuffer!ContinuousSize
  <2>1. flush.done # flush.len
    BY <1>1, <1>2, <1>3, <1>4 DEF More
  <2> QED
    BY <1>1, <1>4, <2>1 DEF FlushWhole
<1>6. n <= Pending /\ Pending \in Nat
  <2>1. Pending \in Nat
    BY PendingIsNat, Constants
  <2>2. Pending >= flush.len - flush.done
    BY <1>1, <1>2, <1>3, <1>4 DEF IInv, FlushHasData
  <2> QED
    BY <1>2, <1>3, <1>4, <1>5, <2>1, <2>2
<1>7. Flushed(n) = SubSeq(C, 1, n)
  BY <1>1, <1>3, <1>5, <1>6, FlushedIsFront
<1>8. C' = SubSeq(C, n + 1, Pending)
  BY <1>1, <1>3, <1>6, DecreaseShortens
<1>9. sent \in Seq(Byte) /\ C \in Seq(Byte) /\ Len(C) = Pending
  BY StreamTypes
<1>10. Stream = sent \o C /\ Stream' = (sent \o SubSeq(C, 1, n)) \o SubSeq(C, n + 1, Pending)
  BY <1>1, <1>7, <1>8 DEF Stream
<1> HIDE DEF C
<1>11. SubSeq(C, 1, n) \in Seq(Byte) /\ SubSeq(C, n + 1, Pending) \in Seq(Byte)
  BY <1>3, <1>6, <1>9, Split
<1>12. SubSeq(C, 1, n) \o SubSeq(C, n + 1, Pending) = C
  <2>1. 1 \in 1 .. Pending + 1 /\ n \in 1 - 1 .. Pending /\ Pending \in n .. Pending
    BY <1>3, <1>6
  <2>2. SubSeq(C, 1, n) \o SubSeq(C, n + 1, Pending) = SubSeq(C, 1, Pending)
    BY <1>9, <2>1, ConcatAdjacentSubSeq
  <2> QED
    BY <1>9, <2>2, SubSeqFull
<1>13. Stream' = Stream
  <2>1. (sent \o SubSeq(C, 1, n)) \o SubSeq(C, n + 1, Pending)
          = sent \o (SubSeq(C, 1, n) \o SubSeq(C, n + 1, Pending))
    BY <1>9, <1>11, Associative, Zenon
  <2> QED
    BY <1>10, <1>12, <2>1
<1>14. flush'.done = flush'.len
  <2>1. flush.done + n = flush.len
    BY <1>3, <1>4, <1>5
  <2>2. flush' = [flush EXCEPT !.done = flush.done + n]
    BY <1>1
  <2> QED
    BY <1>2, <2>1, <2>2
<1> QED
  BY <1>13, <1>14

-----------------------------------------------------------------------------
(* The invariant.                                                          *)

\* The stream is what is in the kernel and in the write buffer.
LEMMA SameStream ==
  ASSUME UNCHANGED <<bufferVars, sent>>
  PROVE  Stream' = Stream /\ Last' = Last
<1>1. Stream' = Stream
  BY DEF bufferVars, Stream, WriteBuffer!Contents, WriteBuffer!DataLength
<1> QED
  BY <1>1 DEF Last, LastOf

\* A step that leaves the tasks, the stream and the flush alone.
LEMMA SameOrder ==
  ASSUME OInv, UNCHANGED <<bufferVars, sent, sends, tasks, batch, flush>>,
         partial' = partial,
         pc' = "abort" <=> pc = "abort",
         pc' = "send" => pc = "send",
         pc' \notin {"batch", "abort"} => pc \notin {"batch", "abort"} \/ batch = << >>
  PROVE  OInv'
<1>1. Stream' = Stream /\ Last' = Last
  BY SameStream
<1>2. BatchTaken'
  BY DEF OInv, BatchTaken
<1>3. InOrder'
  BY DEF OInv, InOrder
<1>4. FlushWhole => FlushWhole'
  BY DEF FlushWhole, bufferVars, WriteBuffer!ContinuousSize
<1>5. StreamInv'
  BY <1>1, <1>4 DEF OInv, StreamInv, SentBefore
<1> QED
  BY <1>2, <1>3, <1>5 DEF OInv

\* Nothing has been sent.
LEMMA InitOInv == Init => OInv
<1> SUFFICES ASSUME Init PROVE OInv
  OBVIOUS
<1>1. batch = << >> /\ tasks = << >> /\ pc = "poll" /\ sends = 0
  BY DEF Init
<1>2. Stream = << >>
  <2>1. IInv /\ Pending = 0
    BY InitIInv DEF Init, WriteBuffer!Init, Pending, WriteBuffer!DataLength
  <2>2. Len(WriteBuffer!Contents) = 0 /\ WriteBuffer!Contents \in Seq(Byte)
    BY <2>1, StreamTypes
  <2>3. WriteBuffer!Contents = << >>
    BY <2>2, EmptySeq
  <2>4. sent = << >>
    BY DEF Init
  <2> QED
    BY <2>3, <2>4 DEF Stream
<1>3. DOMAIN batch = {} /\ DOMAIN tasks = {}
  BY <1>1
<1>4. InOrder
  BY <1>3 DEF InOrder
<1>5. SentBefore
  BY <1>1, <1>2, <1>3 DEF SentBefore, Last, LastOf
<1>6. Whole(Stream)
  BY <1>2 DEF Whole
<1> QED
  BY <1>1, <1>4, <1>5, <1>6 DEF OInv, BatchTaken, StreamInv, FlushWhole

\* A task that has been queued has the greatest number.
LEMMA SendDataOInv == ASSUME IInv, OInv, NEW n \in Lens, SendData(n) PROVE OInv'
<1> DEFINE new == Data(sends + 1, n)
           m == Len(tasks)
<1>1. sends \in Nat /\ sends + 1 \in 1 .. MaxSend
  BY Constants DEF IInv, Types, TypeOK, SendData
<1>2. Number(new) = sends + 1
  <2>1. 1 \in 1 .. n
    BY Constants
  <2> QED
    BY <2>1 DEF Number, Data
<1>3. tasks \in Seq(Task) /\ batch \in Seq(Task) /\ m \in Nat
  BY DEF IInv, Types, TypeOK
<1>4. new \in Task
  BY <1>1 DEF Task
<1>5. tasks' = Append(tasks, new) /\ sends' = sends + 1
      /\ UNCHANGED <<bufferVars, sent, batch, flush, pc, partial>>
  BY DEF SendData, kernelVars
<1> HIDE DEF new
<1>6. DOMAIN tasks = 1 .. m /\ DOMAIN tasks' = 1 .. m + 1
  BY <1>3, <1>4, <1>5
<1>7. (\A i \in 1 .. m : tasks'[i] = tasks[i]) /\ tasks'[m + 1] = new
  BY <1>3, <1>4, <1>5
<1> HIDE DEF m
<1>8. \A i \in DOMAIN tasks' : i \in DOMAIN tasks \/ i = m + 1
  BY <1>3, <1>6
<1>9. \A i \in DOMAIN tasks : Number(tasks[i]) \in Int /\ Number(tasks[i]) <= sends
  <2>1. \A i \in DOMAIN tasks : tasks[i] \in Task
    BY <1>3, <1>6, ElementOfSeq DEF m
  <2>2. \A i \in DOMAIN tasks : Number(tasks[i]) \in 1 .. MaxSend
    BY <2>1, TaskNumber
  <2> QED
    BY <2>2, Constants DEF OInv, InOrder
<1>10. \A i \in DOMAIN batch : Number(batch[i]) \in Int /\ Number(batch[i]) <= sends
  <2>1. \A i \in DOMAIN batch : batch[i] \in Task
    BY <1>3, LenProperties, ElementOfSeq
  <2>2. \A i \in DOMAIN batch : Number(batch[i]) \in 1 .. MaxSend
    BY <2>1, TaskNumber
  <2> QED
    BY <2>2, Constants DEF OInv, InOrder
<1>11. \A i \in DOMAIN tasks' :
          \/ i \in DOMAIN tasks /\ Number(tasks'[i]) = Number(tasks[i])
          \/ i = m + 1 /\ Number(tasks'[i]) = sends + 1
  <2> SUFFICES ASSUME NEW i \in DOMAIN tasks'
               PROVE  \/ i \in DOMAIN tasks /\ Number(tasks'[i]) = Number(tasks[i])
                      \/ i = m + 1 /\ Number(tasks'[i]) = sends + 1
    OBVIOUS
  <2>1. CASE i \in DOMAIN tasks
    <3>1. i \in 1 .. m
      BY <1>6, <2>1
    <3>2. tasks'[i] = tasks[i]
      BY <1>7, <3>1
    <3> QED
      BY <2>1, <3>2, Zenon
  <2>2. CASE i = m + 1
    <3>1. tasks'[i] = new
      BY <1>7, <2>2
    <3> QED
      BY <1>2, <2>2, <3>1, Zenon
  <2> QED
    BY <1>8, <2>1, <2>2
<1>12. InOrder'
  <2>1. \A i, j \in DOMAIN tasks' : i < j => Number(tasks'[i]) < Number(tasks'[j])
    <3> SUFFICES ASSUME NEW i \in DOMAIN tasks', NEW j \in DOMAIN tasks', i < j
                 PROVE  Number(tasks'[i]) < Number(tasks'[j])
      OBVIOUS
    <3>1. i \in DOMAIN tasks
      BY <1>3, <1>6
    <3>2. CASE j \in DOMAIN tasks /\ Number(tasks'[j]) = Number(tasks[j])
      BY <1>6, <1>7, <3>1, <3>2 DEF OInv, InOrder
    <3>3. CASE Number(tasks'[j]) = sends + 1
      <4>1. tasks'[i] = tasks[i]
        BY <1>6, <1>7, <3>1
      <4>2. Number(tasks[i]) \in Int /\ Number(tasks[i]) <= sends
        BY <1>9, <3>1
      <4> QED
        BY <1>1, <3>3, <4>1, <4>2
    <3> QED
      BY <1>11, <3>2, <3>3
  <2>2. \A i \in DOMAIN tasks' : Number(tasks'[i]) <= sends'
    BY <1>1, <1>5, <1>9, <1>11
  <2>3. \A i \in DOMAIN batch : Number(batch[i]) <= sends'
    BY <1>1, <1>5, <1>10
  <2>4. \A i \in DOMAIN batch : \A j \in DOMAIN tasks' : Number(batch[i]) < Number(tasks'[j])
    <3> SUFFICES ASSUME NEW i \in DOMAIN batch, NEW j \in DOMAIN tasks'
                 PROVE  Number(batch[i]) < Number(tasks'[j])
      OBVIOUS
    <3>1. CASE j \in DOMAIN tasks /\ Number(tasks'[j]) = Number(tasks[j])
      BY <3>1 DEF OInv, InOrder
    <3>2. CASE Number(tasks'[j]) = sends + 1
      <4>1. Number(batch[i]) \in Int /\ Number(batch[i]) <= sends
        BY <1>10
      <4> QED
        BY <1>1, <3>2, <4>1
    <3> QED
      BY <1>11, <3>1, <3>2
  <2> QED
    BY <1>5, <2>1, <2>2, <2>3, <2>4 DEF OInv, InOrder
<1>13. Stream' = Stream /\ Last' = Last
  BY <1>5, SameStream
<1>14. ASSUME SentBefore PROVE SentBefore'
  <2>1. Last \in Int
    <3>1. CASE Stream = << >>
      BY <3>1 DEF Last, LastOf
    <3>2. CASE Stream # << >>
      <4>1. Stream \in Seq(Byte)
        BY StreamTypes
      <4>2. Len(Stream) \in 1 .. Len(Stream)
        BY <3>2, <4>1, EmptySeq
      <4>3. Stream[Len(Stream)] \in Byte
        BY <4>1, <4>2, ElementOfSeq
      <4> QED
        BY <3>2, <4>3, ByteNumber DEF Last, LastOf
    <3> QED
      BY <3>1, <3>2
  <2>2. Last <= sends /\ Last <= sends + 1 /\ Last < sends + 1
    BY <1>1, <1>14, <2>1 DEF SentBefore
  <2>3. \A i \in DOMAIN tasks' : Last < Number(tasks'[i])
    BY <1>11, <1>14, <2>2 DEF SentBefore
  <2> QED
    BY <1>5, <1>13, <1>14, <2>2, <2>3 DEF SentBefore
<1>15. FlushWhole => FlushWhole'
  BY <1>5 DEF FlushWhole, bufferVars, WriteBuffer!ContinuousSize
<1>16. BatchTaken'
  BY <1>5 DEF OInv, BatchTaken
<1>17. StreamInv'
  <2>1. Whole(Stream) => Whole(Stream')
    BY <1>13
  <2> QED
    BY <1>5, <1>14, <1>15, <2>1 DEF OInv, StreamInv
<1> QED
  BY <1>12, <1>16, <1>17 DEF OInv

\* The tasks left behind the head of the batch.
LEMMA TailInOrder ==
  ASSUME IInv, OInv, batch # << >>, batch' = Tail(batch), UNCHANGED <<tasks, sends>>
  PROVE  /\ Head(batch) \in Task /\ Number(Head(batch)) <= sends
         /\ InOrder'
         /\ \A i \in DOMAIN batch' : Number(Head(batch)) < Number(batch'[i])
         /\ \A i \in DOMAIN batch' : \E j \in DOMAIN batch : batch'[i] = batch[j]
         /\ \A i \in DOMAIN tasks : Number(Head(batch)) < Number(tasks[i])
         /\ \E i \in DOMAIN batch : batch[i] = Head(batch)
<1> DEFINE m == Len(batch)
<1>1. batch \in Seq(Task) /\ m \in Nat /\ m >= 1
  <2>1. batch \in Seq(Task)
    BY DEF IInv, Types, TypeOK
  <2> QED
    BY <2>1, EmptySeq
<1>2. /\ DOMAIN batch = 1 .. m /\ DOMAIN batch' = 1 .. m - 1
      /\ Head(batch) = batch[1] /\ Head(batch) \in Task
  BY <1>1
<1>3. \A i \in 1 .. m - 1 : batch'[i] = batch[i + 1]
  BY <1>1
<1> HIDE DEF m
<1>4. \A i \in 1 .. m - 1 : i + 1 \in 1 .. m /\ 1 < i + 1
  BY <1>1
<1>5. 1 \in 1 .. m
  BY <1>1
<1>6. \A i \in DOMAIN batch' : Number(Head(batch)) < Number(batch'[i])
  BY <1>2, <1>3, <1>4, <1>5 DEF OInv, InOrder
<1>7. \A i, j \in DOMAIN batch' : i < j => Number(batch'[i]) < Number(batch'[j])
  <2> SUFFICES ASSUME NEW i \in 1 .. m - 1, NEW j \in 1 .. m - 1, i < j
               PROVE  Number(batch'[i]) < Number(batch'[j])
    BY <1>2
  <2>1. i + 1 \in 1 .. m /\ j + 1 \in 1 .. m /\ i + 1 < j + 1
    BY <1>1
  <2>2. Number(batch[i + 1]) < Number(batch[j + 1])
    BY <1>2, <2>1 DEF OInv, InOrder
  <2> QED
    BY <1>3, <2>2
<1>8. InOrder'
  <2>1. \A i \in DOMAIN batch' : i + 1 \in DOMAIN batch /\ batch'[i] = batch[i + 1]
    BY <1>2, <1>3, <1>4
  <2> QED
    BY <1>7, <2>1 DEF OInv, InOrder
<1>9. \A i \in DOMAIN batch' : \E j \in DOMAIN batch : batch'[i] = batch[j]
  BY <1>2, <1>3, <1>4
<1> QED
  BY <1>2, <1>5, <1>6, <1>8, <1>9 DEF OInv, InOrder

\* The next task is sent, put behind the stream or dropped.
LEMMA HandleSendOInv == ASSUME IInv, IInv', OInv, HandleSend PROVE OInv'
<1> DEFINE h == Head(batch)
<1>1. /\ pc = "batch" /\ batch # << >> /\ batch' = Tail(batch)
      /\ tasks' = tasks /\ sends' = sends /\ flush' = flush
  BY DEF HandleSend, callVars
<1>2. /\ h \in Task /\ Number(h) <= sends /\ InOrder'
      /\ \A i \in DOMAIN batch' : Number(h) < Number(batch'[i])
      /\ \A i \in DOMAIN batch' : \E j \in DOMAIN batch : batch'[i] = batch[j]
      /\ \A i \in DOMAIN tasks : Number(h) < Number(tasks[i])
      /\ \E i \in DOMAIN batch : batch[i] = h
  BY <1>1, TailInOrder
<1> HIDE DEF h
<1>3. pc' \in {"batch", "abort"} /\ partial' = partial
  <2>1. CASE UNCHANGED <<bufferVars, kernelVars, pc>>
    BY <1>1, <2>1 DEF kernelVars
  <2>2. CASE SendLater(h)
    BY <1>1, <2>2 DEF SendLater, kernelVars
  <2>3. CASE Pending = 0 /\ SendNow(h)
    BY <1>1, <1>2, <2>3, SendNowIInv
  <2> QED
    BY <2>1, <2>2, <2>3 DEF HandleSend, Pending, h
<1>4. pc' # "abort" => Stream' = Stream \/ Stream' = Stream \o h
  <2>1. CASE UNCHANGED <<bufferVars, kernelVars, pc>>
    BY <2>1, SameStream DEF kernelVars
  <2>2. CASE SendLater(h)
    BY <1>2, <2>2, SendLaterExtends
  <2>3. CASE Pending = 0 /\ SendNow(h)
    BY <1>2, <2>3, SendNowExtends
  <2> QED
    BY <2>1, <2>2, <2>3 DEF HandleSend, Pending, h
<1>5. BatchTaken'
  BY <1>3 DEF BatchTaken
<1>6. StreamInv'
  <2> SUFFICES ASSUME ~partial', pc' # "abort"
               PROVE  Whole(Stream') /\ SentBefore' /\ FlushWhole'
    BY DEF StreamInv
  <2>1. Whole(Stream) /\ SentBefore
    BY <1>1, <1>3 DEF OInv, StreamInv
  <2>2. FlushWhole'
    BY <1>3 DEF FlushWhole
  <2>3. CASE Stream' = Stream
    <3>1. Last' = Last
      BY <2>3 DEF Last, LastOf
    <3>2. SentBefore'
      BY <1>1, <1>2, <2>1, <3>1 DEF SentBefore
    <3> QED
      BY <2>1, <2>2, <2>3, <3>2
  <2>4. CASE Stream' = Stream \o h
    <3>1. Stream \in Seq(Byte)
      BY StreamTypes
    <3>2. LastOf(Stream) < Number(h)
      BY <1>2, <2>1 DEF SentBefore, Last
    <3>3. Whole(Stream \o h) /\ LastOf(Stream \o h) = Number(h)
      BY <1>2, <2>1, <3>1, <3>2, WholeAppend
    <3>4. Last' = Number(h)
      BY <2>4, <3>3 DEF Last
    <3>5. SentBefore'
      BY <1>1, <1>2, <3>4 DEF SentBefore
    <3> QED
      BY <2>2, <2>4, <3>3, <3>5
  <2> QED
    BY <1>4, <2>3, <2>4
<1> QED
  BY <1>2, <1>5, <1>6 DEF OInv

\* handleSendTasks swaps the queue.
LEMMA SwapTasksOInv == ASSUME IInv, OInv, SwapTasks PROVE OInv'
<1>1. /\ pc = "swap" /\ pc' = "batch" /\ batch' = tasks /\ tasks' = << >>
      /\ UNCHANGED <<bufferVars, sent, sends, partial>>
  BY DEF SwapTasks, kernelVars
<1>2. DOMAIN tasks' = {}
  BY <1>1
<1>3. Stream' = Stream /\ Last' = Last
  BY <1>1, SameStream
<1>4. InOrder'
  BY <1>1, <1>2 DEF OInv, InOrder
<1>5. BatchTaken' /\ FlushWhole'
  BY <1>1 DEF BatchTaken, FlushWhole
<1>6. SentBefore => SentBefore'
  BY <1>1, <1>2, <1>3 DEF SentBefore
<1>7. StreamInv'
  BY <1>1, <1>3, <1>5, <1>6 DEF OInv, StreamInv
<1> QED
  BY <1>4, <1>5, <1>7 DEF OInv

\* The flush begins a run.
LEMMA FlushNextOInv == ASSUME OInv, FlushNext PROVE OInv'
<1>1. /\ pc = "flush"
      /\ UNCHANGED <<bufferVars, sent, sends, tasks, batch, partial>>
      /\ \/ pc' = "poll"
         \/ /\ pc' = "send"
            /\ flush' = [at |-> start, len |-> WriteBuffer!ContinuousSize, done |-> 0]
  BY DEF FlushNext, callVars, kernelVars
<1>2. Stream' = Stream /\ Last' = Last
  BY <1>1, SameStream
<1>3. FlushWhole'
  BY <1>1 DEF FlushWhole, bufferVars, WriteBuffer!ContinuousSize
<1>4. BatchTaken' /\ InOrder'
  BY <1>1 DEF OInv, BatchTaken, InOrder
<1>5. StreamInv'
  BY <1>1, <1>2, <1>3 DEF OInv, StreamInv, SentBefore
<1> QED
  BY <1>4, <1>5 DEF OInv

\* The kernel takes a run, in one go as far as the stream is claimed to be whole.
LEMMA FlushSendOInv == ASSUME IInv, IInv', OInv, FlushSend PROVE OInv'
<1>1. /\ pc = "send" /\ pc' = pc /\ (partial => partial')
      /\ UNCHANGED <<sends, tasks, batch>>
  BY DEF FlushSend, callVars
<1>2. BatchTaken' /\ InOrder'
  BY <1>1 DEF OInv, BatchTaken, InOrder
<1>3. ASSUME ~partial' PROVE Whole(Stream') /\ SentBefore' /\ FlushWhole'
  <2>1. Whole(Stream) /\ SentBefore /\ FlushWhole
    BY <1>1, <1>3 DEF OInv, StreamInv
  <2>2. Stream' = Stream /\ flush'.done = flush'.len
    BY <1>3, <2>1, FlushMoves
  <2>3. Last' = Last
    BY <2>2 DEF Last, LastOf
  <2> QED
    BY <1>1, <2>1, <2>2, <2>3 DEF SentBefore, FlushWhole
<1> QED
  BY <1>2, <1>3 DEF OInv, StreamInv

\* Every step keeps the invariant; most leave the tasks and the stream alone.
LEMMA NextOInv == IInv /\ IInv' /\ OInv /\ [Next]_vars => OInv'
<1> SUFFICES ASSUME IInv, IInv', OInv, [Next]_vars PROVE OInv'
  OBVIOUS
<1>1. CASE \E n \in Lens : SendData(n)
  BY <1>1, SendDataOInv
<1>2. CASE WriteEventfd
  BY <1>2, SameOrder DEF WriteEventfd, kernelVars
<1>3. CASE Acknowledge
  BY <1>3, SameOrder DEF Acknowledge, callVars
<1>4. CASE Reset
  BY <1>4, SameOrder DEF Reset, callVars
<1>5. CASE CloseSession
  BY <1>5, SameOrder DEF CloseSession, callVars
<1>6. CASE PollReady \/ PollInput
  BY <1>6, SameOrder DEF PollReady, PollInput, Poll, callVars
<1>7. CASE SwapTasks
  BY <1>7, SwapTasksOInv
<1>8. CASE HandleSend
  BY <1>8, HandleSendOInv
<1>9. CASE ReadEventfd
  BY <1>9, SameOrder DEF ReadEventfd, kernelVars
<1>10. CASE HandleEvent
  BY <1>10, SameOrder DEF HandleEvent, callVars, kernelVars
<1>11. CASE FlushNext
  BY <1>11, FlushNextOInv
<1>12. CASE FlushDone
  BY <1>12, SameOrder DEF FlushDone, callVars, kernelVars
<1>13. CASE FlushSend
  BY <1>13, FlushSendOInv
<1>14. CASE FlushFull
  BY <1>14, SameOrder DEF FlushFull, callVars
<1>15. CASE FlushBroken
  BY <1>15, SameOrder DEF FlushBroken, callVars, kernelVars
<1>16. CASE UNCHANGED vars
  BY <1>16, SameOrder DEF vars, callVars, kernelVars
<1> QED
  BY <1>1, <1>2, <1>3, <1>4, <1>5, <1>6, <1>7, <1>8, <1>9, <1>10, <1>11, <1>12, <1>13,
     <1>14, <1>15, <1>16 DEF Next, Reactor

\* Whole packets in the order sendData accepted them, whatever waits, is split
\* by the kernel, does not fit or is sent while the connection breaks, as long
\* as each flush is taken in one go (SlaveReactor.cpp:139-191, 374-449).
THEOREM WholeCorrect == Spec => []WholeUntilPartialFlush
<1>1. Spec => []OInv
  BY InitOInv, NextOInv, IInvHolds, PTL DEF Spec
<1>2. OInv => WholeUntilPartialFlush
  BY DEF OInv, StreamInv, Whole, WholeUntilPartialFlush, StreamIsWholePackets
<1> QED
  BY <1>1, <1>2, PTL

-----------------------------------------------------------------------------
(* The send path is the channel: sendData accepts a packet, handleSend      *)
(* sends or drops it, and no other step moves the stream.                   *)

\* The channel's vars, as the send path keeps them.
Accepted == IF Broken THEN 0 ELSE sends
Left     == IF Broken THEN << >> ELSE Stream
Queued   == IF Broken THEN << >> ELSE batch \o tasks
view     == <<Accepted, Queued, Left, Broken>>

\* The packets are queued in the order of batch and then tasks.
LEMMA QueueTypes ==
  ASSUME IInv
  PROVE  batch \in Seq(Task) /\ tasks \in Seq(Task) /\ batch \o tasks \in Seq(Task)
<1>1. batch \in Seq(Task) /\ tasks \in Seq(Task)
  BY DEF IInv, Types, TypeOK
<1> QED
  BY <1>1, ConcatProperties

\* Appending to the queue of tasks is appending to all that is queued.
LEMMA QueueAppend ==
  ASSUME IInv, NEW bytes \in Task
  PROVE  batch \o Append(tasks, bytes) = Append(batch \o tasks, bytes)
<1>1. batch \in Seq(Task) /\ tasks \in Seq(Task) /\ batch \o tasks \in Seq(Task)
  BY QueueTypes
<1>2. <<bytes>> \in Seq(Task)
  OBVIOUS
<1>3. Append(tasks, bytes) = tasks \o <<bytes>>
  BY <1>1, AppendIsConcat
<1>4. Append(batch \o tasks, bytes) = (batch \o tasks) \o <<bytes>>
  BY <1>1, AppendIsConcat
<1>5. (batch \o tasks) \o <<bytes>> = batch \o (tasks \o <<bytes>>)
  BY <1>1, <1>2, ConcatAssociative
<1> QED
  BY <1>3, <1>4, <1>5, Zenon

\* A sequence is its head before its tail.
LEMMA HeadBeforeTail ==
  ASSUME NEW S, NEW s \in Seq(S), s # << >>
  PROVE  Head(s) \in S /\ Tail(s) \in Seq(S) /\ s = <<Head(s)>> \o Tail(s)
<1>1. Len(s) \in Nat /\ 1 \in 1 .. Len(s) /\ Len(s) \in 1 .. Len(s)
  BY EmptySeq
<1>2. SubSeq(s, 1, Len(s)) = <<s[1]>> \o SubSeq(s, 1 + 1, Len(s))
  BY <1>1, SubSeqRecursiveFirst
<1>3. SubSeq(s, 1, Len(s)) = s
  BY SubSeqFull
<1>4. Tail(s) = SubSeq(s, 2, Len(s))
  BY TailIsSubSeq
<1>5. 1 + 1 = 2 /\ s[1] = Head(s)
  OBVIOUS
<1>6. s = <<Head(s)>> \o Tail(s)
  BY <1>2, <1>3, <1>4, <1>5
<1> QED
  BY <1>6, HeadTailProperties

\* The head and the tail of two sequences, one behind the other.
LEMMA HeadTailConcat ==
  ASSUME NEW S, NEW s \in Seq(S), NEW t \in Seq(S), s # << >>
  PROVE  s \o t # << >> /\ Head(s \o t) = Head(s) /\ Tail(s \o t) = Tail(s) \o t
<1>1. Head(s) \in S /\ Tail(s) \in Seq(S) /\ s = <<Head(s)>> \o Tail(s)
  BY HeadBeforeTail
<1>2. s \o t \in Seq(S) /\ s \o t # << >>
  BY ConcatProperties, ConcatEqualIffEmpty
<1>3. Head(s \o t) = Head(s)
  <2>1. Len(s) \in Nat /\ Len(s) >= 1 /\ Len(t) \in Nat
    BY EmptySeq
  <2>2. (s \o t)[1] = s[1]
    BY <2>1, ConcatProperties
  <2> QED
    BY <1>2, <2>2
<1>4. Tail(s \o t) \in Seq(S) /\ s \o t = <<Head(s \o t)>> \o Tail(s \o t)
  BY <1>2, HeadBeforeTail
<1> DEFINE one == <<Head(s)>>
<1>5. one \in Seq(S)
  BY <1>1
<1> HIDE DEF one
<1>6. Tail(s) \o t \in Seq(S) /\ (one \o Tail(s)) \o t = one \o (Tail(s) \o t)
  BY <1>1, <1>5, ConcatProperties, ConcatAssociative
<1>7. one \o Tail(s \o t) = one \o (Tail(s) \o t)
  BY <1>1, <1>3, <1>4, <1>6 DEF one
<1>8. Tail(s \o t) = Tail(s) \o t
  BY <1>4, <1>5, <1>6, <1>7, ConcatSimplifications, Zenon
<1> QED
  BY <1>2, <1>3, <1>8

\* The first of the batch is the first of all that is queued.
LEMMA QueueTail ==
  ASSUME IInv, batch # << >>
  PROVE  /\ batch \o tasks # << >>
         /\ Head(batch \o tasks) = Head(batch)
         /\ Tail(batch \o tasks) = Tail(batch) \o tasks
  BY QueueTypes, HeadTailConcat

\* A step that leaves the queue and the stream alone.
LEMMA QuietStep ==
  ASSUME UNCHANGED <<bufferVars, sent, sends, tasks, batch, partial>>,
         pc' = "abort" <=> pc = "abort"
  PROVE  UNCHANGED view
<1>1. Stream' = Stream
  BY SameStream
<1>2. Broken' = Broken
  BY DEF Broken
<1> QED
  BY <1>1, <1>2, Zenon DEF view, Accepted, Left, Queued

\* A step that breaks the channel.
LEMMA BreakStep == Broken' => Channel!Break
  BY Zenon DEF Channel!Break, Broken

\* Initially nothing is accepted, queued or sent.
LEMMA InitIsChannel == Init => Channel!Init
<1> SUFFICES ASSUME Init PROVE Channel!Init
  OBVIOUS
<1>1. sends = 0 /\ batch = << >> /\ tasks = << >> /\ ~Broken
  BY DEF Init, Broken
<1>2. Stream = << >>
  <2>1. IInv /\ Pending = 0
    BY InitIInv DEF Init, WriteBuffer!Init, Pending, WriteBuffer!DataLength
  <2>2. Len(WriteBuffer!Contents) = 0 /\ WriteBuffer!Contents \in Seq(Byte)
    BY <2>1, StreamTypes
  <2>3. WriteBuffer!Contents = << >> /\ sent = << >>
    BY <2>2, EmptySeq DEF Init
  <2> QED
    BY <2>3 DEF Stream
<1>3. batch \o tasks = << >>
  BY <1>1
<1> QED
  BY <1>1, <1>2, <1>3 DEF Channel!Init, Broken

\* sendData accepts its packet, if the channel is not broken.
LEMMA SendDataIsAccept ==
  ASSUME IInv, NEW n \in Lens, SendData(n), ~Broken
  PROVE  Channel!Accept
<1> DEFINE packets == [k \in 1 .. MaxSend |-> {Data(k, len) : len \in Lens}]
           new == Data(sends + 1, n)
<1>1. sends + 1 \in 1 .. MaxSend
  BY Constants DEF IInv, Types, TypeOK, SendData
<1>2. new \in Task /\ new \in packets[sends + 1] /\ sends + 1 \in DOMAIN packets
  BY <1>1 DEF Task
<1>3. /\ sends' = sends + 1 /\ tasks' = Append(tasks, new) /\ batch' = batch
      /\ UNCHANGED <<bufferVars, sent, partial, pc>>
  BY DEF SendData, kernelVars
<1>4. Stream' = Stream
  BY <1>3, SameStream
<1>5. ~Broken'
  BY <1>3 DEF Broken
<1> HIDE DEF new, packets
<1>6. batch' \o tasks' = Append(batch \o tasks, new)
  BY <1>2, <1>3, QueueAppend
<1>7. /\ Accepted = sends /\ Accepted' = sends + 1
      /\ Queued = batch \o tasks /\ Queued' = Append(batch \o tasks, new)
      /\ Left' = Left
  BY <1>3, <1>4, <1>5, <1>6 DEF Accepted, Queued, Left
<1>8. \E packet \in packets[Accepted + 1] : Queued' = Append(Queued, packet)
  BY <1>2, <1>7
<1>9. /\ ~Broken /\ Accepted + 1 \in DOMAIN packets
      /\ Accepted' = Accepted + 1
      /\ UNCHANGED <<Left, Broken>>
  <2>1. Broken' = Broken
    BY <1>5, Zenon DEF Broken
  <2>2. Accepted + 1 \in DOMAIN packets /\ Accepted' = Accepted + 1
    BY <1>2, <1>7, Zenon
  <2> QED
    BY <1>7, <2>1, <2>2, Zenon
<1> QED
  BY <1>8, <1>9, Zenon DEF Channel!Accept, Accepted, Queued, Left, packets

\* handleSend sends the first packet or drops it, if it does not end the
\* process.
LEMMA HandleSendIsLeave ==
  ASSUME IInv, IInv', HandleSend, ~Broken, ~Broken'
  PROVE  Channel!Leave \/ Channel!Drop
<1> DEFINE h == Head(batch)
<1>1. /\ batch # << >> /\ batch' = Tail(batch) /\ tasks' = tasks /\ sends' = sends
      /\ pc' # "abort"
  BY DEF HandleSend, callVars, Broken
<1>2. h \in Task
  BY <1>1, QueueTypes, HeadTailProperties
<1> HIDE DEF h
<1>3. Stream' = Stream \/ Stream' = Stream \o h
  <2>1. CASE UNCHANGED <<bufferVars, kernelVars, pc>>
    BY <2>1, SameStream DEF kernelVars
  <2>2. CASE SendLater(h)
    BY <1>2, <2>2, SendLaterExtends
  <2>3. CASE Pending = 0 /\ SendNow(h)
    BY <1>1, <1>2, <2>3, SendNowExtends
  <2> QED
    BY <2>1, <2>2, <2>3 DEF HandleSend, Pending, h
<1>4. /\ batch \o tasks # << >>
      /\ Head(batch \o tasks) = h
      /\ batch' \o tasks' = Tail(batch \o tasks)
  BY <1>1, QueueTail DEF h
<1>5. /\ Accepted' = Accepted /\ Broken' = Broken
      /\ Queued # << >> /\ h = Head(Queued) /\ Queued' = Tail(Queued)
      /\ Left = Stream /\ Left' = Stream'
  <2>1. Broken' = Broken
    BY Zenon DEF Broken
  <2> QED
    BY <1>1, <1>4, <2>1 DEF Accepted, Queued, Left
<1>6. CASE Stream' = Stream
  <2>1. Left' = Left
    BY <1>5, <1>6, Zenon
  <2> QED
    BY <1>5, <2>1, Zenon DEF Channel!Drop, Accepted, Queued, Left
<1>7. CASE Stream' = Stream \o h
  <2>1. Left' = Left \o Head(Queued)
    BY <1>5, <1>7, Zenon
  <2> QED
    BY <1>5, <2>1, Zenon DEF Channel!Leave, Accepted, Queued, Left
<1> QED
  BY <1>3, <1>6, <1>7

\* The batch is what was queued, and nothing else: the last one is used up.
LEMMA SwapTasksIsQuiet == ASSUME IInv, OInv, SwapTasks PROVE UNCHANGED view
<1>1. /\ batch = << >> /\ batch' = tasks /\ tasks' = << >>
      /\ UNCHANGED <<bufferVars, sent, sends, partial>>
      /\ pc # "abort" /\ pc' # "abort"
  BY DEF SwapTasks, kernelVars, OInv, BatchTaken
<1>2. batch' \o tasks' = batch \o tasks
  <2>1. tasks \in Seq(Task)
    BY QueueTypes
  <2>2. tasks \o << >> = tasks /\ << >> \o tasks = tasks
    BY <2>1, ConcatEmptySeq
  <2> QED
    BY <1>1, <2>2
<1>3. Stream' = Stream /\ Broken' = Broken
  BY <1>1, SameStream DEF Broken
<1> QED
  BY <1>1, <1>2, <1>3, Zenon DEF view, Accepted, Left, Queued

\* A flush moves bytes that have left already as far as a caller can tell.
LEMMA FlushSendIsQuiet ==
  ASSUME IInv, IInv', OInv, FlushSend, ~Broken'
  PROVE  UNCHANGED view
<1>1. /\ pc = "send" /\ pc' = "send" /\ ~partial' /\ ~partial
      /\ UNCHANGED <<sends, tasks, batch>>
  BY DEF FlushSend, callVars, Broken
<1>2. FlushWhole
  BY <1>1 DEF OInv, StreamInv
<1>3. Stream' = Stream
  BY <1>1, <1>2, FlushMoves
<1>4. Broken' = Broken
  BY <1>1 DEF Broken
<1> QED
  BY <1>1, <1>3, <1>4, Zenon DEF view, Accepted, Left, Queued

\* A channel stays broken.
LEMMA BrokenStays == IInv /\ [Next]_vars /\ Broken => Broken'
<1> SUFFICES ASSUME IInv, [Next]_vars, Broken PROVE Broken'
  OBVIOUS
<1>1. CASE HandleSend
  <2>1. pc = "batch" /\ partial
    BY <1>1 DEF HandleSend, Broken
  <2>2. partial' = partial
    <3>1. CASE UNCHANGED <<bufferVars, kernelVars, pc>> \/ SendLater(Head(batch))
      BY <3>1 DEF SendLater, kernelVars
    <3>2. CASE SendNow(Head(batch))
      BY <3>2 DEF SendNow
    <3> QED
      BY <1>1, <3>1, <3>2 DEF HandleSend
  <2> QED
    BY <2>1, <2>2 DEF Broken
<1>2. CASE FlushSend
  BY <1>2 DEF FlushSend, Broken
<1>3. CASE UNCHANGED vars
  BY <1>3 DEF vars, kernelVars, Broken
<1>4. CASE \/ \E n \in Lens : SendData(n)
           \/ WriteEventfd \/ Acknowledge \/ Reset \/ CloseSession
  BY <1>4 DEF SendData, WriteEventfd, Acknowledge, Reset, CloseSession, kernelVars, Broken
<1>5. CASE \/ PollReady \/ PollInput \/ SwapTasks \/ ReadEventfd \/ HandleEvent
           \/ FlushNext \/ FlushDone \/ FlushFull \/ FlushBroken
  BY <1>5 DEF PollReady, PollInput, Poll, SwapTasks, ReadEventfd, HandleEvent, FlushNext,
     FlushDone, FlushFull, FlushBroken, kernelVars, Broken
<1> QED
  BY <1>1, <1>2, <1>3, <1>4, <1>5 DEF Next, Reactor

\* Every step is one of the channel's, or none.
LEMMA NextIsChannel == IInv /\ IInv' /\ OInv /\ [Next]_vars => [Channel!Next]_view
<1> SUFFICES ASSUME IInv, IInv', OInv, [Next]_vars PROVE [Channel!Next]_view
  OBVIOUS
<1>1. CASE Broken'
  BY <1>1, BreakStep DEF Channel!Next
<1>2. CASE ~Broken'
  <2>1. ~Broken
    BY <1>2, BrokenStays
  <2>2. CASE \E n \in Lens : SendData(n)
    BY <2>1, <2>2, SendDataIsAccept DEF Channel!Next
  <2>3. CASE HandleSend
    BY <1>2, <2>1, <2>3, HandleSendIsLeave DEF Channel!Next
  <2>4. CASE SwapTasks
    BY <2>4, SwapTasksIsQuiet
  <2>5. CASE FlushSend
    BY <1>2, <2>5, FlushSendIsQuiet
  <2>6. CASE WriteEventfd \/ Acknowledge \/ Reset \/ CloseSession
    BY <2>6, QuietStep DEF WriteEventfd, Acknowledge, Reset, CloseSession, callVars, kernelVars
  <2>7. CASE PollReady \/ PollInput \/ ReadEventfd \/ HandleEvent
    BY <2>7, QuietStep DEF PollReady, PollInput, Poll, ReadEventfd, HandleEvent, callVars,
       kernelVars
  <2>8. CASE FlushNext \/ FlushDone \/ FlushFull \/ FlushBroken
    BY <2>8, QuietStep DEF FlushNext, FlushDone, FlushFull, FlushBroken, callVars, kernelVars
  <2>9. CASE UNCHANGED vars
    BY <2>9, QuietStep DEF vars, callVars, kernelVars
  <2> QED
    BY <2>2, <2>3, <2>4, <2>5, <2>6, <2>7, <2>8, <2>9 DEF Next, Reactor
<1> QED
  BY <1>1, <1>2

\* The way out implements the channel: what leaves is the packets sendData
\* accepted, byte for byte and in that order, less those dropped as a whole,
\* until a flush is taken in part or the process ends (SlaveReactor.cpp:139-191,
\* 276-327, 354-449).
THEOREM ChannelCorrect == Spec => ChannelSpec
<1>1. Spec => [](IInv /\ OInv)
  BY InitIInv, NextIInv, InitOInv, NextOInv, PTL DEF Spec
<1>2. [Channel!Next]_view <=> [Channel!Next]_(Channel!vars)
  BY DEF view, Accepted, Queued, Left, Channel!vars, Broken
<1> QED
  BY <1>1, <1>2, InitIsChannel, NextIsChannel, PTL DEF Spec, ChannelSpec, Channel!Spec
=============================================================================
