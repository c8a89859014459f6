----------------------------- MODULE RingBuffer -----------------------------
(***************************************************************************)
(* csm-utilities/RingBuffer.{h,cpp}: the per-session read and write buffer. *)
(* m_startOffset and m_endOffset delimit the used bytes [start, end),       *)
(* wrapping at m_size; Reserved bytes always stay unused so that a full     *)
(* buffer is told from an empty one.                                        *)
(*                                                                          *)
(* A write is the pair of calls its users make under the session's mutex:   *)
(* writeData (or a copy into getBufferAndLengthForWrite's window) followed  *)
(* by increaseUsedSpace.                                                    *)
(***************************************************************************)
EXTENDS Integers, Sequences

CONSTANTS
  Size,      \* m_size
  Byte,      \* the values of a byte
  Zero       \* what m_buffer.resize() fills the buffer with

Reserved == 2      \* c_reservedSpace

ASSUME SizeAssumption == Size \in Nat /\ Size > Reserved
ASSUME ByteAssumption == Zero \in Byte

VARIABLES
  start,     \* m_startOffset
  end,       \* m_endOffset
  buffer     \* m_buffer

vars == <<start, end, buffer>>

Slot == 0 .. Size - 1

-----------------------------------------------------------------------------
(* The queries.                                                            *)

DataLength == IF end >= start THEN end - start ELSE end + (Size - start)

SpaceUnreserved ==                                           \* mutant
  IF start > end THEN start - end - Reserved ELSE (Size - end) + start
Space ==
  CASE start = end -> Size - Reserved
    [] start < end -> IF (end + Reserved) % Size = start
                        THEN 0
                        ELSE (Size - end) + start - Reserved
    [] OTHER       -> start - end - Reserved

\* memcpy(to + at, bytes, Len(bytes)); bytes past the last slot are lost.
CopyTo(to, at, bytes) ==
  [i \in Slot |-> IF at <= i /\ i < at + Len(bytes) THEN bytes[i - at + 1]
                                                    ELSE to[i]]

\* memcpy of the n bytes at slot "from".
CopyFrom(from, n) == [i \in 1 .. n |-> buffer[from + i - 1]]

ReadDataFromStart(n, offset) ==                              \* mutant
  IF start < end \/ n <= Size - start
    THEN CopyFrom(start, n)
    ELSE CopyFrom(start, Size - start) \o CopyFrom(0, n - (Size - start))

\* readData(n, offset, data) for a data vector of n bytes.
ReadData(n, offset) ==
  LET first == Size - (start + offset)     \* firstCopySize, when not negative
  IN  CASE start < end                -> CopyFrom(start + offset, n)
        [] start >= end /\ first >= 0 /\ n > first
                                      -> CopyFrom(start + offset, first)
                                           \o CopyFrom(0, n - first)
        [] OTHER                      -> CopyFrom((start + offset) % Size, n)

WriteWindowToTheEnd ==                                       \* mutant
  IF start <= end THEN Size - end ELSE start - end - Reserved

\* The length getBufferAndLengthForWrite reports for the window at slot "end".
WriteWindow ==
  CASE start <= end /\ start >= Reserved -> Size - end
    [] start <= end /\ start < Reserved  -> Size - (Reserved - start) - end
    [] OTHER                             -> start - end - Reserved

\* getBufferForRead(n, _) succeeds: the n oldest bytes are contiguous.
ReadInPlaceOk(n) ==
  /\ DataLength >= n
  /\ start < end \/ Size - start >= n

\* The size getContinuousData reports for the run of bytes at slot "start",
\* computed in a std::size_t of which TLA+ shows the mathematical value.
ContinuousSize ==
  CASE start < end                     -> end - start
    [] start >= end /\ end <= Reserved -> Size - (Reserved - end) - start
    [] OTHER                           -> Size - start

-----------------------------------------------------------------------------
(* The updates.                                                            *)

Init ==
  /\ start = 0
  /\ end = 0
  /\ buffer = [i \in Slot |-> Zero]

IncreaseUnwrapped(n) ==                                      \* mutant
  n <= Space /\ end' = end + n /\ UNCHANGED start

IncreaseUsedSpace(n) ==
  /\ n <= Space
  /\ end' = (end + n) % Size
  /\ UNCHANGED start

WriteUnsplit(bytes) ==                                       \* mutant
  /\ Len(bytes) <= Space
  /\ buffer' = CopyTo(buffer, end, bytes)
  /\ IncreaseUsedSpace(Len(bytes))

\* writeData(bytes) and increaseUsedSpace(Len(bytes)).
Write(bytes) ==
  LET tail == Size - end                   \* spaceAfterEndOffset
  IN  /\ Len(bytes) <= Space
      /\ buffer' = IF start > end \/ tail > Len(bytes)
                     THEN CopyTo(buffer, end, bytes)
                     ELSE CopyTo(CopyTo(buffer, end, SubSeq(bytes, 1, tail)),
                                 0, SubSeq(bytes, tail + 1, Len(bytes)))
      /\ IncreaseUsedSpace(Len(bytes))

\* Filling part of getBufferAndLengthForWrite's window in place.
WriteInPlace(bytes) ==
  /\ Space # 0
  /\ Len(bytes) <= WriteWindow
  /\ buffer' = CopyTo(buffer, end, bytes)
  /\ IncreaseUsedSpace(Len(bytes))

DecreaseStartOnly(n) ==                                      \* mutant
  /\ n <= DataLength
  /\ start' = IF DataLength = n THEN 0 ELSE (start + n) % Size
  /\ UNCHANGED <<end, buffer>>

\* decreaseUsedSpace(n): an emptied buffer starts over at slot 0.
DecreaseUsedSpace(n) ==
  /\ n <= DataLength
  /\ LET next == (start + n) % Size
     IN  IF DataLength = n \/ next = end
           THEN start' = 0 /\ end' = 0
           ELSE start' = next /\ UNCHANGED end
  /\ UNCHANGED buffer

Clear ==
  /\ start' = 0
  /\ end' = 0
  /\ UNCHANGED buffer

Bytes == UNION {[1 .. n -> Byte] : n \in 1 .. Size}   \* what a caller may write

Next ==
  \/ \E bytes \in Bytes : Write(bytes) \/ WriteInPlace(bytes)
  \/ \E n \in 1 .. Size : DecreaseUsedSpace(n)
  \/ Clear

Spec == Init /\ [][Next]_vars

-----------------------------------------------------------------------------
(* Properties.                                                             *)

\* Type invariant: both offsets are slots, the buffer keeps its size.
TypeOK ==
  /\ start \in Slot
  /\ end \in Slot
  /\ buffer \in [Slot -> Byte]

\* space() and dataLength() always add up to the usable capacity, so no
\* sequence of writes and reads ever makes the unsigned subtraction in
\* space() wrap, or lets a full buffer look empty (RingBuffer.cpp:117-150).
CapacityKept ==
  /\ DataLength \in 0 .. Size - Reserved
  /\ Space = Size - Reserved - DataLength

\* The bytes in the buffer, oldest first.
Contents == [i \in 1 .. DataLength |-> buffer[(start + i - 1) % Size]]

\* A write appends exactly the bytes it is given, whether or not it is split
\* at the end of the vector (RingBuffer.cpp:29-44).
WriteAppends ==
  [][\A bytes \in Bytes : Write(bytes) => Contents' = Contents \o bytes]_vars

\* readData(n, offset) returns the n bytes that follow the first "offset"
\* ones, whichever of its three copies the wrap-around selects
\* (RingBuffer.cpp:60-79; the decoder reads a payload behind its header so).
ReadDataReadsContents ==
  \A offset \in 0 .. DataLength : \A n \in 1 .. DataLength - offset :
     ReadData(n, offset) = SubSeq(Contents, offset + 1, offset + n)

\* A window handed out for writing in place lies inside the vector, is not
\* empty and holds no unread byte (RingBuffer.cpp:158-187).
WriteWindowIsFree ==
  Space # 0 => /\ WriteWindow \in 1 .. Space
               /\ end + WriteWindow <= Size

\* The ring buffer implements the bounded byte queue.
Queue == INSTANCE ByteQueue WITH queue <- Contents, Capacity <- Size - Reserved
FifoSpec == Queue!Spec
=============================================================================
