-------------------------- MODULE RingBufferProofs --------------------------
(***************************************************************************)
(* What holds of csm-utilities/RingBuffer for every buffer size and every   *)
(* alphabet.  The inductive invariant is the type invariant with the fact   *)
(* that the used bytes leave the reserved ones free; everything else about  *)
(* lengths and windows is arithmetic that follows from it.                  *)
(***************************************************************************)
EXTENDS RingBuffer, SequenceTheorems, TLAPS

IInv == TypeOK /\ DataLength <= Size - Reserved

-----------------------------------------------------------------------------
\* Every offset the code reduces modulo m_size is below 2 * m_size: the
\* remainder is the offset itself or the offset less m_size.
LEMMA WrapOnce ==
  \A x \in 0 .. 2 * Size - 1 : x % Size = IF x < Size THEN x ELSE x - Size
  BY SizeAssumption DEF Reserved

\* What a caller may write is a non-empty sequence of bytes.
LEMMA BytesAreSequences ==
  \A bytes \in Bytes : bytes \in Seq(Byte) /\ Len(bytes) \in 1 .. Size
<1> SUFFICES ASSUME NEW bytes \in Bytes
             PROVE  bytes \in Seq(Byte) /\ Len(bytes) \in 1 .. Size
  OBVIOUS
<1>1. PICK n \in 1 .. Size : bytes \in [1 .. n -> Byte]
  BY DEF Bytes
<1> QED
  BY <1>1, SizeAssumption

\* memcpy into the buffer leaves a buffer of bytes.
LEMMA CopyToType ==
  ASSUME NEW to \in [Slot -> Byte], NEW at \in Nat, NEW bytes \in Seq(Byte)
  PROVE  CopyTo(to, at, bytes) \in [Slot -> Byte]
<1>1. ASSUME NEW i \in Slot, at <= i, i < at + Len(bytes)
      PROVE  bytes[i - at + 1] \in Byte
  <2>1. i - at + 1 \in 1 .. Len(bytes)
    BY <1>1, SizeAssumption DEF Slot
  <2> QED
    BY <2>1
<1> QED
  BY <1>1 DEF CopyTo

\* In every state of the invariant, used and free bytes add up to the usable
\* capacity: CapacityKept, of which the other facts are consequences.
LEMMA CapacityFromIInv == IInv => CapacityKept
<1> SUFFICES ASSUME IInv PROVE CapacityKept
  OBVIOUS
<1>1. /\ Size \in Nat /\ Size > 2
      /\ start \in 0 .. Size - 1 /\ end \in 0 .. Size - 1
      /\ DataLength <= Size - 2
  BY SizeAssumption DEF IInv, TypeOK, Slot, Reserved
<1>2. (end + 2) % Size = IF end + 2 < Size THEN end + 2 ELSE end + 2 - Size
  BY <1>1, WrapOnce
<1>3. CASE start = end
  BY <1>1, <1>3 DEF CapacityKept, DataLength, Space, Reserved
<1>4. CASE start < end
  BY <1>1, <1>2, <1>4 DEF CapacityKept, DataLength, Space, Reserved
<1>5. CASE start > end
  BY <1>1, <1>5 DEF CapacityKept, DataLength, Space, Reserved
<1> QED
  BY <1>1, <1>3, <1>4, <1>5

\* increaseUsedSpace within the free space adds to the used bytes.
LEMMA IncreaseKeepsIInv ==
  ASSUME IInv, NEW n \in Nat, IncreaseUsedSpace(n), buffer' \in [Slot -> Byte]
  PROVE  IInv'
<1>1. /\ Size \in Nat /\ Size > 2
      /\ start \in 0 .. Size - 1 /\ end \in 0 .. Size - 1
  BY SizeAssumption DEF IInv, TypeOK, Slot, Reserved
<1>2. n <= Size - 2 - DataLength /\ DataLength \in 0 .. Size - 2
  BY CapacityFromIInv DEF CapacityKept, IncreaseUsedSpace, Reserved
<1>3. end' = (IF end + n < Size THEN end + n ELSE end + n - Size) /\ start' = start
  <2>1. end + n \in 0 .. 2 * Size - 1
    BY <1>1, <1>2
  <2>2. (end + n) % Size = IF end + n < Size THEN end + n ELSE end + n - Size
    BY <1>1, <2>1, WrapOnce
  <2>3. end' = (end + n) % Size /\ start' = start
    BY DEF IncreaseUsedSpace
  <2> QED
    BY <2>2, <2>3
<1>4. start' \in 0 .. Size - 1 /\ end' \in 0 .. Size - 1
  BY <1>1, <1>2, <1>3
<1>5. DataLength' <= Size - 2
  BY <1>1, <1>2, <1>3 DEF DataLength
<1> QED
  BY <1>4, <1>5 DEF IInv, TypeOK, Slot, Reserved

-----------------------------------------------------------------------------
\* The invariant holds of a new buffer.
LEMMA InitIInv == Init => IInv
  BY SizeAssumption, ByteAssumption
  DEF Init, IInv, TypeOK, Slot, DataLength, Reserved

\* Every call preserves the invariant.
LEMMA NextIInv == IInv /\ [Next]_vars => IInv'
<1> SUFFICES ASSUME IInv, [Next]_vars PROVE IInv'
  OBVIOUS
<1>1. ASSUME NEW bytes \in Bytes, Write(bytes) PROVE IInv'
  <2>1. bytes \in Seq(Byte) /\ Len(bytes) \in Nat
    BY BytesAreSequences
  <2>2. end \in Nat /\ Size - end \in Nat /\ buffer \in [Slot -> Byte]
    BY SizeAssumption DEF IInv, TypeOK, Slot
  <2>3. CASE start > end \/ Size - end > Len(bytes)
    <3>1. buffer' = CopyTo(buffer, end, bytes)
      BY <1>1, <2>3 DEF Write
    <3>2. buffer' \in [Slot -> Byte]
      BY <2>1, <2>2, <3>1, CopyToType
    <3> QED
      BY <1>1, <2>1, <3>2, IncreaseKeepsIInv DEF Write
  <2>4. CASE ~(start > end \/ Size - end > Len(bytes))
    <3> DEFINE head == SubSeq(bytes, 1, Size - end)
               rest == SubSeq(bytes, Size - end + 1, Len(bytes))
    <3>1. buffer' = CopyTo(CopyTo(buffer, end, head), 0, rest)
      BY <1>1, <2>4 DEF Write
    <3>2. Size - end <= Len(bytes)
      BY <2>1, <2>2, <2>4
    <3>3. head \in Seq(Byte)
      BY <2>1, <2>2, <3>2
    <3>4. rest \in Seq(Byte)
      BY <2>1, <2>2, <3>2
    <3>5. CopyTo(buffer, end, head) \in [Slot -> Byte]
      BY <2>2, <3>3, CopyToType
    <3> HIDE DEF head, rest
    <3>6. buffer' \in [Slot -> Byte]
      BY <3>1, <3>4, <3>5, CopyToType
    <3> QED
      BY <1>1, <2>1, <3>6, IncreaseKeepsIInv DEF Write
  <2> QED
    BY <2>3, <2>4
<1>2. ASSUME NEW bytes \in Bytes, WriteInPlace(bytes) PROVE IInv'
  <2>1. bytes \in Seq(Byte) /\ Len(bytes) \in Nat
    BY BytesAreSequences
  <2>2. end \in Nat /\ buffer \in [Slot -> Byte]
    BY SizeAssumption DEF IInv, TypeOK, Slot
  <2>3. buffer' \in [Slot -> Byte]
    BY <1>2, <2>1, <2>2, CopyToType DEF WriteInPlace
  <2> QED
    BY <1>2, <2>1, <2>3, IncreaseKeepsIInv DEF WriteInPlace
<1>3. ASSUME NEW n \in 1 .. Size, DecreaseUsedSpace(n) PROVE IInv'
  <2>1. /\ Size \in Nat /\ Size > 2
        /\ start \in 0 .. Size - 1 /\ end \in 0 .. Size - 1
        /\ DataLength <= Size - 2
        /\ buffer' \in [Slot -> Byte]
    BY <1>3, SizeAssumption DEF IInv, TypeOK, Slot, Reserved, DecreaseUsedSpace
  <2>2. (start + n) % Size = IF start + n < Size THEN start + n ELSE start + n - Size
    BY <2>1, WrapOnce
  <2>3. CASE start' = 0 /\ end' = 0
    BY <2>1, <2>3 DEF IInv, TypeOK, Slot, DataLength, Reserved
  <2>4. CASE start' = (start + n) % Size /\ end' = end
    <3>1. n <= DataLength
      BY <1>3 DEF DecreaseUsedSpace
    <3>2. start' \in 0 .. Size - 1
      BY <2>1, <2>2, <2>4
    <3>3. DataLength' <= Size - 2
      BY <2>1, <2>2, <2>4, <3>1 DEF DataLength
    <3> QED
      BY <2>1, <2>4, <3>2, <3>3 DEF IInv, TypeOK, Slot, Reserved
  <2> QED
    BY <1>3, <2>3, <2>4 DEF DecreaseUsedSpace
<1>4. CASE Clear
  BY <1>4, SizeAssumption DEF Clear, IInv, TypeOK, Slot, DataLength, Reserved
<1>5. CASE UNCHANGED vars
  BY <1>5 DEF vars, IInv, TypeOK, DataLength
<1> QED
  BY <1>1, <1>2, <1>3, <1>4, <1>5 DEF Next

\* The inductive invariant holds in every reachable state.
LEMMA IInvHolds == Spec => []IInv
<1> QED
  BY InitIInv, NextIInv, PTL DEF Spec

-----------------------------------------------------------------------------
\* Both offsets stay inside the vector and the vector keeps its size.
THEOREM TypeCorrect == Spec => []TypeOK
<1>1. IInv => TypeOK
  BY DEF IInv
<1> QED
  BY <1>1, IInvHolds, PTL

\* No sequence of calls makes space() and dataLength() disagree on how full
\* the buffer is, nor wraps the unsigned subtractions in them.
THEOREM CapacityCorrect == Spec => []CapacityKept
  BY CapacityFromIInv, IInvHolds, PTL

\* A window for writing in place never covers an unread byte and never
\* leaves the vector.
THEOREM WriteWindowCorrect == Spec => []WriteWindowIsFree
<1>1. IInv => WriteWindowIsFree
  <2> SUFFICES ASSUME IInv PROVE WriteWindowIsFree
    OBVIOUS
  <2>1. /\ Size \in Nat /\ Size > 2
        /\ start \in 0 .. Size - 1 /\ end \in 0 .. Size - 1
    BY SizeAssumption DEF IInv, TypeOK, Slot, Reserved
  <2>2. DataLength \in 0 .. Size - 2 /\ Space = Size - 2 - DataLength
    BY CapacityFromIInv DEF CapacityKept, Reserved
  <2>3. CASE start <= end
    BY <2>1, <2>2, <2>3 DEF WriteWindowIsFree, WriteWindow, DataLength, Reserved
  <2>4. CASE start > end
    BY <2>1, <2>2, <2>4 DEF WriteWindowIsFree, WriteWindow, DataLength, Reserved
  <2> QED
    BY <2>1, <2>3, <2>4
<1> QED
  BY <1>1, IInvHolds, PTL

-----------------------------------------------------------------------------
(* What the bytes in the ring buffer are, for every buffer size and every  *)
(* alphabet: reading returns them, a write appends to them, and the buffer *)
(* implements the bounded FIFO of module ByteQueue.                        *)

\* The slot k places after slot s.
At(s, k) == IF s + k < Size THEN s + k ELSE s + k - Size

\* A sequence is the function of its elements.
LEMMA SequenceIsFunction ==
  \A s \in Seq(Byte) : s = [k \in 1 .. Len(s) |-> s[k]]
  OBVIOUS

\* WrapOnce for a given offset.
LEMMA WrapsOnce ==
  ASSUME NEW x, x \in 0 .. 2 * Size - 1
  PROVE  x % Size = IF x < Size THEN x ELSE x - Size
  BY WrapOnce

\* The invariant with the definitions of its ranges expanded.
LEMMA Ranges ==
  ASSUME IInv
  PROVE  /\ Size \in Nat /\ Size > 2
         /\ start \in 0 .. Size - 1 /\ end \in 0 .. Size - 1
         /\ DataLength \in 0 .. Size - 2
         /\ Space = Size - 2 - DataLength
         /\ buffer \in [0 .. Size - 1 -> Byte]
         /\ At(start, DataLength) = end
<1>1. /\ Size \in Nat /\ Size > 2
      /\ start \in 0 .. Size - 1 /\ end \in 0 .. Size - 1
      /\ buffer \in [0 .. Size - 1 -> Byte]
  BY SizeAssumption DEF IInv, TypeOK, Slot, Reserved
<1>2. DataLength \in 0 .. Size - 2 /\ Space = Size - 2 - DataLength
  BY CapacityFromIInv DEF CapacityKept, Reserved
<1> QED
  BY <1>1, <1>2 DEF At, DataLength

\* The bytes in the buffer by the slots they are in.
ContentsBySlot ==
  /\ Contents \in [1 .. DataLength -> Byte]
  /\ Contents \in Seq(Byte)
  /\ Len(Contents) = DataLength
  /\ Contents = [i \in 1 .. DataLength |-> buffer[At(start, i - 1)]]
  /\ \A i \in 1 .. DataLength : At(start, i - 1) \in 0 .. Size - 1

LEMMA ContentsAre == IInv => ContentsBySlot
<1> SUFFICES ASSUME IInv PROVE ContentsBySlot
  OBVIOUS
<1>1. /\ Size \in Nat /\ Size > 2 /\ start \in 0 .. Size - 1
      /\ DataLength \in 0 .. Size - 2 /\ buffer \in [0 .. Size - 1 -> Byte]
  BY Ranges
<1>2. ASSUME NEW i \in 1 .. DataLength
      PROVE  /\ (start + i - 1) % Size = At(start, i - 1)
             /\ At(start, i - 1) \in 0 .. Size - 1
             /\ buffer[At(start, i - 1)] \in Byte
  <2>1. start + i - 1 \in 0 .. 2 * Size - 1
    BY <1>1
  <2>2. (start + i - 1) % Size = IF start + i - 1 < Size THEN start + i - 1 ELSE start + i - 1 - Size
    BY <1>1, <2>1, WrapsOnce
  <2>3. At(start, i - 1) \in 0 .. Size - 1
    BY <1>1 DEF At
  <2> QED
    BY <1>1, <2>2, <2>3 DEF At
<1>3. Contents = [i \in 1 .. DataLength |-> buffer[At(start, i - 1)]]
  BY <1>2 DEF Contents
<1>4. Contents \in [1 .. DataLength -> Byte]
  BY <1>2, <1>3
<1>5. \A m \in Nat : \A f \in [1 .. m -> Byte] : f \in Seq(Byte) /\ Len(f) = m
  OBVIOUS
<1>6. Contents \in Seq(Byte) /\ Len(Contents) = DataLength
  BY <1>1, <1>4, <1>5
<1>7. \A i \in 1 .. DataLength : At(start, i - 1) \in 0 .. Size - 1
  BY <1>2
<1> QED
  BY <1>3, <1>4, <1>6, <1>7, Zenon DEF ContentsBySlot

\* The same after a step.
LEMMA ContentsAreNext == IInv' => ContentsBySlot'
  BY ContentsAre, PTL

-----------------------------------------------------------------------------
\* readData returns the bytes at an offset, whichever copy is made.
LEMMA ReadDataFromIInv == IInv => ReadDataReadsContents
<1> SUFFICES ASSUME IInv, NEW offset \in 0 .. DataLength, NEW n \in 1 .. DataLength - offset
             PROVE  ReadData(n, offset) = SubSeq(Contents, offset + 1, offset + n)
  BY DEF ReadDataReadsContents
<1>1. /\ Size \in Nat /\ Size > 2 /\ start \in 0 .. Size - 1 /\ end \in 0 .. Size - 1
      /\ DataLength \in 0 .. Size - 2 /\ buffer \in [0 .. Size - 1 -> Byte]
  BY Ranges
<1>2. offset \in Nat /\ n \in Nat /\ n >= 1 /\ offset + n <= DataLength
  BY <1>1
<1> DEFINE read == [k \in 1 .. n |-> buffer[At(start, offset + k - 1)]]
<1>3. SubSeq(Contents, offset + 1, offset + n) = read
  <2>1. Contents = [i \in 1 .. DataLength |-> buffer[At(start, i - 1)]]
        /\ Contents \in [1 .. DataLength -> Byte] /\ Contents \in Seq(Byte) /\ Len(Contents) = DataLength
    BY ContentsAre DEF ContentsBySlot
  <2>2. /\ SubSeq(Contents, offset + 1, offset + n) \in Seq(Byte)
        /\ Len(SubSeq(Contents, offset + 1, offset + n)) = n
        /\ \A k \in 1 .. n : SubSeq(Contents, offset + 1, offset + n)[k] = Contents[offset + k]
    <3>1. offset + 1 \in Int /\ offset + n \in Int
      BY <1>2
    <3>2. \A i \in offset + 1 .. offset + n : Contents[i] \in Byte
      <4>1. \A i \in offset + 1 .. offset + n : i \in 1 .. DataLength
        BY <1>1, <1>2
      <4> QED
        BY <2>1, <4>1
    <3>3. /\ SubSeq(Contents, offset + 1, offset + n) \in Seq(Byte)
          /\ Len(SubSeq(Contents, offset + 1, offset + n)) =
               IF offset + 1 <= offset + n THEN offset + n - (offset + 1) + 1 ELSE 0
          /\ \A k \in 1 .. offset + n - (offset + 1) + 1 :
               SubSeq(Contents, offset + 1, offset + n)[k] = Contents[offset + 1 + k - 1]
      BY <3>1, <3>2, SubSeqProperties
    <3> HIDE DEF Contents
    <3> QED
      BY <1>2, <3>3
  <2>3. ASSUME NEW k \in 1 .. n PROVE Contents[offset + k] = buffer[At(start, offset + k - 1)]
    <3>1. offset + k \in 1 .. DataLength /\ offset + k - 1 = (offset + k) - 1
      BY <1>1, <1>2
    <3> QED
      BY <2>1, <3>1
  <2>4. SubSeq(Contents, offset + 1, offset + n) =
          [k \in 1 .. n |-> SubSeq(Contents, offset + 1, offset + n)[k]]
    BY <2>2
  <2> QED
    BY <2>2, <2>3, <2>4
<1>4. CASE start < end
  <2>1. ReadData(n, offset) = CopyFrom(start + offset, n)
    BY <1>1, <1>4 DEF ReadData
  <2>2. ASSUME NEW k \in 1 .. n PROVE At(start, offset + k - 1) = start + offset + k - 1
    BY <1>1, <1>2, <1>4 DEF At, DataLength
  <2> QED
    BY <1>3, <2>1, <2>2 DEF CopyFrom
<1> DEFINE first == Size - (start + offset)
<1>5. CASE start >= end /\ first >= 0 /\ n > first
  <2>1. first \in Nat /\ n - first \in Nat
    BY <1>1, <1>2, <1>5
  <2>2. ReadData(n, offset) = CopyFrom(start + offset, first) \o CopyFrom(0, n - first)
    BY <1>1, <1>5 DEF ReadData
  <2>3. ASSUME NEW k \in 1 .. first
        PROVE  /\ start + offset + k - 1 = At(start, offset + k - 1)
               /\ buffer[start + offset + k - 1] \in Byte
    BY <1>1, <1>2, <2>1 DEF At
  <2>4. ASSUME NEW k \in 1 .. n - first
        PROVE  /\ 0 + k - 1 = At(start, offset + (first + k) - 1)
               /\ buffer[0 + k - 1] \in Byte
    BY <1>1, <1>2, <2>1 DEF At
  <2>5. CopyFrom(start + offset, first) \in [1 .. first -> Byte]
    BY <2>3 DEF CopyFrom
  <2>6. CopyFrom(0, n - first) \in [1 .. n - first -> Byte]
    BY <2>4 DEF CopyFrom
  <2> DEFINE a == CopyFrom(start + offset, first)
             b == CopyFrom(0, n - first)
  <2>7. /\ a \in Seq(Byte) /\ Len(a) = first /\ b \in Seq(Byte) /\ Len(b) = n - first
    BY <2>1, <2>5, <2>6
  <2>8. /\ a \o b \in Seq(Byte) /\ Len(a \o b) = n
        /\ \A k \in 1 .. n : (a \o b)[k] = IF k <= first THEN a[k] ELSE b[k - first]
    <3>1. /\ a \o b \in Seq(Byte) /\ Len(a \o b) = Len(a) + Len(b)
          /\ \A k \in 1 .. Len(a) + Len(b) :
               (a \o b)[k] = IF k <= Len(a) THEN a[k] ELSE b[k - Len(a)]
      BY <2>7, ConcatProperties
    <3>2. Len(a) = first /\ Len(a) + Len(b) = n
      BY <1>2, <2>1, <2>7
    <3> QED
      BY <3>1, <3>2
  <2>9. ASSUME NEW k \in 1 .. n
        PROVE  (IF k <= first THEN a[k] ELSE b[k - first]) = buffer[At(start, offset + k - 1)]
    <3>1. CASE k <= first
      <4>1. k \in 1 .. first
        BY <2>1, <3>1
      <4> QED
        BY <2>3, <3>1, <4>1 DEF CopyFrom
    <3>2. CASE ~(k <= first)
      <4>1. k - first \in 1 .. n - first /\ first + (k - first) = k
        BY <1>2, <2>1, <3>2
      <4>2. b[k - first] = buffer[0 + (k - first) - 1]
        BY <4>1 DEF CopyFrom
      <4> HIDE DEF first
      <4> QED
        BY <2>4, <3>2, <4>1, <4>2
    <3> QED
      BY <3>1, <3>2
  <2> HIDE DEF a, b, first
  <2>10. a \o b = [k \in 1 .. n |-> (a \o b)[k]]
    BY <2>8, SequenceIsFunction, Zenon
  <2>11. a \o b = read
    BY <2>8, <2>9, <2>10
  <2> QED
    BY <1>3, <2>2, <2>11 DEF a, b, first
<1>6. CASE start >= end /\ ~(first >= 0 /\ n > first)
  <2>1. ReadData(n, offset) = CopyFrom((start + offset) % Size, n)
    BY <1>1, <1>6 DEF ReadData
  <2>2. (start + offset) % Size = IF start + offset < Size THEN start + offset ELSE start + offset - Size
    <3>1. start + offset \in 0 .. 2 * Size - 1
      BY <1>1, <1>2
    <3> QED
      BY <1>1, <1>2, <3>1, WrapsOnce
  <2>3. ASSUME NEW k \in 1 .. n
        PROVE  At(start, offset + k - 1) = ((start + offset) % Size) + k - 1
    BY <1>1, <1>2, <1>6, <2>2 DEF At
  <2> QED
    BY <1>3, <2>1, <2>3 DEF CopyFrom
<1> QED
  BY <1>1, <1>4, <1>5, <1>6

\* readData returns the bytes that were written, at every offset and for
\* every length, whatever the buffer's size and wherever the bytes wrap
\* (RingBuffer.cpp:49-81).
THEOREM ReadDataCorrect == Spec => []ReadDataReadsContents
  BY ReadDataFromIInv, IInvHolds, PTL

-----------------------------------------------------------------------------
\* The used bytes after increaseUsedSpace.
LEMMA LengthAfter ==
  ASSUME IInv, NEW m \in Nat, DataLength + m <= Size - 2,
         start' = start, end' = (end + m) % Size
  PROVE  DataLength' = DataLength + m
<1>1. /\ Size \in Nat /\ Size > 2 /\ start \in 0 .. Size - 1 /\ end \in 0 .. Size - 1
      /\ DataLength \in 0 .. Size - 2
  BY Ranges
<1>2. end + m \in 0 .. 2 * Size - 1
  BY <1>1
<1>3. (end + m) % Size = IF end + m < Size THEN end + m ELSE end + m - Size
  BY <1>1, <1>2, WrapsOnce
<1>4. end' = IF end + m < Size THEN end + m ELSE end + m - Size
  BY <1>3
<1>5. DataLength' = IF end' >= start THEN end' - start ELSE end' + (Size - start)
  BY DEF DataLength
<1> QED
  BY <1>1, <1>4, <1>5 DEF DataLength

\* Bytes put behind the used ones, which stay where they are.
LEMMA Appended ==
  ASSUME IInv, IInv', NEW bytes \in Bytes, Len(bytes) <= Space,
         start' = start, end' = (end + Len(bytes)) % Size,
         \A i \in 1 .. DataLength : buffer'[At(start, i - 1)] = buffer[At(start, i - 1)],
         \A i \in 1 .. Len(bytes) : buffer'[At(end, i - 1)] = bytes[i]
  PROVE  Contents' = Contents \o bytes
<1> DEFINE m == Len(bytes)
<1>1. /\ Size \in Nat /\ Size > 2 /\ start \in 0 .. Size - 1 /\ end \in 0 .. Size - 1
      /\ DataLength \in 0 .. Size - 2 /\ Space = Size - 2 - DataLength
      /\ At(start, DataLength) = end
  BY Ranges
<1>2. bytes \in Seq(Byte) /\ m \in 1 .. Size - 2 /\ DataLength + m <= Size - 2
  BY <1>1, BytesAreSequences
<1>4. DataLength' = DataLength + m
  BY <1>1, <1>2, LengthAfter
<1>5. /\ Contents \in Seq(Byte) /\ Len(Contents) = DataLength
      /\ \A i \in 1 .. DataLength : Contents[i] = buffer[At(start, i - 1)]
  BY ContentsAre DEF ContentsBySlot
<1>6. Contents' \in Seq(Byte) /\ Len(Contents') = DataLength + m
  BY <1>4, ContentsAreNext DEF ContentsBySlot
<1>7. \A i \in 1 .. DataLength + m : Contents'[i] = buffer'[At(start, i - 1)]
  <2>1. Contents' = [i \in 1 .. DataLength' |-> buffer'[At(start', i - 1)]]
    BY ContentsAreNext DEF ContentsBySlot, At
  <2> HIDE DEF m
  <2> QED
    BY <1>4, <2>1
<1>8. /\ Contents \o bytes \in Seq(Byte)
      /\ Len(Contents \o bytes) = DataLength + m
      /\ \A i \in 1 .. DataLength + m :
           (Contents \o bytes)[i] = IF i <= DataLength THEN Contents[i] ELSE bytes[i - DataLength]
  <2>1. /\ Contents \o bytes \in Seq(Byte)
        /\ Len(Contents \o bytes) = Len(Contents) + Len(bytes)
        /\ \A i \in 1 .. Len(Contents) + Len(bytes) :
             (Contents \o bytes)[i] = IF i <= Len(Contents) THEN Contents[i]
                                                            ELSE bytes[i - Len(Contents)]
    BY <1>2, <1>5, ConcatProperties
  <2> QED
    BY <1>5, <2>1
<1>9. ASSUME NEW i \in 1 .. DataLength + m
      PROVE  Contents'[i] = (Contents \o bytes)[i]
  <2>1. CASE i <= DataLength
    <3>1. i \in 1 .. DataLength
      BY <1>1, <1>2, <2>1
    <3> QED
      BY <1>5, <1>7, <1>8, <2>1, <3>1
  <2>2. CASE ~(i <= DataLength)
    <3>1. i - DataLength \in 1 .. m
      BY <1>1, <1>2, <2>2
    <3>2. At(start, i - 1) = At(end, (i - DataLength) - 1)
      <4> HIDE DEF m
      <4> QED
        BY <1>1, <1>2, <2>2 DEF At
    <3>3. buffer'[At(end, (i - DataLength) - 1)] = bytes[i - DataLength]
      BY <3>1
    <3> QED
      BY <1>7, <1>8, <2>2, <3>2, <3>3
  <2> QED
    BY <2>1, <2>2
<1> HIDE DEF m
<1> QED
  BY <1>6, <1>8, <1>9, SeqEqual

\* A memcpy leaves the other slots alone.
LEMMA CopyToAt ==
  ASSUME NEW to, NEW at, NEW bytes
  PROVE  \A i \in Slot : CopyTo(to, at, bytes)[i] =
           IF at <= i /\ i < at + Len(bytes) THEN bytes[i - at + 1] ELSE to[i]
  BY DEF CopyTo

\* The slots of the used bytes and those of the next "m" are different.
LEMMA FreeSlots ==
  ASSUME IInv, NEW m \in Nat, DataLength + m <= Size - 2
  PROVE  /\ \A i \in 1 .. DataLength : At(start, i - 1) \in Slot
         /\ \A j \in 1 .. m : At(end, j - 1) \in Slot
         /\ \A i \in 1 .. DataLength : \A j \in 1 .. m : At(start, i - 1) # At(end, j - 1)
<1>1. /\ Size \in Nat /\ Size > 2 /\ start \in 0 .. Size - 1 /\ end \in 0 .. Size - 1
      /\ DataLength \in 0 .. Size - 2 /\ At(start, DataLength) = end
  BY Ranges
<1> QED
  BY <1>1 DEF At, Slot

\* writeData appends.
LEMMA WriteFromIInv ==
  ASSUME IInv, IInv', NEW bytes \in Bytes, Write(bytes)
  PROVE  Contents' = Contents \o bytes /\ Len(bytes) <= Space
<1> DEFINE m == Len(bytes)
<1>1. /\ Size \in Nat /\ Size > 2 /\ start \in 0 .. Size - 1 /\ end \in 0 .. Size - 1
      /\ DataLength \in 0 .. Size - 2 /\ Space = Size - 2 - DataLength
      /\ At(start, DataLength) = end
  BY Ranges
<1>2. /\ bytes \in Seq(Byte) /\ m \in 1 .. Size - 2 /\ DataLength + m <= Size - 2
      /\ m <= Space
  BY <1>1, BytesAreSequences DEF Write
<1>3. start' = start /\ end' = (end + m) % Size
  BY DEF Write, IncreaseUsedSpace
<1>4. /\ \A i \in 1 .. DataLength : At(start, i - 1) \in Slot
      /\ \A j \in 1 .. m : At(end, j - 1) \in Slot
  BY <1>2, FreeSlots
<1>5. CASE start > end \/ Size - end > m
  <2>1. buffer' = CopyTo(buffer, end, bytes)
    BY <1>5 DEF Write
  <2>2. \A i \in Slot : buffer'[i] = IF end <= i /\ i < end + m THEN bytes[i - end + 1] ELSE buffer[i]
    BY <2>1, CopyToAt
  <2>3. ASSUME NEW i \in 1 .. DataLength
        PROVE  buffer'[At(start, i - 1)] = buffer[At(start, i - 1)]
    <3>1. ~(end <= At(start, i - 1) /\ At(start, i - 1) < end + m)
      <4> HIDE DEF m
      <4> QED
        BY <1>1, <1>2, <1>5 DEF At
    <3> QED
      BY <1>4, <2>2, <3>1
  <2>4. ASSUME NEW j \in 1 .. m PROVE buffer'[At(end, j - 1)] = bytes[j]
    <3>1. At(end, j - 1) = end + j - 1 /\ (end + j - 1) - end + 1 = j
      <4> HIDE DEF m
      <4> QED
        BY <1>1, <1>2, <1>5 DEF At, DataLength
    <3> QED
      BY <1>1, <1>2, <1>4, <2>2, <3>1
  <2> QED
    BY <1>2, <1>3, <2>3, <2>4, Appended
<1>6. CASE ~(start > end \/ Size - end > m)
  <2> DEFINE tail == Size - end
             head == SubSeq(bytes, 1, tail)
             rest == SubSeq(bytes, tail + 1, m)
             once == CopyTo(buffer, end, head)
  <2>1. buffer' = CopyTo(once, 0, rest)
    BY <1>6 DEF Write
  <2>2. tail \in 1 .. m /\ end + tail = Size
    BY <1>1, <1>2, <1>6
  <2>3. /\ head \in Seq(Byte) /\ Len(head) = tail
        /\ \A k \in 1 .. tail : head[k] = bytes[k]
    <3>1. \A k \in 1 .. tail : bytes[k] \in Byte
      BY <1>2, <2>2
    <3>2. /\ head \in Seq(Byte) /\ Len(head) = IF 1 <= tail THEN tail - 1 + 1 ELSE 0
          /\ \A k \in 1 .. tail - 1 + 1 : head[k] = bytes[1 + k - 1]
      BY <2>2, <3>1, SubSeqProperties
    <3> HIDE DEF head, tail
    <3> QED
      BY <2>2, <3>2
  <2>4. /\ rest \in Seq(Byte) /\ Len(rest) = m - tail
        /\ \A k \in 1 .. m - tail : rest[k] = bytes[tail + k]
    <3>1. \A k \in tail + 1 .. m : bytes[k] \in Byte
      BY <1>2, <2>2
    <3>2. /\ rest \in Seq(Byte) /\ Len(rest) = IF tail + 1 <= m THEN m - (tail + 1) + 1 ELSE 0
          /\ \A k \in 1 .. m - (tail + 1) + 1 : rest[k] = bytes[tail + 1 + k - 1]
      BY <1>2, <2>2, <3>1, SubSeqProperties
    <3> HIDE DEF rest, tail, m
    <3> QED
      BY <1>2, <2>2, <3>2
  <2> HIDE DEF once, head, rest, tail, m
  <2>5. \A i \in Slot : once[i] = IF end <= i /\ i < end + tail THEN head[i - end + 1] ELSE buffer[i]
    BY <2>3, CopyToAt DEF once
  <2>6. \A i \in Slot : buffer'[i] = IF i < m - tail THEN rest[i + 1] ELSE once[i]
    <3>1. \A i \in Slot : buffer'[i] = IF 0 <= i /\ i < 0 + Len(rest) THEN rest[i - 0 + 1] ELSE once[i]
      BY <2>1, <2>4, CopyToAt
    <3> QED
      BY <1>1, <1>2, <2>2, <2>4, <3>1 DEF Slot
  <2>7. ASSUME NEW i \in 1 .. DataLength
        PROVE  buffer'[At(start, i - 1)] = buffer[At(start, i - 1)]
    <3>1. /\ ~(end <= At(start, i - 1) /\ At(start, i - 1) < end + tail)
          /\ ~(At(start, i - 1) < m - tail)
      BY <1>1, <1>2, <1>6, <2>2 DEF At, tail
    <3> QED
      BY <1>4, <2>5, <2>6, <3>1
  <2>8. ASSUME NEW j \in 1 .. m PROVE buffer'[At(end, j - 1)] = bytes[j]
    <3>1. CASE j <= tail
      <4>1. /\ At(end, j - 1) = end + j - 1 /\ (end + j - 1) - end + 1 = j
            /\ ~(end + j - 1 < m - tail) /\ j \in 1 .. tail
            /\ end <= end + j - 1 /\ end + j - 1 < end + tail
        BY <1>1, <1>2, <1>6, <2>2, <3>1 DEF At, tail
      <4> QED
        BY <1>4, <2>3, <2>5, <2>6, <4>1
    <3>2. CASE ~(j <= tail)
      <4>1. /\ At(end, j - 1) = j - tail - 1 /\ j - tail - 1 + 1 = j - tail
            /\ j - tail - 1 < m - tail /\ j - tail \in 1 .. m - tail
            /\ tail + (j - tail) = j
        BY <1>1, <1>2, <1>6, <2>2, <3>2 DEF At, tail
      <4> QED
        BY <1>4, <2>4, <2>6, <4>1
    <3> QED
      BY <3>1, <3>2
  <2> QED
    BY <1>2, <1>3, <2>7, <2>8, Appended DEF m
<1> QED
  BY <1>2, <1>5, <1>6

\* So does filling a part of the window.
LEMMA WriteInPlaceFromIInv ==
  ASSUME IInv, IInv', NEW bytes \in Bytes, WriteInPlace(bytes)
  PROVE  Contents' = Contents \o bytes /\ Len(bytes) <= Space
<1> DEFINE m == Len(bytes)
<1>1. /\ Size \in Nat /\ Size > 2 /\ start \in 0 .. Size - 1 /\ end \in 0 .. Size - 1
      /\ DataLength \in 0 .. Size - 2 /\ Space = Size - 2 - DataLength
      /\ At(start, DataLength) = end
  BY Ranges
<1>2. /\ bytes \in Seq(Byte) /\ m \in 1 .. Size - 2 /\ DataLength + m <= Size - 2
      /\ m <= Space
  BY <1>1, BytesAreSequences DEF WriteInPlace, IncreaseUsedSpace
<1>3. /\ start' = start /\ end' = (end + m) % Size
      /\ buffer' = CopyTo(buffer, end, bytes)
  BY DEF WriteInPlace, IncreaseUsedSpace
<1>4. end + m <= Size
  <2>1. Len(bytes) <= WriteWindow
    BY DEF WriteInPlace
  <2>2. CASE start <= end
    BY <1>1, <1>2, <2>1, <2>2 DEF WriteWindow, Reserved
  <2>3. CASE start > end
    BY <1>1, <1>2, <2>1, <2>3 DEF WriteWindow, Reserved
  <2> QED
    BY <1>1, <2>2, <2>3
<1>5. /\ \A i \in 1 .. DataLength : At(start, i - 1) \in Slot
      /\ \A j \in 1 .. m : At(end, j - 1) \in Slot
  BY <1>2, FreeSlots
<1>6. \A i \in Slot : buffer'[i] = IF end <= i /\ i < end + m THEN bytes[i - end + 1] ELSE buffer[i]
  BY <1>3, CopyToAt
<1>7. ASSUME NEW i \in 1 .. DataLength
      PROVE  buffer'[At(start, i - 1)] = buffer[At(start, i - 1)]
  <2>1. ~(end <= At(start, i - 1) /\ At(start, i - 1) < end + m)
    <3> HIDE DEF m
    <3> QED
      BY <1>1, <1>2, <1>4 DEF At
  <2> QED
    BY <1>5, <1>6, <2>1
<1>8. ASSUME NEW j \in 1 .. m PROVE buffer'[At(end, j - 1)] = bytes[j]
  <2>1. At(end, j - 1) = end + j - 1 /\ (end + j - 1) - end + 1 = j
    <3> HIDE DEF m
    <3> QED
      BY <1>1, <1>2, <1>4 DEF At
  <2> QED
    BY <1>1, <1>2, <1>5, <1>6, <2>1
<1> QED
  BY <1>2, <1>3, <1>7, <1>8, Appended

-----------------------------------------------------------------------------
\* A write appends exactly the bytes it is given, split or not
\* (RingBuffer.cpp:29-44).
THEOREM WriteAppendsCorrect == Spec => WriteAppends
<1>1. IInv /\ IInv' => \A bytes \in Bytes : Write(bytes) => Contents' = Contents \o bytes
  BY WriteFromIInv
<1> QED
  BY <1>1, IInvHolds, PTL DEF WriteAppends

-----------------------------------------------------------------------------
\* An empty buffer has no contents.
LEMMA EmptyContents == IInv /\ DataLength = 0 => Contents = << >>
<1> SUFFICES ASSUME IInv, DataLength = 0 PROVE Contents = << >>
  OBVIOUS
<1>1. Contents \in Seq(Byte) /\ Len(Contents) = 0
  BY ContentsAre DEF ContentsBySlot
<1> HIDE DEF Contents
<1> QED
  BY <1>1

\* The same after a step.
LEMMA EmptyContentsNext == IInv' /\ DataLength' = 0 => Contents' = << >>
<1> SUFFICES ASSUME IInv', DataLength' = 0 PROVE Contents' = << >>
  OBVIOUS
<1>1. Contents' \in Seq(Byte) /\ Len(Contents') = 0
  BY ContentsAreNext DEF ContentsBySlot
<1> HIDE DEF Contents
<1> QED
  BY <1>1

\* A write is a Put: its bytes fit in what the queue has room for.
LEMMA PutSimulates ==
  ASSUME IInv, NEW bytes \in Bytes,
         Contents' = Contents \o bytes, Len(bytes) <= Space
  PROVE  Queue!Put
<1>1. Space = Size - 2 - DataLength /\ Size \in Nat /\ DataLength \in 0 .. Size - 2
  BY Ranges
<1>2. Len(Contents) = DataLength
  BY ContentsAre DEF ContentsBySlot
<1>3. PICK n \in 1 .. Size : bytes \in [1 .. n -> Byte]
  BY DEF Bytes
<1>4. Len(bytes) = n
  BY <1>1, <1>3
<1>5. n \in 1 .. (Size - Reserved) - Len(Contents)
  BY <1>1, <1>2, <1>3, <1>4 DEF Reserved
<1> HIDE DEF Contents
<1> QED
  BY <1>3, <1>5 DEF Queue!Put

\* The used bytes after decreaseUsedSpace, which starts over at slot 0 exactly
\* when nothing is left.
LEMMA LengthAfterDecrease ==
  ASSUME IInv, NEW n \in 1 .. Size, DecreaseUsedSpace(n)
  PROVE  /\ n \in 1 .. DataLength /\ DataLength' = DataLength - n
         /\ DataLength # n => start' = At(start, n) /\ end' = end /\ buffer' = buffer
<1>1. /\ Size \in Nat /\ Size > 2 /\ start \in 0 .. Size - 1 /\ end \in 0 .. Size - 1
      /\ DataLength \in 0 .. Size - 2 /\ At(start, DataLength) = end
  BY Ranges
<1>2. n \in 1 .. DataLength
  BY <1>1 DEF DecreaseUsedSpace
<1>3. (start + n) % Size = At(start, n)
  <2>1. start + n \in 0 .. 2 * Size - 1
    BY <1>1, <1>2
  <2> QED
    BY <1>1, <1>2, <2>1, WrapsOnce DEF At
<1>4. At(start, n) = end <=> DataLength = n
  BY <1>1, <1>2 DEF At
<1>5. CASE DataLength = n
  <2>1. start' = 0 /\ end' = 0
    BY <1>5 DEF DecreaseUsedSpace
  <2>2. DataLength' = 0
    BY <2>1 DEF DataLength
  <2> QED
    BY <1>1, <1>2, <1>5, <2>2
<1>6. CASE DataLength # n
  <2>1. start' = At(start, n) /\ end' = end /\ buffer' = buffer
    BY <1>3, <1>4, <1>6 DEF DecreaseUsedSpace
  <2>2. DataLength' = IF end >= At(start, n) THEN end - At(start, n)
                                             ELSE end + (Size - At(start, n))
    BY <2>1 DEF DataLength
  <2>3. DataLength' = DataLength - n
    BY <1>1, <1>2, <1>6, <2>2 DEF At, DataLength
  <2> QED
    BY <1>2, <2>1, <2>3
<1> QED
  BY <1>5, <1>6

\* decreaseUsedSpace(n) drops the n oldest bytes.
LEMMA DecreaseFromIInv ==
  ASSUME IInv, IInv', NEW n \in 1 .. Size, DecreaseUsedSpace(n)
  PROVE  n \in 1 .. DataLength /\ Contents' = SubSeq(Contents, n + 1, DataLength)
<1>1. /\ Size \in Nat /\ Size > 2 /\ start \in 0 .. Size - 1 /\ end \in 0 .. Size - 1
      /\ DataLength \in 0 .. Size - 2 /\ At(start, DataLength) = end
  BY Ranges
<1>2. /\ n \in 1 .. DataLength /\ DataLength' = DataLength - n
      /\ DataLength # n => start' = At(start, n) /\ end' = end /\ buffer' = buffer
  BY LengthAfterDecrease
<1>3. /\ Contents \in Seq(Byte) /\ Len(Contents) = DataLength
      /\ \A i \in 1 .. DataLength : Contents[i] = buffer[At(start, i - 1)]
  BY ContentsAre DEF ContentsBySlot
<1> DEFINE rest == SubSeq(Contents, n + 1, DataLength)
<1>4. /\ rest \in Seq(Byte) /\ Len(rest) = DataLength - n
      /\ \A k \in 1 .. DataLength - n : rest[k] = Contents[n + k]
  <2>1. \A i \in n + 1 .. DataLength : Contents[i] \in Byte
    <3> HIDE DEF Contents
    <3>1. \A i \in n + 1 .. DataLength : i \in 1 .. Len(Contents)
      BY <1>1, <1>2, <1>3
    <3> QED
      BY <1>3, <3>1
  <2>2. /\ rest \in Seq(Byte)
        /\ Len(rest) = IF n + 1 <= DataLength THEN DataLength - (n + 1) + 1 ELSE 0
        /\ \A k \in 1 .. DataLength - (n + 1) + 1 : rest[k] = Contents[n + 1 + k - 1]
    <3>1. n + 1 \in Int /\ DataLength \in Int
      BY <1>1, <1>2
    <3> QED
      BY <2>1, <3>1, SubSeqProperties
  <2> HIDE DEF Contents, rest
  <2> QED
    BY <1>1, <1>2, <2>2
<1> HIDE DEF rest
<1>5. CASE DataLength = n
  <2>1. DataLength' = 0
    BY <1>1, <1>2, <1>5
  <2>2. rest = << >>
    BY <1>1, <1>4, <1>5
  <2> QED
    BY <1>2, <2>1, <2>2, EmptyContentsNext DEF rest
<1>6. CASE DataLength # n
  <2>1. start' = At(start, n) /\ end' = end /\ buffer' = buffer
    BY <1>2, <1>6
  <2>2. DataLength' = DataLength - n
    BY <1>2
  <2>3. Contents' \in Seq(Byte) /\ Len(Contents') = DataLength - n
    BY <2>2, ContentsAreNext DEF ContentsBySlot
  <2>4. \A k \in 1 .. DataLength - n : Contents'[k] = buffer[At(At(start, n), k - 1)]
    <3>1. Contents' = [i \in 1 .. DataLength' |-> buffer'[At(start', i - 1)]]
      BY ContentsAreNext DEF ContentsBySlot, At
    <3> QED
      BY <2>1, <2>2, <3>1
  <2>5. ASSUME NEW k \in 1 .. DataLength - n
        PROVE  Contents'[k] = rest[k]
    <3>1. At(At(start, n), k - 1) = At(start, (n + k) - 1) /\ n + k \in 1 .. DataLength
      BY <1>1, <1>2 DEF At
    <3> QED
      BY <1>3, <1>4, <2>4, <3>1
  <2>6. Contents' = rest
    BY <1>4, <2>3, <2>5, SeqEqual
  <2> QED
    BY <1>2, <2>6 DEF rest
<1> QED
  BY <1>5, <1>6

\* A new buffer is an empty queue.
LEMMA InitSimulates == Init => Queue!Init
<1> SUFFICES ASSUME Init PROVE Queue!Init
  OBVIOUS
<1>1. IInv /\ DataLength = 0
  BY InitIInv DEF Init, DataLength
<1> QED
  BY <1>1, EmptyContents DEF Queue!Init

\* Every call of the ring buffer is a step of the queue.
LEMMA NextSimulates == IInv /\ IInv' /\ [Next]_vars => [Queue!Next]_Contents
<1> SUFFICES ASSUME IInv, IInv', [Next]_vars PROVE [Queue!Next]_Contents
  OBVIOUS
<1>1. ASSUME NEW bytes \in Bytes, Write(bytes) \/ WriteInPlace(bytes)
      PROVE  Queue!Put
  <2>1. Contents' = Contents \o bytes /\ Len(bytes) <= Space
    BY <1>1, WriteFromIInv, WriteInPlaceFromIInv
  <2> QED
    BY <2>1, PutSimulates
<1>2. ASSUME NEW n \in 1 .. Size, DecreaseUsedSpace(n) PROVE Queue!Take
  <2>1. n \in 1 .. DataLength /\ Contents' = SubSeq(Contents, n + 1, DataLength)
    BY <1>2, DecreaseFromIInv
  <2>2. Len(Contents) = DataLength
    BY ContentsAre DEF ContentsBySlot
  <2> HIDE DEF Contents
  <2> QED
    BY <2>1, <2>2 DEF Queue!Take
<1>3. ASSUME Clear PROVE Queue!Reset
  <2>1. DataLength' = 0
    BY <1>3 DEF Clear, DataLength
  <2> QED
    BY <2>1, EmptyContentsNext DEF Queue!Reset
<1>4. CASE UNCHANGED vars
  BY <1>4 DEF vars, Contents, DataLength
<1> HIDE DEF Contents
<1> QED
  BY <1>1, <1>2, <1>3, <1>4 DEF Next, Queue!Next

\* The ring buffer is a bounded FIFO of Size - 2 bytes: whatever sequence of
\* writes, in-place fills, reads and clears its users make, and wherever the
\* bytes wrap, each call is one of the queue's (RingBuffer.cpp:23-187).
THEOREM FifoCorrect == Spec => FifoSpec
  BY InitSimulates, NextSimulates, IInvHolds, PTL DEF Spec, FifoSpec, Queue!Spec
=============================================================================
