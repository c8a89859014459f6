--------------------------- MODULE ReceiveProofs ---------------------------
(***************************************************************************)
(* For every size of the read buffer, every plan of the peer, every number *)
(* of decoder threads and every way of cutting the stream into chunks: the *)
(* packets delivered are the peer's while chunks are appended in order, no *)
(* complete packet is left waiting, and the magic number is then wrong     *)
(* only in a header that wraps around the end of the buffer.  Chunks are   *)
(* appended in order when the pool has one thread and each finds room.     *)
(***************************************************************************)
EXTENDS Receive, SequenceTheorems, SetInduction

\* The theorems about the ring buffer, for the read buffer.
Buffer == INSTANCE RingBufferProofs WITH Byte <- Nat, Zero <- 0

\* What is in the read buffer are bytes of the stream, or the initial zeros.
BytesArrived == \A i \in 0 .. Size - 1 : buffer[i] \in 0 .. Total

\* A task of the decoder has bytes, and recv has returned them.
IsReceived(chunk, bytes) == chunk.first <= chunk.last /\ chunk.last <= bytes
ChunksReceived ==
  /\ \A i \in DOMAIN chunks : IsReceived(chunks[i], received)
  /\ \A w \in Worker : holding[w] # NoChunk => IsReceived(holding[w], received)

\* What is true of the types, and of the bytes behind them, at any time,
\* whether the chunks are appended in order or not.
Types ==
  /\ TypeOK
  /\ ReadBuffer!DataLength <= Size - 2
  /\ BytesArrived
  /\ ChunksReceived

\* What has been appended reaches to the end of the last packet delivered.
InStream == intact => EndOf[Len(delivered)] <= upTo

\* What is true of the packets and the bytes behind them as long as they are.
Order == DeliveredInOrder /\ BufferFollowsDelivered /\ InStream

\* The inductive invariant.
IInv == Types /\ Order /\ NothingStranded /\ MagicFailsOnlyWrapped

-----------------------------------------------------------------------------

\* The types of the constants and of a plan.
LEMMA Constants ==
  /\ Size \in Nat /\ Size > 2
  /\ RecvSize \in Nat /\ RecvSize > 0 /\ Header \in Nat /\ Header > 0
  /\ \A p \in Plans : p \in Seq(PlannedPacket)
  /\ \A w \in Worker : w # NoWorker
  BY ReceiveAssumption, WorkerAssumption

-----------------------------------------------------------------------------
(* Where packets end.  EndOf is defined by recursion: first that there is a *)
(* function with its equation.                                              *)

\* The equation of EndOf for f, up to packet n.
EndsTo(f, n) ==
  f = [k \in 0 .. n |-> IF k = 0 THEN 0 ELSE f[k - 1] + Header + plan[k].len]

\* There is such a function for every n.
LEMMA EndsExist == \A n \in Nat : \E f : EndsTo(f, n)
<1> DEFINE T == {n \in Nat : \E f : EndsTo(f, n)}
           Step(v, k) == v + Header + plan[k].len
<1>1. 0 \in T
  <2>1. EndsTo([k \in 0 .. 0 |-> 0], 0)
    BY DEF EndsTo
  <2> QED
    BY <2>1
<1>2. ASSUME NEW n \in Nat, n \in T PROVE n + 1 \in T
  <2>1. PICK f : EndsTo(f, n)
    BY <1>2
  <2> DEFINE g == [k \in 0 .. n + 1 |-> IF k = 0 THEN 0 ELSE Step(f[k - 1], k)]
  <2>2. ASSUME NEW k \in 0 .. n PROVE g[k] = f[k]
    <3>1. f[k] = IF k = 0 THEN 0 ELSE Step(f[k - 1], k)
      BY <2>1 DEF EndsTo
    <3>2. g[k] = IF k = 0 THEN 0 ELSE Step(f[k - 1], k)
      OBVIOUS
    <3> QED
      BY <3>1, <3>2, Zenon
  <2>3. ASSUME NEW k \in 0 .. n + 1
        PROVE  g[k] = IF k = 0 THEN 0 ELSE Step(g[k - 1], k)
    <3>1. g[k] = IF k = 0 THEN 0 ELSE Step(f[k - 1], k)
      OBVIOUS
    <3>2. CASE k = 0
      BY <3>1, <3>2, Zenon
    <3>3. CASE k # 0
      <4>1. k - 1 \in 0 .. n
        BY <3>3
      <4>2. g[k - 1] = f[k - 1]
        BY <2>2, <4>1
      <4> QED
        BY <3>1, <4>2, Zenon
    <3> QED
      BY <3>2, <3>3
  <2>4. g = [k \in 0 .. n + 1 |-> IF k = 0 THEN 0 ELSE Step(g[k - 1], k)]
    <3>1. g = [k \in 0 .. n + 1 |-> g[k]]
      OBVIOUS
    <3> HIDE DEF g
    <3> QED
      BY <2>3, <3>1, Zenon
  <2>5. EndsTo(g, n + 1)
    <3> HIDE DEF g
    <3> QED
      BY <2>4 DEF EndsTo
  <2> QED
    BY <2>5
<1> HIDE DEF T
<1>3. Nat \subseteq T
  BY <1>1, <1>2, InductionOverNat
<1> QED
  BY <1>3 DEF T

\* Two functions with the equation agree where both are defined.
LEMMA EndsUnique ==
  ASSUME NEW m \in Nat, NEW n \in Nat, NEW f, NEW g, EndsTo(f, m), EndsTo(g, n)
  PROVE  \A k \in 0 .. m : k <= n => f[k] = g[k]
<1> DEFINE T == {k \in 0 .. m : k <= n => f[k] = g[k]}
           Step(v, k) == v + Header + plan[k].len
<1>1. \A k \in 0 .. m : f[k] = IF k = 0 THEN 0 ELSE Step(f[k - 1], k)
  BY DEF EndsTo
<1>2. \A k \in 0 .. n : g[k] = IF k = 0 THEN 0 ELSE Step(g[k - 1], k)
  BY DEF EndsTo
<1> HIDE DEF Step
<1>3. 0 \in T
  BY <1>1, <1>2
<1>4. ASSUME NEW k \in 0 .. m - 1, k \in T PROVE k + 1 \in T
  <2> SUFFICES ASSUME k + 1 <= n PROVE f[k + 1] = g[k + 1]
    OBVIOUS
  <2>1. k + 1 \in 0 .. m /\ k + 1 \in 0 .. n /\ k + 1 # 0 /\ (k + 1) - 1 = k /\ k <= n
    OBVIOUS
  <2>2. f[k] = g[k]
    BY <1>4, <2>1
  <2>3. f[k + 1] = Step(f[k], k + 1) /\ g[k + 1] = Step(g[k], k + 1)
    BY <1>1, <1>2, <2>1
  <2> QED
    BY <2>2, <2>3
<1> HIDE DEF T
<1>5. 0 .. m \subseteq T
  BY <1>3, <1>4, InductionTo
<1> QED
  BY <1>5 DEF T

\* EndOf has its equation.
LEMMA EndOfEquation ==
  /\ EndOf[0] = 0
  /\ \A k \in Nat : EndOf[k + 1] = EndOf[k] + Header + plan[k + 1].len
<1> DEFINE Step(v, k) == v + Header + plan[k].len
           G(n) == CHOOSE f : EndsTo(f, n)
           F == [k \in Nat |-> G(k)[k]]
<1>1. \A n \in Nat : EndsTo(G(n), n)
  BY EndsExist, Zenon
<1> HIDE DEF G
<1>2. ASSUME NEW k \in Nat PROVE F[k] = IF k = 0 THEN 0 ELSE Step(F[k - 1], k)
  <2>1. G(k)[k] = IF k = 0 THEN 0 ELSE Step(G(k)[k - 1], k)
    BY <1>1 DEF EndsTo
  <2>2. CASE k = 0
    BY <2>1, <2>2
  <2>3. CASE k # 0
    <3>1. k - 1 \in Nat /\ k - 1 \in 0 .. k - 1 /\ k - 1 <= k
      BY <2>3
    <3>2. EndsTo(G(k - 1), k - 1) /\ EndsTo(G(k), k)
      BY <1>1, <3>1
    <3>3. G(k - 1)[k - 1] = G(k)[k - 1]
      BY <3>1, <3>2, EndsUnique
    <3>4. F[k] = G(k)[k] /\ F[k - 1] = G(k - 1)[k - 1]
      BY <3>1
    <3> HIDE DEF Step, F
    <3> QED
      BY <2>1, <2>3, <3>3, <3>4
  <2> QED
    BY <2>2, <2>3
<1>3. F = [k \in Nat |-> IF k = 0 THEN 0 ELSE Step(F[k - 1], k)]
  <2>1. F = [k \in Nat |-> F[k]]
    OBVIOUS
  <2> HIDE DEF F
  <2> QED
    BY <1>2, <2>1, Zenon
<1> HIDE DEF F
<1>4. \E f : f = [k \in Nat |-> IF k = 0 THEN 0 ELSE f[k - 1] + Header + plan[k].len]
  BY <1>3
<1>5. EndOf = [k \in Nat |-> IF k = 0 THEN 0 ELSE EndOf[k - 1] + Header + plan[k].len]
  BY <1>4, Zenon DEF EndOf
<1>6. \A k \in Nat : EndOf[k] = IF k = 0 THEN 0 ELSE EndOf[k - 1] + Header + plan[k].len
  BY <1>5
<1>7. ASSUME NEW k \in Nat PROVE EndOf[k + 1] = EndOf[k] + Header + plan[k + 1].len
  <2>1. k + 1 \in Nat /\ k + 1 # 0 /\ (k + 1) - 1 = k
    OBVIOUS
  <2> QED
    BY <1>6, <2>1
<1> QED
  BY <1>6, <1>7

\* Every packet of the plan ends after the one before it.
LEMMA EndOfType ==
  ASSUME plan \in Plans
  PROVE  /\ \A k \in 0 .. Len(plan) : EndOf[k] \in Nat
         /\ \A k \in 1 .. Len(plan) : plan[k].len \in Nat /\ EndOf[k] = EndOf[k - 1] + Header + plan[k].len
<1>1. plan \in Seq(PlannedPacket) /\ Len(plan) \in Nat
  BY Constants
<1>2. ASSUME NEW k \in 1 .. Len(plan) PROVE plan[k].len \in Nat
  <2>1. plan[k] \in PlannedPacket
    BY <1>1
  <2> QED
    BY <2>1 DEF PlannedPacket
<1> DEFINE T == {k \in 0 .. Len(plan) : EndOf[k] \in Nat}
<1>3. 0 \in T
  BY <1>1, EndOfEquation
<1>4. ASSUME NEW k \in 0 .. Len(plan) - 1, k \in T PROVE k + 1 \in T
  <2>1. k \in Nat /\ k + 1 \in 1 .. Len(plan) /\ k + 1 \in 0 .. Len(plan)
    BY <1>1
  <2>2. EndOf[k + 1] = EndOf[k] + Header + plan[k + 1].len
    BY <2>1, EndOfEquation
  <2> QED
    BY <1>2, <1>4, <2>1, <2>2, Constants
<1> HIDE DEF T
<1>5. 0 .. Len(plan) \subseteq T
  BY <1>1, <1>3, <1>4, InductionTo
<1>6. ASSUME NEW k \in 1 .. Len(plan) PROVE EndOf[k] = EndOf[k - 1] + Header + plan[k].len
  <2>1. k - 1 \in Nat /\ (k - 1) + 1 = k
    BY <1>1
  <2> QED
    BY <2>1, EndOfEquation
<1> QED
  BY <1>2, <1>5, <1>6 DEF T

\* And by at least a header.
LEMMA EndOfGrows ==
  ASSUME plan \in Plans, NEW j \in 0 .. Len(plan)
  PROVE  \A k \in 0 .. Len(plan) : j < k => EndOf[j] + Header <= EndOf[k]
<1>1. Len(plan) \in Nat
  BY Constants
<1> DEFINE T == {k \in 0 .. Len(plan) : j < k => EndOf[j] + Header <= EndOf[k]}
<1>2. 0 \in T
  BY <1>1
<1>3. ASSUME NEW k \in 0 .. Len(plan) - 1, k \in T PROVE k + 1 \in T
  <2> SUFFICES ASSUME j < k + 1 PROVE EndOf[j] + Header <= EndOf[k + 1]
    BY <1>1
  <2>1. k \in 0 .. Len(plan) /\ k + 1 \in 1 .. Len(plan) /\ (k + 1) - 1 = k
    BY <1>1
  <2>2. /\ EndOf[j] \in Nat /\ EndOf[k] \in Nat /\ plan[k + 1].len \in Nat
        /\ EndOf[k + 1] = EndOf[k] + Header + plan[k + 1].len
    BY <2>1, EndOfType
  <2>3. j = k \/ EndOf[j] + Header <= EndOf[k]
    BY <1>1, <1>3
  <2> QED
    BY <2>2, <2>3, Constants
<1> HIDE DEF T
<1>4. 0 .. Len(plan) \subseteq T
  BY <1>1, <1>2, <1>3, InductionTo
<1> QED
  BY <1>4 DEF T

\* The whole plan is as long as its last packet's end.
LEMMA TotalIsLast ==
  ASSUME plan \in Plans
  PROVE  Total \in Nat /\ \A k \in 0 .. Len(plan) : EndOf[k] <= Total
<1>1. Len(plan) \in Nat
  BY Constants
<1>2. ASSUME NEW k \in 0 .. Len(plan) PROVE EndOf[k] <= Total
  <2>1. k = Len(plan) \/ EndOf[k] + Header <= EndOf[Len(plan)]
    BY <1>1, EndOfGrows
  <2>2. EndOf[k] \in Nat /\ EndOf[Len(plan)] \in Nat
    BY <1>1, EndOfType
  <2> QED
    BY <2>1, <2>2, Constants DEF Total
<1> QED
  BY <1>1, <1>2, EndOfType DEF Total

\* The plan does not change, and the ends of its packets with it.
LEMMA EndOfKept ==
  ASSUME plan' = plan
  PROVE  EndOf' = EndOf /\ Total' = Total
<1>1. EndOf' = EndOf
  BY Zenon DEF EndOf
<1> QED
  BY <1>1 DEF Total

-----------------------------------------------------------------------------
(* The read buffer, from the theorems about the ring buffer.               *)

\* The ring buffer's assumptions hold of the read buffer.
LEMMA BufferAssumptions == Buffer!SizeAssumption /\ Buffer!ByteAssumption
  BY Constants DEF Buffer!SizeAssumption, Buffer!ByteAssumption, Buffer!Reserved

\* The part of IInv that is about the read buffer alone.
BufferOK == ReadBuffer!TypeOK /\ ReadBuffer!DataLength <= Size - 2

\* BufferOK is the invariant of the theorems about the ring buffer.
LEMMA BufferInvariant == (BufferOK <=> Buffer!IInv) /\ (BufferOK' <=> Buffer!IInv')
  BY DEF BufferOK, ReadBuffer!TypeOK, ReadBuffer!DataLength, ReadBuffer!Slot,
         Buffer!IInv, Buffer!TypeOK, Buffer!DataLength, Buffer!Slot, Buffer!Reserved

\* The two instances of the ring buffer mean the same.
LEMMA BufferNames ==
  /\ Buffer!Contents = ReadBuffer!Contents /\ (Buffer!Contents)' = (ReadBuffer!Contents)'
  /\ Buffer!DataLength = ReadBuffer!DataLength /\ (Buffer!DataLength)' = (ReadBuffer!DataLength)'
  /\ Buffer!Space = ReadBuffer!Space
  BY DEF Buffer!Contents, ReadBuffer!Contents, Buffer!DataLength, ReadBuffer!DataLength,
         Buffer!Space, ReadBuffer!Space, Buffer!Reserved, ReadBuffer!Reserved

\* How much is in the buffer, and how much more there is room for.
LEMMA Room ==
  ASSUME BufferOK
  PROVE  /\ ReadBuffer!DataLength \in 0 .. Size - 2
         /\ ReadBuffer!Space = Size - 2 - ReadBuffer!DataLength
         /\ start \in 0 .. Size - 1 /\ end \in 0 .. Size - 1
         /\ buffer \in [0 .. Size - 1 -> Nat]
  BY BufferAssumptions, BufferInvariant, BufferNames, Buffer!Ranges, Zenon

\* The bytes of the buffer.
LEMMA ContentsType ==
  ASSUME BufferOK
  PROVE  /\ ReadBuffer!Contents \in Seq(Nat)
         /\ Len(ReadBuffer!Contents) = ReadBuffer!DataLength
         /\ ReadBuffer!Contents = [i \in 1 .. ReadBuffer!DataLength |-> ReadBuffer!Contents[i]]
<1>1. Buffer!ContentsBySlot
  BY BufferAssumptions, BufferInvariant, Buffer!ContentsAre
<1>2. /\ ReadBuffer!Contents \in [1 .. ReadBuffer!DataLength -> Nat]
      /\ ReadBuffer!Contents \in Seq(Nat)
      /\ Len(ReadBuffer!Contents) = ReadBuffer!DataLength
  BY <1>1, BufferNames DEF Buffer!ContentsBySlot
<1> HIDE DEF ReadBuffer!Contents
<1> QED
  BY <1>2

\* The bytes that recv has returned are in the stream.
LEMMA ContentsArrived ==
  ASSUME BufferOK, BytesArrived, NEW i \in 1 .. ReadBuffer!DataLength
  PROVE  ReadBuffer!Contents[i] \in 0 .. Total
<1>1. Buffer!ContentsBySlot
  BY BufferAssumptions, BufferInvariant, Buffer!ContentsAre
<1>2. /\ Buffer!Contents = [j \in 1 .. Buffer!DataLength |-> buffer[Buffer!At(start, j - 1)]]
      /\ \A j \in 1 .. Buffer!DataLength : Buffer!At(start, j - 1) \in 0 .. Size - 1
  BY <1>1 DEF Buffer!ContentsBySlot
<1>3. Buffer!Contents[i] = buffer[Buffer!At(start, i - 1)] /\ Buffer!At(start, i - 1) \in 0 .. Size - 1
  BY <1>2, BufferNames
<1>4. Buffer!Contents[i] \in 0 .. Total
  BY <1>3 DEF BytesArrived
<1> QED
  BY <1>4, BufferNames

\* readData returns the bytes at an offset.
LEMMA ReadIs ==
  ASSUME BufferOK, NEW offset \in Nat, NEW n \in Nat, n > 0, offset + n <= ReadBuffer!DataLength
  PROVE  ReadBuffer!ReadData(n, offset) = [i \in 1 .. n |-> ReadBuffer!Contents[offset + i]]
<1> DEFINE C == ReadBuffer!Contents
           d == ReadBuffer!DataLength
<1>1. d \in Nat /\ C \in Seq(Nat) /\ Len(C) = d
  BY Room, ContentsType
<1>2. offset \in 0 .. d /\ n \in 1 .. d - offset
  BY <1>1
<1>3. Buffer!ReadDataReadsContents
  BY BufferAssumptions, BufferInvariant, Buffer!ReadDataFromIInv
<1>4. Buffer!ReadData(n, offset) = SubSeq(Buffer!Contents, offset + 1, offset + n)
  BY <1>2, <1>3, BufferNames, Zenon DEF Buffer!ReadDataReadsContents
<1>5. ReadBuffer!ReadData(n, offset) = SubSeq(C, offset + 1, offset + n)
  BY <1>4, BufferNames DEF Buffer!ReadData, ReadBuffer!ReadData, Buffer!CopyFrom, ReadBuffer!CopyFrom
<1> HIDE DEF C, d
<1>6. SubSeq(C, offset + 1, offset + n) = [i \in 1 .. n |-> C[offset + i]]
  BY <1>1, <1>2
<1> QED
  BY <1>5, <1>6 DEF C

\* The header and the payload that are decoded, in place or not.
LEMMA HeaderIs ==
  ASSUME BufferOK, ReadBuffer!DataLength >= Header
  PROVE  HeaderBytes = [i \in 1 .. Header |-> ReadBuffer!Contents[i]]
<1>1. 0 \in Nat /\ Header \in Nat /\ Header > 0 /\ 0 + Header <= ReadBuffer!DataLength
  BY Constants, Room
<1>2. HeaderBytes = [i \in 1 .. Header |-> ReadBuffer!Contents[0 + i]]
  BY <1>1, ReadIs DEF HeaderBytes
<1>3. \A i \in 1 .. Header : 0 + i = i
  BY <1>1
<1> QED
  BY <1>2, <1>3

\* The payload follows the header.
LEMMA PayloadIs ==
  ASSUME BufferOK, NEW n \in Nat, Header + n <= ReadBuffer!DataLength
  PROVE  PayloadBytes(n) = [i \in 1 .. n |-> ReadBuffer!Contents[Header + i]]
<1>1. /\ Size \in Nat /\ Size > 2 /\ Header \in Nat /\ Header > 0
      /\ start \in 0 .. Size - 1 /\ end \in 0 .. Size - 1
      /\ ReadBuffer!DataLength \in 0 .. Size - 2
  BY Constants, Room
<1>2. CASE ReadBuffer!ContinuousSize < Header + n
  <2>1. PayloadBytes(n) = ReadBuffer!ReadData(n, Header)
    BY <1>2 DEF PayloadBytes
  <2>2. CASE n > 0
    BY <1>1, <2>1, <2>2, ReadIs
  <2>3. CASE n = 0
    <3>1. \A k \in Int : ReadBuffer!CopyFrom(k, 0) = << >>
      BY DEF ReadBuffer!CopyFrom
    <3>2. (start + Header) % Size \in Int /\ start + Header \in Int
      BY <1>1
    <3>3. ~ (Size - (start + Header) >= 0 /\ 0 > Size - (start + Header))
      BY <1>1
    <3>4. ReadBuffer!ReadData(0, Header) = << >>
      BY <1>1, <3>1, <3>2, <3>3 DEF ReadBuffer!ReadData
    <3> QED
      BY <2>1, <2>3, <3>4
  <2> QED
    BY <2>2, <2>3
<1>3. CASE ~ (ReadBuffer!ContinuousSize < Header + n)
  <2>1. PayloadBytes(n) = ReadBuffer!CopyFrom(start + Header, n)
    BY <1>3 DEF PayloadBytes
  <2>2. ReadBuffer!ContinuousSize \in Int /\ start + ReadBuffer!ContinuousSize <= Size
    BY <1>1 DEF ReadBuffer!ContinuousSize, ReadBuffer!Reserved
  <2>3. ASSUME NEW i \in 1 .. n
        PROVE  buffer[start + Header + i - 1] = ReadBuffer!Contents[Header + i]
    <3>1. Header + i \in 1 .. ReadBuffer!DataLength /\ start + (Header + i) - 1 = start + Header + i - 1
      BY <1>1
    <3>2. ReadBuffer!Contents[Header + i] = buffer[(start + (Header + i) - 1) % Size]
      BY <3>1 DEF ReadBuffer!Contents
    <3>3. start + Header + i - 1 \in 0 .. Size - 1
      BY <1>1, <1>3, <2>2
    <3>4. (start + Header + i - 1) % Size = start + Header + i - 1
      BY <1>1, <3>3
    <3> QED
      BY <3>1, <3>2, <3>4
  <2> QED
    BY <2>1, <2>3 DEF ReadBuffer!CopyFrom
<1> QED
  BY <1>2, <1>3

\* A write puts its bytes behind those in the buffer.
LEMMA WriteExtends ==
  ASSUME BufferOK, NEW bytes \in Seq(Nat), bytes # << >>, ReadBuffer!Write(bytes)
  PROVE  /\ BufferOK'
         /\ (ReadBuffer!Contents)' = ReadBuffer!Contents \o bytes
<1>1. /\ ReadBuffer!Space = Size - 2 - ReadBuffer!DataLength
      /\ ReadBuffer!DataLength \in 0 .. Size - 2 /\ Size \in Nat /\ Size > 2
  BY Room, Constants
<1>2. Len(bytes) \in 1 .. Size
  BY <1>1 DEF ReadBuffer!Write
<1>3. bytes \in Buffer!Bytes
  <2>1. bytes \in [1 .. Len(bytes) -> Nat]
    OBVIOUS
  <2> QED
    BY <1>2, <2>1 DEF Buffer!Bytes
<1>4. Buffer!Write(bytes)
  BY DEF ReadBuffer!Write, ReadBuffer!CopyTo, ReadBuffer!Space, ReadBuffer!Slot,
         ReadBuffer!Reserved, ReadBuffer!IncreaseUsedSpace,
         Buffer!Write, Buffer!CopyTo, Buffer!Space, Buffer!Slot, Buffer!Reserved,
         Buffer!IncreaseUsedSpace
<1>5. Buffer!Next
  BY <1>3, <1>4 DEF Buffer!Next
<1>6. Buffer!IInv /\ Buffer!IInv'
  BY <1>5, BufferAssumptions, BufferInvariant, Buffer!NextIInv
<1>7. (Buffer!Contents)' = Buffer!Contents \o bytes
  BY <1>3, <1>4, <1>6, BufferAssumptions, Buffer!WriteFromIInv
<1> QED
  BY <1>6, <1>7, BufferInvariant, BufferNames, Zenon

\* A byte in the buffer was there before the write, or is one of those written.
LEMMA WriteBytes ==
  ASSUME BufferOK, NEW bytes \in Seq(Nat), ReadBuffer!Write(bytes), NEW i \in 0 .. Size - 1
  PROVE  buffer'[i] = buffer[i] \/ \E j \in 1 .. Len(bytes) : buffer'[i] = bytes[j]
<1>1. /\ Size \in Nat /\ Size > 2 /\ end \in 0 .. Size - 1
      /\ Len(bytes) \in Nat
  BY Room, Constants
<1> DEFINE tail == Size - end
<1>2. CASE start > end \/ tail > Len(bytes)
  <2>1. buffer' = ReadBuffer!CopyTo(buffer, end, bytes)
    BY <1>2 DEF ReadBuffer!Write
  <2>2. buffer'[i] = IF end <= i /\ i < end + Len(bytes) THEN bytes[i - end + 1] ELSE buffer[i]
    BY <2>1 DEF ReadBuffer!CopyTo, ReadBuffer!Slot
  <2>3. end <= i /\ i < end + Len(bytes) => i - end + 1 \in 1 .. Len(bytes)
    BY <1>1
  <2> QED
    BY <2>2, <2>3
<1>3. CASE ~ (start > end \/ tail > Len(bytes))
  <2> DEFINE a == SubSeq(bytes, 1, tail)
             b == SubSeq(bytes, tail + 1, Len(bytes))
  <2>1. tail \in 1 .. Len(bytes)
    BY <1>1, <1>3
  <2>2. /\ Len(a) = tail /\ \A j \in 1 .. tail : a[j] = bytes[j]
        /\ Len(b) = Len(bytes) - tail /\ \A j \in 1 .. Len(bytes) - tail : b[j] = bytes[tail + j]
    BY <1>1, <2>1
  <2>3. buffer' = ReadBuffer!CopyTo(ReadBuffer!CopyTo(buffer, end, a), 0, b)
    BY <1>3 DEF ReadBuffer!Write
  <2> HIDE DEF a, b, tail
  <2>4. buffer'[i] = IF 0 <= i /\ i < 0 + Len(b) THEN b[i - 0 + 1]
                     ELSE IF end <= i /\ i < end + Len(a) THEN a[i - end + 1] ELSE buffer[i]
    BY <2>3 DEF ReadBuffer!CopyTo, ReadBuffer!Slot
  <2>5. 0 <= i /\ i < 0 + Len(b) => i - 0 + 1 \in 1 .. Len(bytes) - tail /\ tail + (i - 0 + 1) \in 1 .. Len(bytes)
    BY <1>1, <2>1, <2>2
  <2>6. end <= i /\ i < end + Len(a) => i - end + 1 \in 1 .. tail /\ i - end + 1 \in 1 .. Len(bytes)
    BY <1>1, <2>1, <2>2
  <2> QED
    BY <2>2, <2>4, <2>5, <2>6
<1> QED
  BY <1>2, <1>3

\* decreaseUsedSpace takes bytes off the front.
LEMMA DecreaseShortens ==
  ASSUME BufferOK, NEW n \in Nat, n > 0, ReadBuffer!DecreaseUsedSpace(n)
  PROVE  /\ BufferOK' /\ n <= ReadBuffer!DataLength
         /\ (ReadBuffer!DataLength)' = ReadBuffer!DataLength - n
         /\ (ReadBuffer!Contents)' = SubSeq(ReadBuffer!Contents, n + 1, ReadBuffer!DataLength)
<1>1. ReadBuffer!DataLength \in 0 .. Size - 2 /\ Size \in Nat /\ Size > 2
  BY Room, Constants
<1>2. n <= ReadBuffer!DataLength
  BY DEF ReadBuffer!DecreaseUsedSpace
<1>3. n \in 1 .. Size
  BY <1>1, <1>2
<1>4. Buffer!DecreaseUsedSpace(n)
  BY DEF ReadBuffer!DecreaseUsedSpace, ReadBuffer!DataLength,
         Buffer!DecreaseUsedSpace, Buffer!DataLength
<1>5. Buffer!Next
  BY <1>3, <1>4 DEF Buffer!Next
<1>6. Buffer!IInv /\ Buffer!IInv'
  BY <1>5, BufferAssumptions, BufferInvariant, Buffer!NextIInv
<1>7. (Buffer!Contents)' = SubSeq(Buffer!Contents, n + 1, Buffer!DataLength)
  BY <1>3, <1>4, <1>6, BufferAssumptions, Buffer!DecreaseFromIInv
<1>8. (Buffer!DataLength)' = Buffer!DataLength - n
  BY <1>3, <1>4, <1>6, BufferAssumptions, Buffer!LengthAfterDecrease
<1> QED
  BY <1>2, <1>6, <1>7, <1>8, BufferInvariant, BufferNames, Zenon

-----------------------------------------------------------------------------
(* The invariant.                                                          *)

\* What IInv says of the types, its parts named.
LEMMA TypeFacts ==
  ASSUME IInv
  PROVE  /\ BufferOK /\ BytesArrived /\ plan \in Plans
         /\ Total \in Nat /\ arrived \in 0 .. Total /\ received \in 0 .. arrived
         /\ upTo \in 0 .. received
         /\ chunks \in Seq([first : 1 .. Total, last : 1 .. Total])
         /\ holding \in [Worker -> [first : 1 .. Total, last : 1 .. Total] \cup {NoChunk}]
<1>1. TypeOK /\ BytesArrived /\ ReadBuffer!DataLength <= Size - 2
  BY DEF IInv, Types
<1>2. plan \in Plans
  BY <1>1 DEF TypeOK
<1> QED
  BY <1>1, <1>2, TotalIsLast DEF TypeOK, BufferOK

\* The packets of the plan stay what they are.
LEMMA PacketsKept ==
  ASSUME plan' = plan
  PROVE  \A k : HeaderOf(k)' = HeaderOf(k) /\ PayloadOf(k)' = PayloadOf(k)
<1>1. EndOf' = EndOf
  BY EndOfKept
<1> QED
  BY <1>1 DEF HeaderOf, PayloadOf

\* A step that leaves the buffer and the packets delivered alone.
LEMMA SameOrder ==
  ASSUME IInv, UNCHANGED <<bufferVars, plan, delivered, upTo, intact>>
  PROVE  /\ Order' /\ BytesArrived' /\ BufferOK'
         /\ UNCHANGED <<ReadBuffer!Contents, ReadBuffer!DataLength, EndOf, Total>>
<1>1. start' = start /\ end' = end /\ buffer' = buffer /\ plan' = plan
      /\ delivered' = delivered /\ upTo' = upTo /\ intact' = intact
  BY DEF bufferVars
<1>2. EndOf' = EndOf /\ Total' = Total
  BY <1>1, EndOfKept
<1>3. (ReadBuffer!Contents)' = ReadBuffer!Contents /\ (ReadBuffer!DataLength)' = ReadBuffer!DataLength
  BY <1>1 DEF ReadBuffer!Contents, ReadBuffer!DataLength
<1>4. \A k : HeaderOf(k)' = HeaderOf(k) /\ PayloadOf(k)' = PayloadOf(k)
  BY <1>1, PacketsKept
<1>5. DeliveredInOrder'
  BY <1>1, <1>4 DEF IInv, Order, DeliveredInOrder
<1>6. BufferFollowsDelivered' /\ InStream'
  BY <1>1, <1>2, <1>3 DEF IInv, Order, BufferFollowsDelivered, InStream
<1>7. BytesArrived' /\ BufferOK'
  BY <1>1, <1>2, <1>3, TypeFacts DEF BytesArrived, BufferOK, ReadBuffer!TypeOK, ReadBuffer!Slot
<1> QED
  BY <1>2, <1>3, <1>5, <1>6, <1>7 DEF Order

\* Nor who holds the lock, or whether the process runs.
LEMMA Frame ==
  ASSUME IInv, UNCHANGED <<bufferVars, plan, delivered, upTo, intact, lock, aborted>>
  PROVE  Order' /\ BytesArrived' /\ BufferOK' /\ NothingStranded' /\ MagicFailsOnlyWrapped'
         /\ Total' = Total
<1>1. /\ Order' /\ BytesArrived' /\ BufferOK' /\ EndOf' = EndOf /\ Total' = Total
  BY SameOrder
<1>2. NothingStranded'
  BY <1>1 DEF IInv, NothingStranded
<1>3. MagicFailsOnlyWrapped'
  BY DEF IInv, MagicFailsOnlyWrapped, bufferVars, ReadBuffer!ReadInPlaceOk, ReadBuffer!DataLength
<1> QED
  BY <1>1, <1>2, <1>3

\* Nothing has arrived.
LEMMA InitIInv == Init => IInv
<1> SUFFICES ASSUME Init PROVE IInv
  OBVIOUS
<1>1. plan \in Plans /\ plan \in Seq(PlannedPacket) /\ Len(plan) \in Nat /\ Total \in Nat
  BY Constants, TotalIsLast DEF Init
<1>2. Buffer!Init
  BY DEF Init, ReadBuffer!Init, Buffer!Init, ReadBuffer!Slot, Buffer!Slot
<1>3. BufferOK
  BY <1>2, BufferAssumptions, BufferInvariant, Buffer!InitIInv
<1>4. BytesArrived
  BY <1>1 DEF BytesArrived, Init, ReadBuffer!Init, ReadBuffer!Slot
<1>5. Types
  <2>1. chunks = << >> /\ holding = [w \in Worker |-> NoChunk] /\ delivered = << >>
    BY DEF Init
  <2>2. chunks \in Seq([first : 1 .. Total, last : 1 .. Total])
        /\ holding \in [Worker -> [first : 1 .. Total, last : 1 .. Total] \cup {NoChunk}]
    BY <2>1
  <2>3. \A i \in 1 .. Len(delivered) : FALSE
    BY <2>1
  <2>4. /\ arrived \in 0 .. Total /\ received \in 0 .. arrived /\ upTo \in 0 .. received
        /\ registered \in {"no", "epoll", "map"} /\ edge \in BOOLEAN /\ waiting \in BOOLEAN
        /\ aborted \in BOOLEAN /\ intact \in BOOLEAN /\ lock \in Worker \cup {NoWorker}
    <3>1. arrived \in 0 .. Total /\ received \in 0 .. arrived /\ upTo \in 0 .. received
      BY <1>1 DEF Init
    <3>2. edge = FALSE /\ waiting = FALSE /\ aborted = FALSE /\ intact = TRUE
      BY DEF Init
    <3>3. edge \in BOOLEAN /\ waiting \in BOOLEAN /\ aborted \in BOOLEAN /\ intact \in BOOLEAN
      BY <3>2, Zenon
    <3>4. registered \in {"no", "epoll", "map"} /\ lock \in Worker \cup {NoWorker}
      BY DEF Init
    <3> QED
      BY <3>1, <3>3, <3>4
  <2>5. ChunksReceived
    <3>1. \A i \in DOMAIN chunks : FALSE
      BY <2>1
    <3>2. \A w \in Worker : holding[w] = NoChunk
      BY <2>1
    <3> QED
      BY <3>1, <3>2 DEF ChunksReceived
  <2> QED
    BY <1>1, <1>3, <1>4, <2>2, <2>3, <2>4, <2>5 DEF Types, TypeOK, BufferOK
<1>6. ReadBuffer!DataLength = 0 /\ ReadBuffer!Contents = << >>
  BY Constants DEF Init, ReadBuffer!Init, ReadBuffer!DataLength, ReadBuffer!Contents
<1>7. EndOf[0] = 0 /\ Len(delivered) = 0 /\ upTo = 0
  BY EndOfEquation DEF Init
<1>8. Order
  BY <1>1, <1>6, <1>7 DEF Order, DeliveredInOrder, BufferFollowsDelivered, InStream
<1>9. NothingStranded
  <2> SUFFICES ASSUME 1 <= Len(plan) PROVE upTo < EndOf[1]
    BY <1>7 DEF NothingStranded
  <2>1. 1 \in 1 .. Len(plan) /\ 1 - 1 = 0
    BY <1>1
  <2>2. plan[1].len \in Nat /\ EndOf[1] = EndOf[0] + Header + plan[1].len
    BY <1>1, <2>1, EndOfType
  <2> QED
    BY <1>7, <2>2, Constants
<1>10. MagicFailsOnlyWrapped
  BY DEF Init, MagicFailsOnlyWrapped
<1> QED
  BY <1>5, <1>8, <1>9, <1>10 DEF IInv

\* Bytes reach the kernel.
LEMMA ArriveIInv == ASSUME IInv, Arrive PROVE IInv'
<1>1. UNCHANGED <<bufferVars, plan, delivered, upTo, intact, lock, aborted>>
  BY DEF Arrive
<1>2. Order' /\ BytesArrived' /\ BufferOK' /\ NothingStranded' /\ MagicFailsOnlyWrapped' /\ Total' = Total
  BY <1>1, Frame
<1>3. PICK n \in 1 .. Total - arrived : arrived' = arrived + n
  BY DEF Arrive
<1>4. arrived' \in 0 .. Total /\ received' \in 0 .. arrived'
  BY <1>3, TypeFacts DEF Arrive
<1>5. TypeOK'
  BY <1>2, <1>4 DEF IInv, Types, TypeOK, Arrive, BufferOK
<1>6. ChunksReceived'
  BY DEF IInv, Types, ChunksReceived, IsReceived, Arrive
<1> QED
  BY <1>2, <1>5, <1>6 DEF IInv, Types, BufferOK

\* The session is registered with epoll and the map; its end begins.
LEMMA AddToEpollIInv == ASSUME IInv, AddToEpoll PROVE IInv'
<1>1. Order' /\ BytesArrived' /\ BufferOK' /\ NothingStranded' /\ MagicFailsOnlyWrapped' /\ Total' = Total
  BY Frame DEF AddToEpoll
<1>2. TypeOK'
  BY <1>1 DEF IInv, Types, TypeOK, AddToEpoll, BufferOK
<1>3. ChunksReceived'
  BY DEF IInv, Types, ChunksReceived, IsReceived, AddToEpoll
<1> QED
  BY <1>1, <1>2, <1>3 DEF IInv, Types, BufferOK

\* The map follows epoll.
LEMMA AddToMapIInv == ASSUME IInv, AddToMap PROVE IInv'
<1>1. Order' /\ BytesArrived' /\ BufferOK' /\ NothingStranded' /\ MagicFailsOnlyWrapped' /\ Total' = Total
  BY Frame DEF AddToMap
<1>2. TypeOK'
  BY <1>1 DEF IInv, Types, TypeOK, AddToMap, BufferOK
<1>3. ChunksReceived'
  BY DEF IInv, Types, ChunksReceived, IsReceived, AddToMap
<1> QED
  BY <1>1, <1>2, <1>3 DEF IInv, Types, BufferOK

\* The end of the session.
LEMMA DisconnectIInv == ASSUME IInv, Disconnect PROVE IInv'
<1>1. Order' /\ BytesArrived' /\ BufferOK' /\ NothingStranded' /\ MagicFailsOnlyWrapped' /\ Total' = Total
  BY Frame DEF Disconnect, reactorVars
<1>2. TypeOK'
  BY <1>1 DEF IInv, Types, TypeOK, Disconnect, reactorVars, BufferOK
<1>3. ChunksReceived'
  BY DEF IInv, Types, ChunksReceived, IsReceived, Disconnect, reactorVars
<1> QED
  BY <1>1, <1>2, <1>3 DEF IInv, Types, BufferOK

\* One recv, whose bytes are a task that ends where it does.
LEMMA HandleEpollInIInv == ASSUME IInv, HandleEpollIn PROVE IInv'
<1>1. Order' /\ BytesArrived' /\ BufferOK' /\ NothingStranded' /\ MagicFailsOnlyWrapped' /\ Total' = Total
  BY Frame DEF HandleEpollIn
<1> DEFINE Chunk == [first : 1 .. Total, last : 1 .. Total]
<1>2. CASE UNCHANGED <<received, chunks>>
  <2>1. TypeOK'
    BY <1>1, <1>2 DEF IInv, Types, TypeOK, HandleEpollIn, BufferOK
  <2>2. ChunksReceived'
    BY <1>2 DEF IInv, Types, ChunksReceived, IsReceived, HandleEpollIn
  <2> QED
    BY <1>1, <2>1, <2>2 DEF IInv, Types, BufferOK
<1>3. CASE ~ UNCHANGED <<received, chunks>>
  <2> DEFINE last == received + RecvLength
             chunk == [first |-> received + 1, last |-> last]
  <2>1. arrived > received /\ received' = last /\ chunks' = Append(chunks, chunk)
    BY <1>3 DEF HandleEpollIn
  <2>2. /\ Total \in Nat /\ arrived \in 0 .. Total /\ received \in 0 .. arrived /\ upTo \in 0 .. received
        /\ chunks \in Seq(Chunk)
    BY TypeFacts
  <2>3. RecvLength \in 1 .. arrived - received
    BY <2>1, <2>2, Constants DEF RecvLength
  <2>4. last \in received + 1 .. arrived
    BY <2>2, <2>3
  <2>5. received' \in 0 .. arrived' /\ upTo' \in 0 .. received' /\ received <= received'
    BY <2>1, <2>2, <2>4 DEF HandleEpollIn
  <2>6. chunk \in Chunk /\ chunk.first <= chunk.last /\ chunk.last = received'
    BY <2>1, <2>2, <2>4
  <2> HIDE DEF chunk, last, Chunk
  <2>7. chunks' \in Seq(Chunk)
    BY <2>1, <2>2, <2>6
  <2>8. TypeOK'
    BY <1>1, <2>5, <2>7 DEF IInv, Types, TypeOK, HandleEpollIn, BufferOK, Chunk
  <2>9. ChunksReceived'
    <3>1. \A c \in Chunk : IsReceived(c, received) => IsReceived(c, received')
      BY <2>2, <2>5 DEF IsReceived, Chunk
    <3>2. \A i \in DOMAIN chunks' : chunks'[i] = chunk \/ (i \in DOMAIN chunks /\ chunks'[i] = chunks[i])
      BY <2>1, <2>2, <2>6
    <3>3. IsReceived(chunk, received')
      BY <2>2, <2>5, <2>6 DEF IsReceived
    <3>4. \A i \in DOMAIN chunks : chunks[i] \in Chunk
      BY <2>2
    <3>5. \A i \in DOMAIN chunks' : IsReceived(chunks'[i], received')
      BY <3>1, <3>2, <3>3, <3>4 DEF IInv, Types, ChunksReceived
    <3>6. \A w \in Worker : holding[w] # NoChunk => holding[w] \in Chunk
      BY TypeFacts DEF Chunk
    <3>7. \A w \in Worker : holding'[w] # NoChunk => IsReceived(holding'[w], received')
      BY <3>1, <3>6 DEF IInv, Types, ChunksReceived, HandleEpollIn
    <3> QED
      BY <3>5, <3>7 DEF ChunksReceived
  <2> QED
    BY <1>1, <2>8, <2>9 DEF IInv, Types, BufferOK
<1> QED
  BY <1>2, <1>3

\* Sequences as functions.
LEMMA SequenceFacts ==
  /\ \A S : \A m \in Nat : \A f \in [1 .. m -> S] : f \in Seq(S) /\ Len(f) = m
  /\ \A S : \A s \in Seq(S) : \A i \in 1 .. Len(s) : s[i] \in S
  /\ \A s \in Seq(Nat) : s = [i \in 1 .. Len(s) |-> s[i]]
  OBVIOUS

\* What a thread takes, keeps or puts down.
Chunk == [first : 1 .. Total, last : 1 .. Total]

\* A thread takes a task.
LEMMA TakeTaskIInv == ASSUME IInv, NEW w \in Worker, TakeTask(w) PROVE IInv'
<1>1. Order' /\ BytesArrived' /\ BufferOK' /\ NothingStranded' /\ MagicFailsOnlyWrapped' /\ Total' = Total
  BY Frame DEF TakeTask, reactorVars
<1>2. chunks \in Seq(Chunk) /\ holding \in [Worker -> Chunk \cup {NoChunk}] /\ chunks # << >>
  BY TypeFacts DEF Chunk, TakeTask
<1>3. /\ Head(chunks) \in Chunk /\ Head(chunks) = chunks[1] /\ 1 \in DOMAIN chunks
      /\ Tail(chunks) \in Seq(Chunk)
      /\ \A i \in DOMAIN Tail(chunks) : i + 1 \in DOMAIN chunks /\ Tail(chunks)[i] = chunks[i + 1]
  BY <1>2
<1>4. chunks' = Tail(chunks) /\ holding' = [holding EXCEPT ![w] = IF waiting THEN NoChunk ELSE Head(chunks)]
  BY DEF TakeTask
<1>5. chunks' \in Seq(Chunk) /\ holding' \in [Worker -> Chunk \cup {NoChunk}]
  BY <1>2, <1>3, <1>4
<1>6. TypeOK'
  BY <1>1, <1>5 DEF IInv, Types, TypeOK, TakeTask, reactorVars, BufferOK, Chunk
<1>7. ChunksReceived'
  <2>1. received' = received /\ ChunksReceived
    BY DEF TakeTask, reactorVars, IInv, Types
  <2>2. \A i \in DOMAIN chunks' : IsReceived(chunks'[i], received')
    BY <1>3, <1>4, <2>1 DEF ChunksReceived
  <2>3. \A v \in Worker : holding'[v] # NoChunk => holding'[v] = holding[v] \/ holding'[v] = Head(chunks)
    BY <1>2, <1>4
  <2>4. \A v \in Worker : holding'[v] # NoChunk => IsReceived(holding'[v], received')
    BY <1>3, <2>1, <2>3 DEF ChunksReceived
  <2> QED
    BY <2>2, <2>4 DEF ChunksReceived
<1> QED
  BY <1>1, <1>6, <1>7 DEF IInv, Types, BufferOK

\* A thread has put its chunk down.
LEMMA ReleaseTypes ==
  ASSUME IInv, NEW w \in Worker, Release(w), UNCHANGED <<reactorVars, chunks>>
  PROVE  /\ holding' \in [Worker -> Chunk \cup {NoChunk}]
         /\ ChunksReceived'
<1>1. holding \in [Worker -> Chunk \cup {NoChunk}] /\ holding' = [holding EXCEPT ![w] = NoChunk]
  BY TypeFacts DEF Chunk, Release
<1>2. \A v \in Worker : holding'[v] # NoChunk => holding'[v] = holding[v]
  BY <1>1
<1>3. ChunksReceived /\ received' = received /\ chunks' = chunks
  BY DEF IInv, Types, reactorVars
<1> QED
  BY <1>1, <1>2, <1>3 DEF ChunksReceived

\* A chunk is dropped,
LEMMA DropChunkIInv ==
  ASSUME IInv, NEW w \in Worker, AppendChunk(w), Release(w), UNCHANGED <<bufferVars, upTo, intact>>
  PROVE  IInv'
<1>1. /\ lock = NoWorker /\ lock' = NoWorker /\ ~aborted
      /\ UNCHANGED <<reactorVars, chunks, delivered, waiting, aborted>>
  BY DEF AppendChunk, Release
<1>2. Order' /\ BytesArrived' /\ BufferOK' /\ NothingStranded' /\ MagicFailsOnlyWrapped' /\ Total' = Total
  BY <1>1, Frame DEF reactorVars
<1>3. holding' \in [Worker -> Chunk \cup {NoChunk}] /\ ChunksReceived'
  BY <1>1, ReleaseTypes
<1>4. TypeOK'
  BY <1>1, <1>2, <1>3 DEF IInv, Types, TypeOK, reactorVars, BufferOK, Chunk
<1> QED
  BY <1>2, <1>3, <1>4 DEF IInv, Types, BufferOK

\* or appended to the buffer.
LEMMA WriteChunkIInv ==
  ASSUME IInv, NEW w \in Worker, AppendChunk(w), lock' = w
  PROVE  IInv'
<1> DEFINE chunk == holding[w]
           bytes == BytesOf(chunk)
           C == ReadBuffer!Contents
           E == EndOf[Len(delivered)]
<1>1. /\ ~aborted /\ lock = NoWorker /\ chunk # NoChunk
      /\ ReadBuffer!Write(bytes) /\ upTo' = chunk.last
      /\ intact' = (intact /\ chunk.first = upTo + 1) /\ holding' = holding
      /\ UNCHANGED <<reactorVars, chunks, delivered, waiting, aborted>>
  BY Constants DEF AppendChunk, Release
<1>2. /\ BufferOK /\ BytesArrived /\ plan \in Plans /\ Total \in Nat
      /\ arrived \in 0 .. Total /\ received \in 0 .. arrived /\ upTo \in 0 .. received
  BY TypeFacts
<1>3. /\ chunk.first \in 1 .. Total /\ chunk.last \in 1 .. Total
      /\ chunk.first <= chunk.last /\ chunk.last <= received
  <2>1. chunk \in Chunk
    BY <1>1, TypeFacts DEF Chunk
  <2>2. IsReceived(chunk, received)
    BY <1>1 DEF IInv, Types, ChunksReceived
  <2> QED
    BY <2>1, <2>2 DEF Chunk, IsReceived
<1> HIDE DEF chunk
<1>4. /\ Length(chunk) = chunk.last - chunk.first + 1 /\ Length(chunk) \in Nat /\ Length(chunk) > 0
  BY <1>3 DEF Length
<1>5. /\ bytes = [i \in 1 .. Length(chunk) |-> chunk.first + i - 1]
      /\ bytes \in Seq(0 .. Total) /\ bytes \in Seq(Nat) /\ bytes # << >> /\ Len(bytes) = Length(chunk)
  <2>1. bytes = [i \in 1 .. Length(chunk) |-> chunk.first + i - 1]
    BY DEF BytesOf
  <2>2. \A i \in 1 .. Length(chunk) : chunk.first + i - 1 \in 0 .. Total
    BY <1>2, <1>3, <1>4
  <2>3. bytes \in [1 .. Length(chunk) -> 0 .. Total]
    BY <2>1, <2>2
  <2> HIDE DEF bytes
  <2>4. bytes \in Seq(0 .. Total) /\ Len(bytes) = Length(chunk)
    BY <1>4, <2>3, SequenceFacts, Zenon
  <2> QED
    BY <1>2, <1>4, <2>1, <2>3, <2>4
<1> HIDE DEF bytes
<1>6. BufferOK' /\ (ReadBuffer!Contents)' = C \o bytes
  BY <1>1, <1>2, <1>5, WriteExtends
<1>7. EndOf' = EndOf /\ Total' = Total /\ \A k : HeaderOf(k)' = HeaderOf(k) /\ PayloadOf(k)' = PayloadOf(k)
  BY <1>1, EndOfKept, PacketsKept DEF reactorVars
<1>8. BytesArrived'
  <2> SUFFICES ASSUME NEW i \in 0 .. Size - 1 PROVE buffer'[i] \in 0 .. Total
    BY <1>7 DEF BytesArrived
  <2>1. buffer'[i] = buffer[i] \/ \E j \in 1 .. Len(bytes) : buffer'[i] = bytes[j]
    BY <1>1, <1>2, <1>5, WriteBytes
  <2>2. \A j \in 1 .. Len(bytes) : bytes[j] \in 0 .. Total
    BY <1>5, SequenceFacts, Zenon
  <2> QED
    BY <1>2, <2>1, <2>2 DEF BytesArrived
<1>9. Types'
  <2>1. TypeOK'
    BY <1>1, <1>2, <1>3, <1>6, <1>7 DEF IInv, Types, TypeOK, reactorVars, BufferOK
  <2>2. ChunksReceived'
    BY <1>1 DEF IInv, Types, ChunksReceived, reactorVars
  <2> QED
    BY <1>6, <1>8, <2>1, <2>2 DEF Types, BufferOK
<1>10. DeliveredInOrder'
  BY <1>1, <1>7 DEF IInv, Order, DeliveredInOrder, reactorVars
<1>11. ASSUME intact' PROVE /\ E \in Nat /\ E <= upTo' /\ intact /\ chunk.first = upTo + 1
                            /\ C = [i \in 1 .. upTo - E |-> E + i] /\ E <= upTo
  <2>1. intact /\ chunk.first = upTo + 1
    BY <1>1, <1>11
  <2>2. Len(delivered) <= Len(plan) /\ E <= upTo
    BY <2>1 DEF IInv, Order, DeliveredInOrder, InStream
  <2>3. E \in Nat
    <3>1. Len(delivered) \in 0 .. Len(plan)
      <4>1. Len(delivered) \in Nat
        BY DEF IInv, Types, TypeOK
      <4> QED
        BY <1>2, <2>2, <4>1, Constants
    <3> QED
      BY <1>2, <3>1, EndOfType
  <2> QED
    BY <1>1, <1>2, <1>3, <2>1, <2>2, <2>3 DEF IInv, Order, BufferFollowsDelivered
<1>12. InStream'
  BY <1>1, <1>7, <1>11 DEF InStream
<1>13. BufferFollowsDelivered'
  <2> SUFFICES ASSUME intact'
               PROVE  C \o bytes = [i \in 1 .. upTo' - E |-> E + i]
    BY <1>1, <1>6, <1>7 DEF BufferFollowsDelivered
  <2>1. /\ E \in Nat /\ chunk.first = upTo + 1 /\ E <= upTo
        /\ C = [i \in 1 .. upTo - E |-> E + i]
    BY <1>11
  <2> HIDE DEF C, E
  <2>2. upTo - E \in Nat /\ upTo' - E = (upTo - E) + Length(chunk)
    <3>1. upTo' = chunk.last
      BY <1>1
    <3>2. upTo' = upTo + Length(chunk) /\ upTo \in Nat
      BY <1>2, <1>3, <1>4, <2>1, <3>1
    <3> QED
      BY <1>4, <2>1, <3>2
  <2>3. C \in Seq(Nat) /\ Len(C) = upTo - E
    <3>1. C \in [1 .. upTo - E -> Nat]
      BY <2>1, <2>2
    <3> QED
      BY <2>2, <3>1
  <2>4. /\ C \o bytes \in Seq(Nat) /\ Len(C \o bytes) = upTo' - E
        /\ \A i \in 1 .. upTo' - E : (C \o bytes)[i] = IF i <= upTo - E THEN C[i] ELSE bytes[i - (upTo - E)]
    <3>1. bytes \in Seq(Nat)
      BY <1>5
    <3>2. /\ C \o bytes \in Seq(Nat) /\ Len(C \o bytes) = Len(C) + Len(bytes)
          /\ \A i \in 1 .. Len(C) + Len(bytes) : (C \o bytes)[i] = IF i <= Len(C) THEN C[i] ELSE bytes[i - Len(C)]
      BY <2>3, <3>1, ConcatProperties, Zenon
    <3>3. Len(C) = upTo - E /\ Len(C) + Len(bytes) = upTo' - E
      BY <1>5, <2>2, <2>3
    <3> QED
      BY <3>2, <3>3, Zenon
  <2>5. ASSUME NEW i \in 1 .. upTo' - E PROVE (C \o bytes)[i] = E + i
    <3>1. CASE i <= upTo - E
      <4>1. i \in 1 .. upTo - E
        BY <2>2, <3>1
      <4> QED
        BY <2>1, <2>4, <3>1, <4>1
    <3>2. CASE ~ (i <= upTo - E)
      <4>1. i - (upTo - E) \in 1 .. Length(chunk)
        BY <1>4, <2>2, <3>2
      <4>2. bytes[i - (upTo - E)] = chunk.first + (i - (upTo - E)) - 1
        BY <1>5, <4>1
      <4>3. chunk.first + (i - (upTo - E)) - 1 = E + i
        BY <1>2, <2>1, <2>2
      <4> QED
        BY <2>4, <3>2, <4>2, <4>3
    <3> QED
      BY <3>1, <3>2
  <2>6. C \o bytes = [i \in 1 .. upTo' - E |-> (C \o bytes)[i]]
    BY <2>4, SequenceFacts, Zenon
  <2> QED
    BY <2>5, <2>6
<1>14. NothingStranded' /\ MagicFailsOnlyWrapped'
  BY <1>1, Constants DEF NothingStranded, MagicFailsOnlyWrapped
<1> QED
  BY <1>9, <1>10, <1>12, <1>13, <1>14 DEF IInv, Order

\* A thread gets the lock, and does one or the other.
LEMMA AppendChunkIInv == ASSUME IInv, NEW w \in Worker, AppendChunk(w) PROVE IInv'
<1>1. \/ Release(w) /\ UNCHANGED <<bufferVars, upTo, intact>>
      \/ lock' = w
  BY DEF AppendChunk
<1> QED
  BY <1>1, DropChunkIInv, WriteChunkIInv

\* What follows byte e in the stream, up to byte upTo, is as long as that.
LEMMA RestLength ==
  ASSUME BufferOK, upTo \in Nat, NEW e \in Nat, e <= upTo,
         ReadBuffer!Contents = [i \in 1 .. upTo - e |-> e + i]
  PROVE  ReadBuffer!DataLength = upTo - e
<1>1. ReadBuffer!Contents \in [1 .. upTo - e -> Nat] /\ upTo - e \in Nat
  OBVIOUS
<1>2. Len(ReadBuffer!Contents) = upTo - e
  BY <1>1, SequenceFacts, Zenon
<1> QED
  BY <1>2, ContentsType

\* The length a header is decoded to, whatever its bytes are.
LEMMA FieldsType == ASSUME plan \in Plans, NEW f \in Fields PROVE f.len \in Nat
<1> DEFINE own == {k \in 1 .. Len(plan) : HeaderBytes = HeaderOf(k)}
<1>1. CASE own # {}
  <2>1. f \in {plan[k] : k \in own}
    BY <1>1 DEF Fields
  <2>2. PICK k \in 1 .. Len(plan) : f = plan[k]
    BY <2>1
  <2> QED
    BY <2>2, EndOfType
<1>2. CASE own = {}
  BY <1>2 DEF Fields
<1> QED
  BY <1>1, <1>2

\* On a stream appended in order the header at the start of the buffer is that
\* of the next packet of the plan, and is decoded to its length and type.
LEMMA NextHeader ==
  ASSUME IInv, intact, ReadBuffer!DataLength >= Header
  PROVE  LET d == Len(delivered)
         IN  /\ d \in Nat /\ d + 1 \in 1 .. Len(plan)
             /\ EndOf[d] \in Nat /\ EndOf[d] <= upTo /\ upTo \in Nat
             /\ ReadBuffer!DataLength = upTo - EndOf[d]
             /\ \A i \in 1 .. upTo - EndOf[d] : ReadBuffer!Contents[i] = EndOf[d] + i
             /\ HeaderBytes = HeaderOf(d + 1)
             /\ IsMagicMatch
             /\ Fields = {plan[d + 1]}
<1> DEFINE d == Len(delivered)
           E == EndOf[d]
           C == ReadBuffer!Contents
<1>1. /\ BufferOK /\ plan \in Plans /\ Total \in Nat /\ arrived \in 0 .. Total
      /\ received \in 0 .. arrived /\ upTo \in 0 .. received
      /\ Header \in Nat /\ Header > 0 /\ Len(plan) \in Nat
  BY TypeFacts, Constants
<1>2. d \in 0 .. Len(plan) /\ E <= upTo /\ C = [i \in 1 .. upTo - E |-> E + i]
  <2>1. d \in Nat
    BY DEF IInv, Types, TypeOK
  <2> QED
    BY <1>1, <2>1 DEF IInv, Order, DeliveredInOrder, InStream, BufferFollowsDelivered
<1>3. E \in Nat /\ upTo - E \in Nat
  BY <1>1, <1>2, EndOfType
<1>4. ReadBuffer!DataLength = upTo - E
  BY <1>1, <1>2, <1>3, RestLength
<1>5. d + 1 \in 1 .. Len(plan)
  <2>1. d # Len(plan)
    BY <1>1, <1>3, <1>4 DEF Total
  <2> QED
    BY <1>1, <1>2, <2>1
<1>6. \A i \in 1 .. upTo - E : C[i] = E + i
  BY <1>2
<1>7. HeaderBytes = HeaderOf(d + 1)
  <2>1. HeaderBytes = [i \in 1 .. Header |-> C[i]]
    BY <1>1, HeaderIs
  <2>2. HeaderOf(d + 1) = [i \in 1 .. Header |-> E + i]
    <3>1. (d + 1) - 1 = d
      BY <1>2
    <3> QED
      BY <3>1 DEF HeaderOf
  <2>3. \A i \in 1 .. Header : C[i] = E + i
    BY <1>1, <1>3, <1>4, <1>6
  <2> HIDE DEF C, E, d
  <2> QED
    BY <2>1, <2>2, <2>3
<1>8. IsMagicMatch
  BY <1>5, <1>7 DEF IsMagicMatch
<1>9. ASSUME NEW k \in 1 .. Len(plan), HeaderOf(k) = HeaderOf(d + 1) PROVE k = d + 1
  <2>1. HeaderOf(k)[1] = EndOf[k - 1] + 1 /\ HeaderOf(d + 1)[1] = EndOf[d] + 1
    <3>1. 1 \in 1 .. Header /\ (d + 1) - 1 = d
      BY <1>1, <1>2
    <3> QED
      BY <3>1 DEF HeaderOf
  <2>2. k - 1 \in 0 .. Len(plan) /\ EndOf[k - 1] \in Nat
    BY <1>1, EndOfType
  <2>3. EndOf[k - 1] = EndOf[d]
    BY <1>3, <1>9, <2>1, <2>2
  <2>4. ~ (k - 1 < d)
    <3>1. k - 1 < d => EndOf[k - 1] + Header <= EndOf[d]
      BY <1>1, <1>2, <2>2, EndOfGrows
    <3> QED
      BY <1>1, <1>3, <2>3, <3>1
  <2>5. ~ (d < k - 1)
    <3>1. d < k - 1 => EndOf[d] + Header <= EndOf[k - 1]
      BY <1>1, <1>2, <2>2, EndOfGrows
    <3> QED
      BY <1>1, <1>3, <2>3, <3>1
  <2> QED
    BY <1>2, <2>4, <2>5
<1>10. Fields = {plan[d + 1]}
  <2> DEFINE own == {k \in 1 .. Len(plan) : HeaderBytes = HeaderOf(k)}
  <2>1. own = {d + 1}
    BY <1>5, <1>7, <1>9
  <2>2. Fields = IF own # {} THEN {plan[k] : k \in own} ELSE [len : 0 .. Size, known : BOOLEAN]
    BY DEF Fields
  <2> HIDE DEF own
  <2> QED
    BY <2>1, <2>2
<1> QED
  BY <1>1, <1>2, <1>3, <1>4, <1>5, <1>6, <1>7, <1>8, <1>10

\* The loop of the decoder ends: less than a header is left,
LEMMA StopIInv == ASSUME IInv, NEW w \in Worker, DecodeNext(w), Stop(w) PROVE IInv'
<1>1. /\ ~aborted /\ lock' = NoWorker
      /\ UNCHANGED <<reactorVars, chunks, waiting, upTo, intact, bufferVars, delivered, aborted>>
  BY DEF DecodeNext, Stop, Release
<1>2. Order' /\ BytesArrived' /\ BufferOK' /\ Total' = Total
      /\ UNCHANGED <<ReadBuffer!Contents, ReadBuffer!DataLength, EndOf, Total>>
  BY <1>1, SameOrder DEF reactorVars
<1>3. holding' \in [Worker -> Chunk \cup {NoChunk}] /\ ChunksReceived'
  BY <1>1, ReleaseTypes DEF Stop
<1>4. TypeOK'
  BY <1>1, <1>2, <1>3 DEF IInv, Types, TypeOK, reactorVars, BufferOK, Chunk
<1>5. NothingStranded'
  <2> DEFINE next == Len(delivered) + 1
  <2> SUFFICES ASSUME intact, next <= Len(plan) PROVE upTo < EndOf[next]
    BY <1>1, <1>2 DEF NothingStranded, reactorVars
  <2> DEFINE E == EndOf[Len(delivered)]
             C == ReadBuffer!Contents
  <2>1. /\ BufferOK /\ plan \in Plans /\ upTo \in Nat /\ Header \in Nat /\ Len(plan) \in Nat
        /\ Len(delivered) \in Nat
    BY TypeFacts, Constants DEF IInv, Types, TypeOK
  <2>2. E <= upTo /\ C = [i \in 1 .. upTo - E |-> E + i]
    BY DEF IInv, Order, InStream, BufferFollowsDelivered
  <2>3. /\ E \in Nat /\ EndOf[next] \in Nat /\ plan[next].len \in Nat
        /\ EndOf[next] = E + Header + plan[next].len
    <3>1. next \in 1 .. Len(plan) /\ next \in 0 .. Len(plan) /\ next - 1 = Len(delivered)
          /\ Len(delivered) \in 0 .. Len(plan)
      BY <2>1
    <3> HIDE DEF next
    <3> QED
      BY <2>1, <3>1, EndOfType
  <2>4. ReadBuffer!DataLength = upTo - E
    BY <2>1, <2>2, <2>3, RestLength
  <2>5. ReadBuffer!DataLength < Header
    BY DEF Stop
  <2> QED
    BY <2>1, <2>3, <2>4, <2>5
<1>6. MagicFailsOnlyWrapped'
  BY <1>1 DEF MagicFailsOnlyWrapped
<1> QED
  BY <1>2, <1>3, <1>4, <1>5, <1>6 DEF IInv, Types, BufferOK

\* or the next packet is not complete, or of a type that is not known.
LEMMA IncompleteIInv == ASSUME IInv, NEW w \in Worker, DecodeNext(w), Incomplete(w) PROVE IInv'
<1>1. /\ ~aborted /\ lock' = NoWorker
      /\ UNCHANGED <<reactorVars, chunks, waiting, upTo, intact, bufferVars, delivered, aborted>>
  BY DEF DecodeNext, Incomplete, Release
<1>2. Order' /\ BytesArrived' /\ BufferOK' /\ Total' = Total
      /\ UNCHANGED <<ReadBuffer!Contents, ReadBuffer!DataLength, EndOf, Total>>
  BY <1>1, SameOrder DEF reactorVars
<1>3. holding' \in [Worker -> Chunk \cup {NoChunk}] /\ ChunksReceived'
  BY <1>1, ReleaseTypes DEF Incomplete
<1>4. TypeOK'
  BY <1>1, <1>2, <1>3 DEF IInv, Types, TypeOK, reactorVars, BufferOK, Chunk
<1>5. NothingStranded'
  <2> DEFINE d == Len(delivered)
             next == d + 1
  <2> SUFFICES ASSUME intact PROVE upTo < EndOf[next] \/ (plan[next].len # 0 /\ ~plan[next].known)
    BY <1>1, <1>2 DEF NothingStranded, reactorVars
  <2>1. PICK f \in Fields : f.len # 0 /\ (ReadBuffer!DataLength - Header < f.len \/ ~f.known)
    BY DEF Incomplete
  <2>2. /\ d \in Nat /\ next \in 1 .. Len(plan) /\ EndOf[d] \in Nat /\ upTo \in Nat
        /\ ReadBuffer!DataLength = upTo - EndOf[d] /\ Fields = {plan[next]}
    BY NextHeader DEF Incomplete
  <2>3. f = plan[next] /\ next - 1 = d
    BY <2>1, <2>2
  <2>4. EndOf[next] = EndOf[d] + Header + plan[next].len /\ plan[next].len \in Nat
    BY <2>2, <2>3, EndOfType, TypeFacts
  <2> HIDE DEF next, d
  <2>5. CASE ReadBuffer!DataLength - Header < f.len
    BY <2>2, <2>3, <2>4, <2>5, Constants
  <2> QED
    BY <2>1, <2>3, <2>5
<1>6. MagicFailsOnlyWrapped'
  BY <1>1 DEF MagicFailsOnlyWrapped
<1> QED
  BY <1>2, <1>3, <1>4, <1>5, <1>6 DEF IInv, Types, BufferOK

\* The assertion on the magic number ends the process.
LEMMA GarbageIInv == ASSUME IInv, NEW w \in Worker, DecodeNext(w), Garbage PROVE IInv'
<1>1. /\ ReadBuffer!DataLength >= Header /\ aborted' = TRUE
      /\ ~IsMagicMatch \/ ~ReadBuffer!ReadInPlaceOk(Header)
      /\ UNCHANGED <<reactorVars, chunks, waiting, upTo, intact, bufferVars, holding, lock, delivered>>
  BY DEF DecodeNext, Garbage
<1>2. Order' /\ BytesArrived' /\ BufferOK' /\ Total' = Total
  BY <1>1, SameOrder DEF reactorVars
<1>3. ChunksReceived'
  BY <1>1 DEF IInv, Types, ChunksReceived, reactorVars
<1>4. TypeOK'
  <2>1. aborted' \in BOOLEAN
    BY <1>1, Zenon
  <2> QED
    BY <1>1, <1>2, <2>1 DEF IInv, Types, TypeOK, reactorVars, BufferOK
<1>5. NothingStranded'
  BY <1>1 DEF NothingStranded
<1>6. MagicFailsOnlyWrapped'
  <2>1. intact => ~ReadBuffer!ReadInPlaceOk(Header)
    BY <1>1, NextHeader
  <2> QED
    BY <1>1, <2>1 DEF MagicFailsOnlyWrapped, bufferVars, ReadBuffer!ReadInPlaceOk, ReadBuffer!DataLength
<1> QED
  BY <1>2, <1>3, <1>4, <1>5, <1>6 DEF IInv, Types, BufferOK

\* A packet is delivered.
LEMMA DeliverIInv == ASSUME IInv, NEW w \in Worker, DecodeNext(w), Deliver(w) PROVE IInv'
<1> DEFINE d == Len(delivered)
           C == ReadBuffer!Contents
           length == ReadBuffer!DataLength
<1>1. /\ lock = w /\ ~aborted /\ length >= Header
      /\ UNCHANGED <<reactorVars, chunks, waiting, upTo, intact, aborted, holding, lock>>
  BY DEF DecodeNext, Deliver, TakePacket
<1>2. PICK f \in Fields :
        /\ f.len = 0 \/ (f.known /\ length - Header >= f.len)
        /\ ReadBuffer!DecreaseUsedSpace(Consumed(f.len))
        /\ delivered' = Append(delivered, [header |-> HeaderBytes, payload |-> PayloadBytes(f.len)])
  BY DEF Deliver, TakePacket
<1> DEFINE n == f.len
           packet == [header |-> HeaderBytes, payload |-> PayloadBytes(n)]
<1>3. /\ BufferOK /\ BytesArrived /\ plan \in Plans /\ Total \in Nat /\ length \in Nat
      /\ Header \in Nat /\ Header > 0 /\ upTo \in Nat
  BY TypeFacts, Room, Constants
<1>4. n \in Nat /\ Header + n <= length /\ Consumed(n) = Header + n
  BY <1>1, <1>2, <1>3, FieldsType DEF Consumed
<1> HIDE DEF n
<1>5. /\ HeaderBytes = [i \in 1 .. Header |-> C[i]]
      /\ PayloadBytes(n) = [i \in 1 .. n |-> C[Header + i]]
  BY <1>1, <1>3, <1>4, HeaderIs, PayloadIs
<1>6. HeaderBytes \in Seq(0 .. Total) /\ PayloadBytes(n) \in Seq(0 .. Total)
  <2>1. \A i \in 1 .. length : C[i] \in 0 .. Total
    BY <1>3, ContentsArrived
  <2>2. /\ \A i \in 1 .. Header : i \in 1 .. length
        /\ \A i \in 1 .. n : Header + i \in 1 .. length
    BY <1>1, <1>3, <1>4
  <2> HIDE DEF C, length
  <2>3. HeaderBytes \in [1 .. Header -> 0 .. Total] /\ PayloadBytes(n) \in [1 .. n -> 0 .. Total]
    BY <1>5, <2>1, <2>2
  <2> QED
    BY <1>3, <1>4, <2>3, SequenceFacts, Zenon
<1>7. BufferOK' /\ (ReadBuffer!Contents)' = SubSeq(C, Header + n + 1, length)
  <2>1. Header + n \in Nat /\ Header + n > 0 /\ ReadBuffer!DecreaseUsedSpace(Header + n)
    BY <1>2, <1>3, <1>4 DEF n
  <2> QED
    BY <1>3, <2>1, DecreaseShortens
<1>8. EndOf' = EndOf /\ Total' = Total /\ \A k : HeaderOf(k)' = HeaderOf(k) /\ PayloadOf(k)' = PayloadOf(k)
  BY <1>1, EndOfKept, PacketsKept DEF reactorVars
<1>9. BytesArrived'
  BY <1>2, <1>8 DEF IInv, Types, BytesArrived, ReadBuffer!DecreaseUsedSpace
<1>10. /\ d \in Nat /\ Len(delivered') = d + 1 /\ delivered'[d + 1] = packet
       /\ \A i \in 1 .. d : delivered'[i] = delivered[i]
  BY <1>2 DEF n
<1>11. Types'
  <2>1. TypeOK'
    <3>1. \A i \in 1 .. Len(delivered') : i \in 1 .. d \/ i = d + 1
      BY <1>10
    <3>2. ASSUME NEW i \in 1 .. Len(delivered')
          PROVE  delivered'[i].header \in Seq(0 .. Total) /\ delivered'[i].payload \in Seq(0 .. Total)
      <4>1. CASE i \in 1 .. d
        <5>1. delivered'[i] = delivered[i]
          BY <1>10, <4>1
        <5>2. delivered[i].header \in Seq(0 .. Total) /\ delivered[i].payload \in Seq(0 .. Total)
          BY <4>1 DEF IInv, Types, TypeOK
        <5> QED
          BY <5>1, <5>2
      <4>2. CASE i = d + 1
        <5>1. delivered'[i] = packet
          BY <1>10, <4>2
        <5>2. packet.header = HeaderBytes /\ packet.payload = PayloadBytes(n)
          OBVIOUS
        <5> HIDE DEF packet
        <5> QED
          BY <1>6, <5>1, <5>2
      <4> QED
        BY <3>1, <4>1, <4>2
    <3> QED
      BY <1>1, <1>7, <1>8, <3>2 DEF IInv, Types, TypeOK, reactorVars, BufferOK
  <2>2. ChunksReceived'
    BY <1>1 DEF IInv, Types, ChunksReceived, reactorVars
  <2> QED
    BY <1>7, <1>9, <2>1, <2>2 DEF Types, BufferOK
<1>12. ASSUME intact
       PROVE  /\ d + 1 \in 1 .. Len(plan) /\ n = plan[d + 1].len
              /\ EndOf[d] \in Nat /\ EndOf[d + 1] = EndOf[d] + Header + n
              /\ length = upTo - EndOf[d]
              /\ \A i \in 1 .. upTo - EndOf[d] : C[i] = EndOf[d] + i
              /\ HeaderBytes = HeaderOf(d + 1)
              /\ PayloadBytes(n) = PayloadOf(d + 1)
  <2>1. /\ d + 1 \in 1 .. Len(plan) /\ EndOf[d] \in Nat /\ length = upTo - EndOf[d]
        /\ \A i \in 1 .. upTo - EndOf[d] : C[i] = EndOf[d] + i
        /\ HeaderBytes = HeaderOf(d + 1) /\ Fields = {plan[d + 1]}
    BY <1>1, <1>12, NextHeader
  <2>2. n = plan[d + 1].len /\ (d + 1) - 1 = d
    BY <1>2, <1>10, <2>1 DEF n
  <2>3. EndOf[d + 1] = EndOf[d] + Header + n
    BY <1>3, <2>1, <2>2, EndOfType
  <2>4. PayloadOf(d + 1) = [i \in 1 .. n |-> EndOf[d] + Header + i]
    BY <2>2 DEF PayloadOf
  <2>5. \A i \in 1 .. n : C[Header + i] = EndOf[d] + Header + i
    <3>1. \A i \in 1 .. n : Header + i \in 1 .. upTo - EndOf[d] /\ EndOf[d] + (Header + i) = EndOf[d] + Header + i
      BY <1>3, <1>4, <2>1
    <3> QED
      BY <2>1, <3>1
  <2> HIDE DEF C, length, d
  <2>6. PayloadBytes(n) = PayloadOf(d + 1)
    BY <1>5, <2>4, <2>5
  <2> QED
    BY <2>1, <2>2, <2>3, <2>6
<1>13. DeliveredInOrder'
  <2> SUFFICES ASSUME intact
               PROVE  /\ d + 1 <= Len(plan)
                      /\ \A i \in 1 .. d + 1 : delivered'[i] = [header |-> HeaderOf(i), payload |-> PayloadOf(i)]
    BY <1>1, <1>8, <1>10 DEF DeliveredInOrder, reactorVars
  <2>1. \A i \in 1 .. d : delivered[i] = [header |-> HeaderOf(i), payload |-> PayloadOf(i)]
    BY DEF IInv, Order, DeliveredInOrder
  <2>2. packet = [header |-> HeaderOf(d + 1), payload |-> PayloadOf(d + 1)]
    BY <1>12
  <2>3. d + 1 <= Len(plan)
    BY <1>12
  <2>4. \A i \in 1 .. d + 1 : i \in 1 .. d \/ i = d + 1
    BY <1>10
  <2> HIDE DEF d, packet
  <2> QED
    BY <1>10, <2>1, <2>2, <2>3, <2>4
<1>14. InStream' /\ BufferFollowsDelivered'
  <2> SUFFICES ASSUME intact
               PROVE  /\ EndOf[d + 1] <= upTo
                      /\ SubSeq(C, Header + n + 1, length) = [i \in 1 .. upTo - EndOf[d + 1] |-> EndOf[d + 1] + i]
    BY <1>1, <1>7, <1>8, <1>10 DEF InStream, BufferFollowsDelivered
  <2>1. /\ EndOf[d] \in Nat /\ EndOf[d + 1] = EndOf[d] + Header + n /\ length = upTo - EndOf[d]
        /\ \A i \in 1 .. upTo - EndOf[d] : C[i] = EndOf[d] + i
    BY <1>12
  <2>2. C \in Seq(Nat) /\ Len(C) = length
    BY <1>3, ContentsType
  <2> HIDE DEF C, length, d
  <2>3. EndOf[d + 1] <= upTo /\ length - (Header + n) = upTo - EndOf[d + 1]
    BY <1>3, <1>4, <2>1
  <2>4. SubSeq(C, Header + n + 1, length) = [i \in 1 .. length - (Header + n) |-> C[Header + n + i]]
    BY <1>3, <1>4, <2>2
  <2>5. \A i \in 1 .. length - (Header + n) : C[Header + n + i] = EndOf[d + 1] + i
    <3>1. \A i \in 1 .. length - (Header + n) :
            Header + n + i \in 1 .. upTo - EndOf[d] /\ EndOf[d] + (Header + n + i) = EndOf[d + 1] + i
      BY <1>3, <1>4, <2>1
    <3> QED
      BY <2>1, <3>1
  <2> QED
    BY <2>3, <2>4, <2>5
<1>15. NothingStranded' /\ MagicFailsOnlyWrapped'
  BY <1>1, Constants DEF NothingStranded, MagicFailsOnlyWrapped
<1> QED
  BY <1>11, <1>13, <1>14, <1>15 DEF IInv, Order

\* Every step keeps the invariant.
LEMMA NextIInv == IInv /\ [Next]_vars => IInv'
<1> SUFFICES ASSUME IInv, [Next]_vars PROVE IInv'
  OBVIOUS
<1>1. ASSUME NEW w \in Worker, DecodeNext(w) PROVE IInv'
  BY <1>1, StopIInv, GarbageIInv, IncompleteIInv, DeliverIInv DEF DecodeNext
<1>2. CASE UNCHANGED vars
  <2>1. Order' /\ BytesArrived' /\ BufferOK' /\ NothingStranded' /\ MagicFailsOnlyWrapped' /\ Total' = Total
    BY <1>2, Frame DEF vars, reactorVars
  <2>2. TypeOK'
    BY <1>2, <2>1 DEF IInv, Types, TypeOK, vars, reactorVars, BufferOK
  <2>3. ChunksReceived'
    BY <1>2 DEF IInv, Types, ChunksReceived, vars, reactorVars
  <2> QED
    BY <2>1, <2>2, <2>3 DEF IInv, Types, BufferOK
<1> QED
  BY <1>1, <1>2, ArriveIInv, AddToEpollIInv, AddToMapIInv, HandleEpollInIInv, DisconnectIInv,
     TakeTaskIInv, AppendChunkIInv DEF Next

\* So it holds in every behaviour.
LEMMA IInvHolds == Spec => []IInv
  BY InitIInv, NextIInv, PTL DEF Spec

-----------------------------------------------------------------------------

\* The tasks, the lock and the delivered packets have their types: what a
\* packet delivered out of order holds are still bytes of the stream
\* (SlaveReactor.cpp:101-127, SessionDataDecoder.cpp:39-135).
THEOREM TypeCorrect == Spec => []TypeOK
<1>1. IInv => TypeOK
  BY DEF IInv, Types
<1> QED
  BY <1>1, IInvHolds, PTL

\* The loop of the decoder delivers the packets of the peer, each once, in
\* order and with its own payload (SessionDataDecoder.cpp:74-100).
THEOREM DeliveredCorrect == Spec => []DeliveredInOrder
<1>1. IInv => DeliveredInOrder
  BY DEF IInv, Order
<1> QED
  BY <1>1, IInvHolds, PTL

\* Between two rounds of the loop the read buffer holds exactly what follows
\* the last packet delivered (SessionDataDecoder.cpp:63, 99).
THEOREM FollowsCorrect == Spec => []BufferFollowsDelivered
<1>1. IInv => BufferFollowsDelivered
  BY DEF IInv, Order
<1> QED
  BY <1>1, IInvHolds, PTL

\* The loop does not end before the last complete packet
\* (SessionDataDecoder.cpp:74).
THEOREM StrandedCorrect == Spec => []NothingStranded
<1>1. IInv => NothingStranded
  BY DEF IInv
<1> QED
  BY <1>1, IInvHolds, PTL

\* The assertion on the magic number fails on a header that wraps around, or
\* not at all (SessionDataDecoder.cpp:157).
THEOREM MagicCorrect == Spec => []MagicFailsOnlyWrapped
<1>1. IInv => MagicFailsOnlyWrapped
  BY DEF IInv
<1> QED
  BY <1>1, IInvHolds, PTL

-----------------------------------------------------------------------------
(* When the chunks are appended in order: with one thread in the decoder's  *)
(* pool, as long as each chunk finds room in the read buffer.               *)

OneWorker == \E w : Worker = {w}

\* A chunk a thread is about to append finds room.
ChunkFits == \A w \in Worker : AppendChunk(w) => Length(holding[w]) <= ReadBuffer!Space

\* The last byte appended, or about to be by w.
Reached(w) == IF holding[w] # NoChunk /\ lock # w THEN holding[w].last ELSE upTo

\* The byte task i of the pool follows.
Before(w, i) == IF i = 1 THEN Reached(w) ELSE chunks[i - 1].last

\* What w is about to append follows what has been appended, the first task
\* follows that, each task the one before, and the last is what recv returned
\* last.  When the session is being torn down the tasks do not matter.
InLine ==
  /\ intact
  /\ \A w \in Worker :
       /\ lock = w => holding[w] # NoChunk
       /\ holding[w] # NoChunk /\ lock # w => holding[w].first = upTo + 1
       /\ ~waiting => /\ \A i \in 1 .. Len(chunks) : chunks[i].first = Before(w, i) + 1
                      /\ received = Before(w, Len(chunks) + 1)

\* A step that leaves the tasks and the threads alone.
LEMMA SameLine ==
  ASSUME InLine, UNCHANGED <<received, chunks, holding, lock, upTo, intact>>,
         waiting => waiting'
  PROVE  InLine'
  BY DEF InLine, Before, Reached

\* Nothing has been received.
LEMMA InitInLine == Init => InLine
<1> SUFFICES ASSUME Init PROVE InLine
  OBVIOUS
<1>1. /\ chunks = << >> /\ received = 0 /\ upTo = 0 /\ lock = NoWorker /\ intact
      /\ \A w \in Worker : holding[w] = NoChunk
  BY DEF Init
<1>2. Len(chunks) = 0
  BY <1>1
<1>3. \A w \in Worker : Reached(w) = 0
  BY <1>1 DEF Reached
<1> QED
  BY <1>1, <1>2, <1>3, Constants DEF InLine, Before

\* A recv puts its task behind the others.
LEMMA HandleEpollInLine == ASSUME IInv, InLine, HandleEpollIn PROVE InLine'
<1>1. UNCHANGED <<holding, lock, upTo, intact, waiting>>
  BY DEF HandleEpollIn
<1>2. CASE UNCHANGED <<received, chunks>>
  BY <1>1, <1>2, SameLine
<1>3. CASE ~ UNCHANGED <<received, chunks>>
  <2> DEFINE last == received + RecvLength
             chunk == [first |-> received + 1, last |-> last]
  <2>1. received' = last /\ chunks' = Append(chunks, chunk)
    BY <1>3 DEF HandleEpollIn
  <2>2. PICK m \in Nat : chunks \in Seq(Chunk) /\ m = Len(chunks)
    BY TypeFacts DEF Chunk
  <2>3. chunk.first = received + 1 /\ chunk.last = last
    OBVIOUS
  <2> HIDE DEF chunk, last
  <2>4. /\ Len(chunks') = m + 1 /\ chunks'[m + 1] = chunk
        /\ \A i \in 1 .. m : chunks'[i] = chunks[i]
    BY <2>1, <2>2
  <2>5. ASSUME NEW w \in Worker, ~waiting
        PROVE  /\ \A i \in 1 .. m + 1 : chunks'[i].first = Before(w, i)' + 1
               /\ received' = Before(w, m + 2)'
    <3>1. Reached(w)' = Reached(w)
      BY <1>1 DEF Reached
    <3>2. \A i \in 1 .. m + 1 : Before(w, i)' = Before(w, i)
      <4> SUFFICES ASSUME NEW i \in 1 .. m + 1 PROVE Before(w, i)' = Before(w, i)
        OBVIOUS
      <4>1. CASE i = 1
        BY <3>1, <4>1 DEF Before
      <4>2. CASE i # 1
        <5>1. i - 1 \in 1 .. m
          BY <2>2, <4>2
        <5>2. chunks'[i - 1] = chunks[i - 1]
          BY <2>4, <5>1
        <5> QED
          BY <4>2, <5>2 DEF Before
      <4> QED
        BY <4>1, <4>2
    <3>3. received = Before(w, m + 1) /\ \A i \in 1 .. m : chunks[i].first = Before(w, i) + 1
      BY <2>2, <2>5 DEF InLine
    <3>4. \A i \in 1 .. m + 1 : chunks'[i].first = Before(w, i)' + 1
      <4> SUFFICES ASSUME NEW i \in 1 .. m + 1 PROVE chunks'[i].first = Before(w, i) + 1
        BY <3>2
      <4>1. CASE i = m + 1
        BY <2>3, <2>4, <3>3, <4>1
      <4>2. CASE i \in 1 .. m
        BY <2>4, <3>3, <4>2
      <4> QED
        BY <2>2, <4>1, <4>2
    <3>5. Before(w, m + 2)' = chunks'[m + 1].last
      <4>1. m + 2 # 1 /\ m + 2 - 1 = m + 1
        BY <2>2
      <4> QED
        BY <4>1 DEF Before
    <3> QED
      BY <2>1, <2>3, <2>4, <3>4, <3>5
  <2>6. Len(chunks') + 1 = m + 2
    BY <2>2, <2>4
  <2> QED
    BY <1>1, <2>4, <2>5, <2>6 DEF InLine
<1> QED
  BY <1>2, <1>3

\* The thread takes the first task, and the next one becomes the first.
LEMMA TakeTaskLine ==
  ASSUME IInv, InLine, NEW w \in Worker, Worker = {w}, TakeTask(w)
  PROVE  InLine'
<1>1. /\ holding[w] = NoChunk /\ chunks # << >> /\ chunks' = Tail(chunks)
      /\ holding' = [holding EXCEPT ![w] = IF waiting THEN NoChunk ELSE Head(chunks)]
      /\ UNCHANGED <<received, lock, upTo, intact, waiting>>
  BY DEF TakeTask, reactorVars
<1>2. PICK m \in Nat :
        /\ chunks \in Seq(Chunk) /\ m = Len(chunks) /\ m >= 1
        /\ holding \in [Worker -> Chunk \cup {NoChunk}]
  BY <1>1, TypeFacts, EmptySeq DEF Chunk
<1>3. /\ Len(chunks') = m - 1 /\ Head(chunks) = chunks[1]
      /\ \A i \in 1 .. m - 1 : chunks'[i] = chunks[i + 1]
  BY <1>1, <1>2, HeadTailProperties
<1>4. lock # w
  BY <1>1 DEF InLine
<1>5. Reached(w) = upTo
  BY <1>1 DEF Reached
<1>6. CASE waiting
  <2>1. holding'[w] = NoChunk
    BY <1>1, <1>2, <1>6
  <2> QED
    BY <1>1, <1>4, <1>6, <2>1 DEF InLine
<1>7. CASE ~waiting
  <2>1. holding'[w] = chunks[1]
    BY <1>1, <1>2, <1>3, <1>7
  <2>2. /\ \A i \in 1 .. m : chunks[i].first = Before(w, i) + 1
        /\ received = Before(w, m + 1)
    BY <1>2, <1>7 DEF InLine
  <2>3. chunks[1].first = upTo + 1
    <3>1. 1 \in 1 .. m
      BY <1>2
    <3> QED
      BY <1>5, <2>2, <3>1 DEF Before
  <2>4. holding'[w] # NoChunk
    <3>1. chunks[1] \in Chunk /\ 1 \in DOMAIN chunks
      BY <1>2
    <3>2. IsReceived(chunks[1], received)
      BY <3>1 DEF IInv, Types, ChunksReceived
    <3>3. ~IsReceived(NoChunk, received)
      BY DEF NoChunk, IsReceived
    <3> QED
      BY <2>1, <3>2, <3>3
  <2>5. Reached(w)' = chunks[1].last
    BY <1>1, <1>4, <2>1, <2>4 DEF Reached
  <2>6. \A i \in 1 .. m : Before(w, i)' = Before(w, i + 1)
    <3> SUFFICES ASSUME NEW i \in 1 .. m PROVE Before(w, i)' = Before(w, i + 1)
      OBVIOUS
    <3>1. i + 1 # 1 /\ i + 1 - 1 = i
      BY <1>2
    <3>2. Before(w, i + 1) = chunks[i].last
      BY <3>1 DEF Before
    <3>3. CASE i = 1
      BY <2>5, <3>2, <3>3 DEF Before
    <3>4. CASE i # 1
      <4>1. i - 1 \in 1 .. m - 1 /\ i - 1 + 1 = i
        BY <1>2, <3>4
      <4>2. chunks'[i - 1] = chunks[i]
        BY <1>3, <4>1
      <4> QED
        BY <3>2, <3>4, <4>2 DEF Before
    <3> QED
      BY <3>3, <3>4
  <2>7. \A i \in 1 .. m - 1 : chunks'[i].first = Before(w, i)' + 1
    <3> SUFFICES ASSUME NEW i \in 1 .. m - 1 PROVE chunks'[i].first = Before(w, i)' + 1
      OBVIOUS
    <3>1. i \in 1 .. m /\ i + 1 \in 1 .. m
      BY <1>2
    <3> QED
      BY <1>3, <2>2, <2>6, <3>1
  <2>8. received' = Before(w, m)'
    <3>1. m \in 1 .. m
      BY <1>2
    <3> QED
      BY <1>1, <2>2, <2>6, <3>1
  <2>9. Len(chunks') + 1 = m
    BY <1>2, <1>3
  <2> QED
    BY <1>1, <1>3, <1>4, <2>1, <2>3, <2>7, <2>8, <2>9 DEF InLine
<1> QED
  BY <1>6, <1>7

\* It appends what it holds.
LEMMA AppendChunkLine ==
  ASSUME IInv, InLine, NEW w \in Worker, Worker = {w}, AppendChunk(w), ChunkFits
  PROVE  InLine'
<1>1. w # NoWorker /\ lock = NoWorker /\ holding[w] # NoChunk
      /\ UNCHANGED <<received, chunks, waiting>>
  BY Constants DEF AppendChunk, reactorVars
<1>2. ~(Length(holding[w]) > ReadBuffer!Space)
  <2>1. Length(holding[w]) <= ReadBuffer!Space
    BY DEF ChunkFits
  <2>2. ReadBuffer!Space \in Int
    BY TypeFacts, Room, Constants
  <2>3. Length(holding[w]) \in Int
    <3>1. holding[w] \in Chunk /\ Total \in Nat
      BY <1>1, TypeFacts DEF Chunk
    <3> QED
      BY <3>1 DEF Chunk, Length
  <2> QED
    BY <2>1, <2>2, <2>3
<1>3. /\ lock' = w /\ upTo' = holding[w].last /\ holding' = holding
      /\ intact' = (intact /\ holding[w].first = upTo + 1)
  BY <1>2 DEF AppendChunk
<1>4. intact'
  BY <1>1, <1>3 DEF InLine
<1>5. Reached(w)' = Reached(w)
  BY <1>1, <1>3 DEF Reached
<1>6. \A i : Before(w, i)' = Before(w, i)
  BY <1>1, <1>5 DEF Before
<1> QED
  BY <1>1, <1>3, <1>4, <1>6 DEF InLine

\* It takes packets off, and puts down what it has appended.
LEMMA DecodeNextLine ==
  ASSUME IInv, InLine, NEW w \in Worker, Worker = {w}, DecodeNext(w)
  PROVE  InLine'
<1>1. /\ lock = w /\ w # NoWorker
      /\ UNCHANGED <<received, chunks, waiting, upTo, intact>>
      /\ UNCHANGED <<holding, lock>> \/ Release(w)
  BY Constants DEF DecodeNext, reactorVars, Stop, Garbage, Incomplete, Deliver
<1>2. CASE UNCHANGED <<holding, lock>>
  BY <1>1, <1>2, SameLine
<1>3. CASE Release(w)
  <2>1. holding'[w] = NoChunk /\ lock' # w
    <3>1. holding \in [Worker -> Chunk \cup {NoChunk}]
      BY TypeFacts DEF Chunk
    <3> QED
      BY <1>1, <1>3, <3>1 DEF Release
  <2>2. Reached(w)' = Reached(w)
    BY <1>1, <2>1 DEF Reached
  <2>3. \A i : Before(w, i)' = Before(w, i)
    BY <1>1, <2>2 DEF Before
  <2> QED
    BY <1>1, <2>1, <2>3 DEF InLine
<1> QED
  BY <1>1, <1>2, <1>3

\* Every step of the one thread, and of the others around it, keeps the line.
LEMMA NextInLine ==
  ASSUME OneWorker, IInv, InLine, [Next]_vars, [ChunkFits]_vars
  PROVE  InLine'
<1>1. PICK w : Worker = {w}
  BY DEF OneWorker
<1>2. CASE Arrive \/ AddToEpoll \/ AddToMap
  BY <1>2, SameLine DEF Arrive, AddToEpoll, AddToMap
<1>3. CASE HandleEpollIn
  BY <1>3, HandleEpollInLine
<1>4. CASE Disconnect
  BY <1>4, SameLine DEF Disconnect, reactorVars
<1>5. CASE TakeTask(w)
  BY <1>1, <1>5, TakeTaskLine
<1>6. CASE UNCHANGED vars
  BY <1>6, SameLine DEF vars, reactorVars
<1>7. CASE AppendChunk(w)
  BY <1>1, <1>6, <1>7, AppendChunkLine
<1>8. CASE DecodeNext(w)
  BY <1>1, <1>8, DecodeNextLine
<1> QED
  BY <1>1, <1>2, <1>3, <1>4, <1>5, <1>6, <1>7, <1>8 DEF Next

\* What a pool of one thread guarantees: however the stream is cut, as long as
\* each chunk finds room, the bytes appended are the stream's, in order, and so
\* the packets delivered are the first ones the peer sent
\* (SessionDataDecoder.cpp:39-105, SlaveReactor.cpp:101-127).
THEOREM OneWorkerCorrect ==
  OneWorker => (Spec /\ [][ChunkFits]_vars => [](intact /\ DeliveredInOrder))
<1> SUFFICES ASSUME OneWorker
             PROVE  Spec /\ [][ChunkFits]_vars => [](intact /\ DeliveredInOrder)
  OBVIOUS
<1>1. IInv /\ InLine /\ [Next]_vars /\ [ChunkFits]_vars => InLine'
  BY NextInLine
<1>2. IInv /\ InLine => intact /\ DeliveredInOrder
  BY DEF IInv, InLine, Order
<1> QED
  BY <1>1, <1>2, InitInLine, IInvHolds, PTL DEF Spec
=============================================================================
