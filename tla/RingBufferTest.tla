--------------------------- MODULE RingBufferTest ---------------------------
(***************************************************************************)
(* The three tests of src/unittest/RingBufferTest.cpp: one packet through  *)
(* a buffer, a buffer filled to its last byte through windows for writing  *)
(* in place, and one filled with writeData.  Each starts from a buffer of  *)
(* its own and they run in the order of the file.  The operations are      *)
(* those of RingBuffer, so a call that returns -1 leaves the test with no  *)
(* step to take.                                                           *)
(***************************************************************************)
EXTENDS RingBuffer

CONSTANTS
  HeaderLength,     \* packetHeader.headerLength()
  PayloadLength,    \* rawStringPacket.packetLength()
  More              \* the packets put into the buffer once it has wrapped

PacketLength == HeaderLength + PayloadLength

\* A packet whose size leaves room for part of another one, as it does in the
\* 32 KiB of the tests, and for the packets put there once the buffer wrapped.
ASSUME PacketAssumption ==
  /\ HeaderLength \in Nat \ {0} /\ PayloadLength \in Nat \ {0} /\ More \in Nat
  /\ Size % PacketLength >= Reserved
  /\ (Size - Reserved) % PacketLength \in 1 .. PacketLength - Reserved
  /\ (More + 1) * PacketLength <= Size - Reserved
ASSUME PacketBytesAssumption == 0 .. PacketLength = Byte /\ Zero = 0

\* The encoded packet: the value of a byte tells its place.
Packet  == [i \in 1 .. PacketLength |-> i]
Header  == SubSeq(Packet, 1, HeaderLength)
Payload == SubSeq(Packet, HeaderLength + 1, PacketLength)

VARIABLES
  test,      \* the test that runs
  phase,     \* the loop it is in
  packets,   \* i, packetSum and packetNum: the packets counted into the buffer
  last       \* lastPacketCopyLength

testVars == <<start, end, buffer, test, phase, packets, last>>

TestInit ==
  /\ Init
  /\ test = "PutOnePacket"
  /\ phase = "put"
  /\ packets = 0
  /\ last = 0

-----------------------------------------------------------------------------
(* What the tests are made of.                                             *)

In(t, p) == test = t /\ phase = p

\* The loop is left; the buffer is as the loop left it.
Leave(p) == phase' = p /\ UNCHANGED <<start, end, buffer, test, packets, last>>

\* One turn of a loop that puts a packet, or takes the one at the front.
Count(n) == packets' = packets + n /\ UNCHANGED <<test, phase, last>>
TakePacket == DecreaseUsedSpace(PacketLength) /\ Count(-1)

ReadHeader == IF ReadInPlaceOk(HeaderLength) THEN CopyFrom(start, HeaderLength)
                                             ELSE ReadData(HeaderLength, 0)

\* The header at the front has the magic and its payload says "hello".
PacketInFront ==
  /\ ReadHeader = Header
  /\ ReadData(PayloadLength, HeaderLength) = Payload

\* The next test constructs its own buffer.
Begin(t) ==
  /\ start' = 0 /\ end' = 0 /\ buffer' = [i \in Slot |-> Zero]
  /\ test' = t
  /\ phase' = "fill"
  /\ packets' = 0
  /\ last' = 0

-----------------------------------------------------------------------------
(* PutOnePacketTest                                                        *)

PutOnePacket ==
  \/ /\ In("PutOnePacket", "put")
     /\ WriteInPlace(Packet)
     /\ phase' = "take"
     /\ packets' = packets + 1
     /\ UNCHANGED <<test, last>>
  \/ In("PutOnePacket", "take") /\ packets > 0 /\ TakePacket
  \/ In("PutOnePacket", "take") /\ packets = 0 /\ Begin("FullBuffer")

-----------------------------------------------------------------------------
(* fullBufferTest                                                          *)

\* Packets until nothing fits, the last of them as far as it goes.
FullFill ==
  LET n == IF WriteWindow >= PacketLength THEN PacketLength ELSE WriteWindow
  IN  /\ In("FullBuffer", "fill")
      /\ Space # 0
      /\ WriteInPlace(SubSeq(Packet, 1, n))
      /\ packets' = IF n = PacketLength THEN packets + 1 ELSE packets
      /\ last' = IF n < PacketLength THEN n ELSE last
      /\ UNCHANGED <<test, phase>>
FullFilled == In("FullBuffer", "fill") /\ Space = 0 /\ Leave("drain")

FullDrain   == In("FullBuffer", "drain") /\ DataLength >= PacketLength /\ TakePacket
FullDrained == In("FullBuffer", "drain") /\ DataLength < PacketLength /\ Leave("complete")

\* The rest of the packet that was cut off.
FullComplete ==
  /\ In("FullBuffer", "complete")
  /\ Write(SubSeq(Packet, last + 1, PacketLength))
  /\ phase' = "more"
  /\ packets' = packets + 1
  /\ UNCHANGED <<test, last>>

FullMore ==
  \/ In("FullBuffer", "more") /\ packets < More + 1 /\ WriteInPlace(Packet) /\ Count(1)
  \/ In("FullBuffer", "more") /\ packets = More + 1 /\ Leave("drainAll")

FullDrainAll ==
  \/ In("FullBuffer", "drainAll") /\ DataLength # 0 /\ TakePacket
  \/ In("FullBuffer", "drainAll") /\ DataLength = 0 /\ Begin("WriteData")

-----------------------------------------------------------------------------
(* FullBufferUseWriteDataTest                                              *)

packetSize == Size \div PacketLength

WriteDataFill ==
  \/ In("WriteData", "fill") /\ packets < packetSize /\ Write(Packet) /\ Count(1)
  \/ In("WriteData", "fill") /\ packets = packetSize /\ Leave("drain")

WriteDataDrain ==
  \/ In("WriteData", "drain") /\ packets > 1 /\ TakePacket
  \/ In("WriteData", "drain") /\ packets = 1 /\ Leave("more")

WriteDataMore ==
  \/ In("WriteData", "more") /\ packets < More + 1 /\ Write(Packet) /\ Count(1)
  \/ In("WriteData", "more") /\ packets = More + 1 /\ Leave("drainAll")

WriteDataDrainAll ==
  \/ In("WriteData", "drainAll") /\ packets > 0 /\ TakePacket
  \/ In("WriteData", "drainAll") /\ packets = 0 /\ Leave("done")

TestNext ==
  \/ PutOnePacket
  \/ FullFill \/ FullFilled \/ FullDrain \/ FullDrained \/ FullComplete \/ FullMore \/ FullDrainAll
  \/ WriteDataFill \/ WriteDataDrain \/ WriteDataMore \/ WriteDataDrainAll

TestSpec == TestInit /\ [][TestNext]_testVars

-----------------------------------------------------------------------------
(* Properties.                                                             *)

\* Every EXPECT of the tests holds: no call fails (RingBufferTest.cpp:49 and
\* the others on ret), every packet taken out is the one put in, whole
\* (147, 316), one split over the end of the vector lies where it should
\* (337), and the lengths add up on the way and at the end (165, 178, 195,
\* 235, 329, 381).
PacketsComeBack ==
  /\ phase # "done" => ENABLED TestNext
  /\ phase \in {"take", "drain", "drainAll"} /\ packets > 0 => PacketInFront
  /\ phase \in {"more", "drainAll"} =>
       /\ DataLength = packets * PacketLength
       /\ \A i \in 0 .. packets - 1 : \A j \in 1 .. PacketLength :
            buffer[(start + i * PacketLength + j - 1) % Size] = Packet[j]
  /\ phase = "complete" => DataLength = last
  /\ phase = "done" => DataLength = 0 /\ Space = Size - Reserved
=============================================================================
