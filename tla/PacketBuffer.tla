---------------------------- MODULE PacketBuffer ----------------------------
(***************************************************************************)
(* The reassembly buffer of a session (Packet::Buffer) and the frame it    *)
(* cuts out of the stream (Packet::BuildFrame).  A frame is a header of    *)
(* two fields, each one byte wide here, the size of the body and the       *)
(* packet id, and the body.                                                *)
(***************************************************************************)
EXTENDS Naturals, Sequences

CONSTANTS
    MaxBodySize     \* Header::MaxBodySize()

ASSUME PacketBufferAssumption == MaxBodySize \in Nat

HeaderSize == 2

Byte == Nat

Packet(id, payload) == [id |-> id, payload |-> payload]

\* The bytes of a packet whose size has been checked.
BuildFrame(packet) == <<Len(packet.payload), packet.id>> \o packet.payload

TooLarge(packet) == Len(packet.payload) > MaxBodySize

\* bytes is all of buffer_, up to its size; what is not yet extracted lies
\* after readPos and up to writePos.
EmptyBuffer == [bytes |-> <<>>, readPos |-> 0, writePos |-> 0]

Capacity(buf) == Len(buf.bytes)
Available(buf) == buf.writePos - buf.readPos

Larger(m, n) == IF m >= n THEN m ELSE n

\* Mutant: the buffer grows whether the data fits or not.
AppendGrowing(buf, data) ==
    LET end == buf.writePos + Len(data)
        size == Larger(end, Capacity(buf) * 2 + Len(data))
    IN  [bytes |-> [i \in 1 .. size |->
                       IF i > buf.writePos /\ i <= end THEN data[i - buf.writePos]
                       ELSE IF i <= Capacity(buf) THEN buf.bytes[i] ELSE 0],
         readPos |-> buf.readPos, writePos |-> end]

\* Mutant: the copy starts where reading stands.
AppendAtReadPos(buf, data) ==
    LET end == buf.writePos + Len(data)
        size == IF end > Capacity(buf) THEN Larger(end, Capacity(buf) * 2 + Len(data)) ELSE Capacity(buf)
    IN  [bytes |-> [i \in 1 .. size |->
                       IF i > buf.readPos /\ i <= buf.readPos + Len(data) THEN data[i - buf.readPos]
                       ELSE IF i <= Capacity(buf) THEN buf.bytes[i] ELSE 0],
         readPos |-> buf.readPos, writePos |-> end]

\* Buffer::Append: grow if the data does not fit behind writePos, then copy.
AppendBytes(buf, data) ==
    LET end == buf.writePos + Len(data)
        size == IF end > Capacity(buf) THEN Larger(end, Capacity(buf) * 2 + Len(data)) ELSE Capacity(buf)
    IN  [bytes |-> [i \in 1 .. size |->
                       IF i > buf.writePos /\ i <= end THEN data[i - buf.writePos]
                       ELSE IF i <= Capacity(buf) THEN buf.bytes[i] ELSE 0],
         readPos |-> buf.readPos, writePos |-> end]

\* Mutant: the positions start over and the bytes are left where they were.
CompactUnmoved(buf) ==
    IF 2 * buf.readPos > Capacity(buf)
    THEN [buf EXCEPT !.readPos = 0, !.writePos = Available(buf)]
    ELSE buf

\* Buffer::Compact: start over when all is read, and pull the rest to the
\* front once more than half of the buffer has been read.
Compact(buf) ==
    IF buf.readPos = buf.writePos
    THEN [buf EXCEPT !.readPos = 0, !.writePos = 0]
    ELSE IF 2 * buf.readPos > Capacity(buf)
    THEN [bytes |-> [i \in 1 .. Capacity(buf) |->
                        IF i <= Available(buf) THEN buf.bytes[buf.readPos + i] ELSE buf.bytes[i]],
          readPos |-> 0, writePos |-> Available(buf)]
    ELSE buf

BodySize(buf) == buf.bytes[buf.readPos + 1]

\* Buffer::TryExtract: what it finds at readPos ...
Found(buf) ==
    IF Available(buf) < HeaderSize THEN "nothing"
    ELSE IF BodySize(buf) > MaxBodySize THEN "PacketTooLarge"
    ELSE IF Available(buf) < HeaderSize + BodySize(buf) THEN "nothing"
    ELSE "packet"

\* ... the packet it hands out ...
Extracted(buf) ==
    Packet(buf.bytes[buf.readPos + 2],
           [i \in 1 .. BodySize(buf) |-> buf.bytes[buf.readPos + HeaderSize + i]])

\* ... and the buffer it leaves.
AfterExtract(buf) ==
    Compact([buf EXCEPT !.readPos = @ + HeaderSize + BodySize(buf)])
=============================================================================
