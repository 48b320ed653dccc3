--------------------------- MODULE SessionProofs ---------------------------
(***************************************************************************)
(* Proofs about Session and its buffer, for every number of ends and       *)
(* threads, every script and every size.  What runs on the strand of a     *)
(* session is in one of few shapes: at most one write is under way or      *)
(* reported in the strand, and at most one read is outstanding, reported   *)
(* or being worked on.  A read is asked for only when what is left in the  *)
(* buffer is less than a frame, which is what bounds the buffer.           *)
(***************************************************************************)
EXTENDS Session, FiniteSetTheorems, SequenceTheorems, TLAPS

Buffers == [bytes : Seq(Byte), readPos : Nat, writePos : Nat]

FrameBound == HeaderSize + MaxBodySize

\* What the buffer is whenever its session is between two steps.
BufferOK(buf) ==
    /\ buf \in Buffers
    /\ buf.readPos <= buf.writePos
    /\ buf.writePos <= Capacity(buf)
    /\ 2 * buf.readPos <= Capacity(buf)
    /\ Capacity(buf) <= 4 * (FrameBound + ReadSize) + ReadSize

Frames == Seq(Byte) \ {<<>>}

Chunks == {bytes \in Seq(Byte) : Len(bytes) \in 1 .. ReadSize}

Tasks ==
    [do : {"enqueue"}, bytes : Frames] \cup [do : {"read"}, bytes : Chunks] \cup
    [do : {"shutdown", "written", "writeFailed", "readFailed"}, bytes : {<<>>}]

Types ==
    /\ started \in [Ends -> BOOLEAN] /\ closed \in [Ends -> BOOLEAN] /\ ours \in [Ends -> BOOLEAN]
    /\ writing \in [Ends -> BOOLEAN] /\ reading \in [Ends -> BOOLEAN] /\ draining \in [Ends -> BOOLEAN]
    /\ strand \in [Ends -> Seq(Tasks)]
    /\ sendQueue \in [Ends -> Seq(Frames)] /\ writes \in [Ends -> Seq(Frames)]
    /\ wire \in [Ends -> Seq(Byte)]
    /\ buffer = [e \in Ends |-> buffer[e]]
    /\ pending \in [Ends -> Int] /\ reports \in [Ends -> Nat]
    /\ next \in [Senders -> Nat] /\ building \in [Senders -> BOOLEAN]
    /\ \A t \in Senders : building[t] => next[t] < Len(Script[t]) /\ Script[t][next[t] + 1] # <<>>

Has(tasks, do) == \E i \in 1 .. Len(tasks) : tasks[i].do = do

Once(tasks, do) == \A i, j \in 1 .. Len(tasks) : tasks[i].do = do /\ tasks[j].do = do => i = j

RestOf(bytes, frame) == \E n \in 1 .. Len(frame) : bytes = SubSeq(frame, n, Len(frame))

\* One write is under way, or has been and its completion is in the strand.
WriteOK(tasks, queue, isWriting, under) ==
    /\ Once(tasks, "written")
    /\ Has(tasks, "written") => under = <<>> /\ queue # <<>> /\ isWriting
    /\ under # <<>> => Len(under) = 1 /\ queue # <<>> /\ isWriting /\ RestOf(under[1], Head(queue))

\* One read is outstanding, in the strand or being worked on.
ReadOK(tasks, isReading, isDraining, hasStarted, buf) ==
    /\ BufferOK(buf)
    /\ Once(tasks, "read")
    /\ Has(tasks, "read") => ~isDraining /\ ~isReading
    /\ isReading => ~isDraining
    /\ Has(tasks, "read") \/ isReading \/ isDraining => hasStarted
    /\ Has(tasks, "read") \/ isReading \/ ~hasStarted => Available(buf) < FrameBound

WritesInv == \A e \in Ends :
    WriteOK(strand[e], sendQueue[e], writing[e], writes[e]) /\ pending[e] = Len(sendQueue[e])

ReadsInv == \A e \in Ends : ReadOK(strand[e], reading[e], draining[e], started[e], buffer[e])

\* Who has not closed has neither reported nor been asked to close.
ReportsInv == \A e \in Ends :
    /\ closed[e] \/ (reports[e] = 0 /\ ~ours[e])
    /\ reports[e] + (IF ours[e] THEN 1 ELSE 0) <= 1

IInv == Types /\ WritesInv /\ ReadsInv /\ ReportsInv

-----------------------------------------------------------------------------
\* A sequence given element by element.
LEMMA GivenSequence ==
  ASSUME NEW n \in Nat, NEW f \in [1 .. n -> Byte]
  PROVE  f \in Seq(Byte) /\ Len(f) = n
<1>1. f \in Seq(Byte)
  BY SeqDef
<1>2. QED
  BY <1>1, LenProperties

\* A new buffer.
LEMMA EmptyIsOK == BufferOK(EmptyBuffer) /\ Available(EmptyBuffer) < FrameBound
<1>1. <<>> \in Seq(Byte) /\ Len(<<>>) = 0
  BY EmptySeq
<1>2. QED
  BY <1>1, SessionAssumption, PacketBufferAssumption
     DEF BufferOK, Buffers, EmptyBuffer, Capacity, Available, FrameBound, HeaderSize

\* Append puts the data behind what is there, and grows only if it must.
LEMMA AppendKeepsBuffer ==
  ASSUME NEW buf, BufferOK(buf), Available(buf) < FrameBound,
         NEW data \in Seq(Byte), Len(data) \in 1 .. ReadSize
  PROVE  BufferOK(AppendBytes(buf, data))
<1> DEFINE end == buf.writePos + Len(data)
           size == IF end > Capacity(buf) THEN Larger(end, Capacity(buf) * 2 + Len(data)) ELSE Capacity(buf)
           contents == [i \in 1 .. size |->
                           IF i > buf.writePos /\ i <= end THEN data[i - buf.writePos]
                           ELSE IF i <= Capacity(buf) THEN buf.bytes[i] ELSE 0]
<1>1. /\ buf.bytes \in Seq(Byte) /\ buf.readPos \in Nat /\ buf.writePos \in Nat
      /\ Capacity(buf) \in Nat /\ Len(data) \in Nat /\ ReadSize \in Nat \ {0} /\ FrameBound \in Nat
  BY LenProperties, SessionAssumption, PacketBufferAssumption
     DEF BufferOK, Buffers, Capacity, FrameBound, HeaderSize
<1>2. /\ buf.readPos <= buf.writePos /\ buf.writePos <= Capacity(buf)
      /\ 2 * buf.readPos <= Capacity(buf)
      /\ Capacity(buf) <= 4 * (FrameBound + ReadSize) + ReadSize
      /\ buf.writePos - buf.readPos < FrameBound
  BY DEF BufferOK, Available
<1>3. size \in Nat /\ end \in Nat /\ buf.writePos <= end /\ end <= size /\ Capacity(buf) <= size
  <2>1. end \in Nat /\ buf.writePos <= end /\ Capacity(buf) * 2 + Len(data) \in Nat /\ Capacity(buf) <= Capacity(buf) * 2 + Len(data)
    BY <1>1
  <2>2. CASE end > Capacity(buf)
    BY <1>1, <2>1, <2>2 DEF Larger
  <2>3. CASE ~(end > Capacity(buf))
    BY <1>1, <2>1, <2>3
  <2>4. QED
    BY <2>2, <2>3
<1>4. size <= 4 * (FrameBound + ReadSize) + ReadSize
  <2>1. CASE end > Capacity(buf)
    <3>1. Capacity(buf) < 2 * (FrameBound + ReadSize)
      BY <1>1, <1>2, <2>1
    <3>2. QED
      BY <1>1, <1>2, <2>1, <3>1 DEF Larger
  <2>2. CASE ~(end > Capacity(buf))
    BY <1>2, <2>2
  <2>3. QED
    BY <2>1, <2>2
<1>5. contents \in [1 .. size -> Byte]
  <2>1. \A i \in 1 .. size : i > buf.writePos /\ i <= end => data[i - buf.writePos] \in Byte
    BY <1>1, <1>3, ElementOfSeq
  <2>2. \A i \in 1 .. size : i <= Capacity(buf) => buf.bytes[i] \in Byte
    BY <1>1, <1>3, ElementOfSeq DEF Capacity
  <2>3. QED
    BY <2>1, <2>2 DEF Byte
<1>6. contents \in Seq(Byte) /\ Len(contents) = size
  BY <1>3, <1>5, GivenSequence
<1>7. AppendBytes(buf, data) = [bytes |-> contents, readPos |-> buf.readPos, writePos |-> end]
  BY DEF AppendBytes
<1> HIDE DEF contents, size, end
<1>8. buf.readPos <= end /\ 2 * buf.readPos <= size
  <2>1. buf.readPos <= buf.writePos /\ buf.writePos <= end
    BY <1>2, <1>3
  <2>2. buf.readPos \in Nat /\ buf.writePos \in Nat /\ end \in Nat /\ size \in Nat /\ Capacity(buf) \in Nat
    BY <1>1, <1>3
  <2>3. QED
    BY <1>2, <1>3, <2>1, <2>2
<1>9. /\ AppendBytes(buf, data) \in Buffers /\ Capacity(AppendBytes(buf, data)) = size
      /\ AppendBytes(buf, data).readPos = buf.readPos /\ AppendBytes(buf, data).writePos = end
  BY <1>1, <1>3, <1>6, <1>7 DEF Buffers, Capacity
<1>10. QED
  BY <1>3, <1>4, <1>8, <1>9 DEF BufferOK

\* Compact keeps what is unread and leaves no more than half of the buffer
\* in front of it.
LEMMA CompactKeepsBuffer ==
  ASSUME NEW buf \in Buffers, buf.readPos <= buf.writePos, buf.writePos <= Capacity(buf),
         Capacity(buf) <= 4 * (FrameBound + ReadSize) + ReadSize
  PROVE  BufferOK(Compact(buf))
<1>1. buf.bytes \in Seq(Byte) /\ buf.readPos \in Nat /\ buf.writePos \in Nat /\ Capacity(buf) \in Nat
  BY LenProperties DEF Buffers, Capacity
<1>2. CASE buf.readPos = buf.writePos
  <2>1. Compact(buf) = [bytes |-> buf.bytes, readPos |-> 0, writePos |-> 0]
    BY <1>2 DEF Compact, Buffers
  <2>2. QED
    BY <1>1, <2>1 DEF BufferOK, Buffers, Capacity
<1>3. CASE buf.readPos # buf.writePos /\ 2 * buf.readPos > Capacity(buf)
  <2> DEFINE contents == [i \in 1 .. Capacity(buf) |->
                             IF i <= Available(buf) THEN buf.bytes[buf.readPos + i] ELSE buf.bytes[i]]
  <2>1. Available(buf) \in Nat /\ Available(buf) <= Capacity(buf)
        /\ buf.readPos + Available(buf) <= Capacity(buf)
    BY <1>1 DEF Available
  <2>2. \A i \in 1 .. Capacity(buf) : i <= Available(buf) => buf.bytes[buf.readPos + i] \in Byte
    BY <1>1, <2>1, ElementOfSeq DEF Capacity
  <2>3. \A i \in 1 .. Capacity(buf) : buf.bytes[i] \in Byte
    BY <1>1, ElementOfSeq DEF Capacity
  <2>4. contents \in [1 .. Capacity(buf) -> Byte]
    BY <2>2, <2>3
  <2>5. contents \in Seq(Byte) /\ Len(contents) = Capacity(buf)
    BY <1>1, <2>4, GivenSequence
  <2>6. Compact(buf) = [bytes |-> contents, readPos |-> 0, writePos |-> Available(buf)]
    BY <1>3 DEF Compact
  <2> HIDE DEF contents
  <2>7. QED
    BY <1>1, <2>1, <2>5, <2>6 DEF BufferOK, Buffers, Capacity
<1>4. CASE buf.readPos # buf.writePos /\ ~(2 * buf.readPos > Capacity(buf))
  BY <1>1, <1>4 DEF Compact, BufferOK
<1>5. QED
  BY <1>2, <1>3, <1>4

\* Extracting a packet that is there reads no further than what was written.
LEMMA ExtractKeepsBuffer ==
  ASSUME NEW buf, BufferOK(buf), Found(buf) = "packet"
  PROVE  BufferOK(AfterExtract(buf))
<1> DEFINE read == [buf EXCEPT !.readPos = @ + HeaderSize + BodySize(buf)]
<1>1. /\ buf.bytes \in Seq(Byte) /\ buf.readPos \in Nat /\ buf.writePos \in Nat /\ Capacity(buf) \in Nat
      /\ buf.writePos <= Capacity(buf)
  BY LenProperties DEF BufferOK, Buffers, Capacity
<1>2. ~(Available(buf) < HeaderSize) /\ ~(Available(buf) < HeaderSize + BodySize(buf))
  BY DEF Found
<1>3. BodySize(buf) \in Nat
  <2>1. buf.readPos + 1 \in 1 .. Len(buf.bytes)
    BY <1>1, <1>2 DEF Available, HeaderSize, Capacity
  <2>2. QED
    BY <1>1, <2>1, ElementOfSeq DEF BodySize, Byte
<1>4. read = [bytes |-> buf.bytes, readPos |-> buf.readPos + HeaderSize + BodySize(buf), writePos |-> buf.writePos]
  BY DEF BufferOK, Buffers
<1>5. read \in Buffers /\ read.readPos <= read.writePos /\ read.writePos <= Capacity(read)
      /\ Capacity(read) <= 4 * (FrameBound + ReadSize) + ReadSize
  BY <1>1, <1>2, <1>3, <1>4 DEF Buffers, HeaderSize, Available, Capacity, BufferOK
<1>6. BufferOK(Compact(read))
  <2> HIDE DEF read
  <2>1. QED
    BY <1>5, CompactKeepsBuffer
<1>7. QED
  BY <1>6 DEF AfterExtract

\* When there is nothing to extract, less than a frame is left.
LEMMA NothingIsShort ==
  ASSUME NEW buf, BufferOK(buf), Found(buf) = "nothing"
  PROVE  Available(buf) < FrameBound
<1>1. /\ buf.bytes \in Seq(Byte) /\ buf.readPos \in Nat /\ buf.writePos \in Nat
      /\ buf.writePos <= Capacity(buf) /\ MaxBodySize \in Nat
  BY PacketBufferAssumption DEF BufferOK, Buffers
<1>2. CASE Available(buf) < HeaderSize
  BY <1>1, <1>2 DEF FrameBound, HeaderSize, Available
<1>3. CASE ~(Available(buf) < HeaderSize)
  <2>1. ~(BodySize(buf) > MaxBodySize) /\ Available(buf) < HeaderSize + BodySize(buf)
    BY <1>3 DEF Found
  <2>2. buf.readPos + 1 \in 1 .. Len(buf.bytes)
    BY <1>1, <1>3, LenProperties DEF Available, HeaderSize, Capacity
  <2>3. BodySize(buf) \in Nat
    BY <1>1, <2>2, ElementOfSeq DEF BodySize, Byte
  <2>4. QED
    BY <1>1, <2>1, <2>3 DEF FrameBound, HeaderSize, Available
<1>4. QED
  BY <1>2, <1>3

-----------------------------------------------------------------------------
\* What posting a task changes.
LEMMA PostTask ==
  ASSUME NEW s \in Seq(Tasks), NEW task, NEW do
  PROVE  /\ task \in Tasks => Append(s, task) \in Seq(Tasks)
         /\ Has(Append(s, task), do) <=> (Has(s, do) \/ task.do = do)
         /\ Once(s, do) /\ (task.do # do \/ ~Has(s, do)) => Once(Append(s, task), do)
<1> DEFINE p == Append(s, task)
<1>0. s \in Seq(Tasks \cup {task})
  BY SeqMonotonic
<1>1. /\ Len(p) = Len(s) + 1 /\ Len(s) \in Nat
      /\ \A i \in 1 .. Len(s) : p[i] = s[i]
      /\ p[Len(s) + 1] = task
  BY <1>0, AppendProperties, LenProperties
<1> HIDE DEF p
<1>2. Has(p, do) <=> (Has(s, do) \/ task.do = do)
  <2>1. \A i : i \in 1 .. Len(p) <=> (i \in 1 .. Len(s) \/ i = Len(s) + 1)
    BY <1>1
  <2>2. QED
    BY <1>1, <2>1 DEF Has
<1>3. Once(s, do) /\ (task.do # do \/ ~Has(s, do)) => Once(p, do)
  <2>1. \A i : i \in 1 .. Len(p) <=> (i \in 1 .. Len(s) \/ i = Len(s) + 1)
    BY <1>1
  <2>2. QED
    BY <1>1, <2>1 DEF Once, Has
<1>4. task \in Tasks => p \in Seq(Tasks)
  BY AppendProperties DEF p
<1>5. QED
  BY <1>2, <1>3, <1>4 DEF p

\* What taking the first task changes.
LEMMA TakeTask ==
  ASSUME NEW s \in Seq(Tasks), s # <<>>, NEW do
  PROVE  /\ Head(s) \in Tasks /\ Tail(s) \in Seq(Tasks)
         /\ Has(Tail(s), do) => Has(s, do)
         /\ Head(s).do = do => Has(s, do)
         /\ Once(s, do) => Once(Tail(s), do) /\ (Head(s).do = do => ~Has(Tail(s), do))
<1> DEFINE q == Tail(s)
<1>1. /\ Head(s) \in Tasks /\ q \in Seq(Tasks) /\ Len(q) = Len(s) - 1
      /\ \A i \in 1 .. Len(q) : q[i] = s[i + 1]
  BY HeadTailProperties
<1>2. Len(s) \in Nat \ {0} /\ Head(s) = s[1]
  BY EmptySeq
<1> HIDE DEF q
<1>3. \A i \in 1 .. Len(q) : i + 1 \in 1 .. Len(s) /\ i + 1 # 1
  BY <1>1, <1>2
<1>4. Has(q, do) => Has(s, do)
  BY <1>1, <1>3 DEF Has
<1>5. Head(s).do = do => Has(s, do)
  BY <1>2 DEF Has
<1>6. ASSUME Once(s, do) PROVE Once(q, do)
  <2>1. \A i, j \in 1 .. Len(q) : i + 1 = j + 1 => i = j
    BY <1>1, <1>2
  <2>2. QED
    BY <1>1, <1>3, <1>6, <2>1 DEF Once
<1>7. ASSUME Once(s, do), Head(s).do = do PROVE ~Has(q, do)
  BY <1>1, <1>2, <1>3, <1>7 DEF Once, Has
<1>8. QED
  BY <1>1, <1>4, <1>5, <1>6, <1>7 DEF q

\* A write that is taken from a list of one leaves none.
LEMMA WithoutOne ==
  ASSUME NEW s \in Seq(Frames), NEW i \in 1 .. Len(s)
  PROVE  Without(s, i) \in Seq(Frames) /\ (Len(s) = 1 => Without(s, i) = <<>>)
<1>1. Len(s) \in Nat /\ \A k \in 1 .. Len(s) : s[k] \in Frames
  BY LenProperties, ElementOfSeq
<1>2. SubSeq(s, 1, i - 1) \in Seq(Frames)
  <2>1. \A k \in 1 .. i - 1 : s[k] \in Frames
    BY <1>1
  <2>2. QED
    BY <1>1, <2>1, SubSeqProperties
<1>3. SubSeq(s, i + 1, Len(s)) \in Seq(Frames)
  <2>1. \A k \in i + 1 .. Len(s) : s[k] \in Frames
    BY <1>1
  <2>2. QED
    BY <1>1, <2>1, SubSeqProperties
<1>4. Without(s, i) \in Seq(Frames)
  BY <1>2, <1>3, ConcatProperties DEF Without
<1>5. ASSUME Len(s) = 1 PROVE Without(s, i) = <<>>
  <2>1. i = 1
    BY <1>5
  <2>2. SubSeq(s, 1, i - 1) = <<>> /\ SubSeq(s, i + 1, Len(s)) = <<>>
    BY <1>5, <2>1, SubSeqEmpty
  <2>3. <<>> \o <<>> = <<>>
    BY EmptySeq, ConcatEmptySeq
  <2>4. QED
    BY <2>2, <2>3 DEF Without
<1>6. QED
  BY <1>4, <1>5

\* A part of a string of bytes.
LEMMA PartOfBytes ==
  ASSUME NEW b \in Seq(Byte), NEW m \in Int, NEW n \in Int, 1 <= m, m <= n, n <= Len(b)
  PROVE  SubSeq(b, m, n) \in Seq(Byte) /\ Len(SubSeq(b, m, n)) = n - m + 1
<1>1. \A i \in m .. n : b[i] \in Byte
  BY ElementOfSeq, LenProperties
<1>2. /\ SubSeq(b, m, n) \in Seq(Byte)
      /\ Len(SubSeq(b, m, n)) = IF m <= n THEN n - m + 1 ELSE 0
  BY <1>1, SubSeqProperties, Zenon
<1>3. QED
  BY <1>2

\* What is left of the rest of a frame is a rest of it.
LEMMA RestOfRest ==
  ASSUME NEW f \in Frames, NEW b \in Frames, RestOf(b, f), NEW n \in 1 .. Len(b), n # Len(b)
  PROVE  SubSeq(b, n + 1, Len(b)) \in Frames /\ RestOf(SubSeq(b, n + 1, Len(b)), f)
<1>1. PICK k \in 1 .. Len(f) : b = SubSeq(f, k, Len(f))
  BY DEF RestOf
<1>2. /\ f \in Seq(Byte) /\ b \in Seq(Byte) /\ Len(f) \in Nat /\ Len(b) \in Nat
  BY LenProperties DEF Frames
<1>3. Len(b) = Len(f) - k + 1
  BY <1>1, <1>2, SubSeqProperties, ElementOfSeq
<1>4. SubSeq(b, n + 1, Len(b)) = SubSeq(f, k + n, Len(f))
  <2>1. /\ Len(f) \in 1 .. Len(f)
        /\ n + 1 \in 1 .. Len(f) - k + 1 /\ Len(b) \in 1 .. Len(f) - k + 1
    BY <1>2, <1>3
  <2>2. SubSeq(SubSeq(f, k, Len(f)), n + 1, Len(b)) = SubSeq(f, k + (n + 1) - 1, k + Len(b) - 1)
    BY <1>2, <2>1, SubSeqOfSubSeq
  <2>3. k + (n + 1) - 1 = k + n /\ k + Len(b) - 1 = Len(f)
    BY <1>2, <1>3
  <2>4. QED
    BY <1>1, <2>2, <2>3
<1>5. k + n \in 1 .. Len(f)
  BY <1>2, <1>3
<1>6. SubSeq(b, n + 1, Len(b)) \in Seq(Byte) /\ Len(SubSeq(b, n + 1, Len(b))) = Len(b) - n
  <2>1. PICK from \in Int : from = n + 1
    OBVIOUS
  <2>2. Len(b) \in Int /\ 1 <= from /\ from <= Len(b) /\ Len(b) - from + 1 = Len(b) - n
    BY <1>2, <2>1
  <2>3. SubSeq(b, from, Len(b)) \in Seq(Byte) /\ Len(SubSeq(b, from, Len(b))) = Len(b) - from + 1
    BY <1>2, <2>2, PartOfBytes
  <2>4. QED
    BY <2>1, <2>2, <2>3
<1>7. SubSeq(b, n + 1, Len(b)) # <<>>
  <2>1. Len(b) - n # 0
    BY <1>2
  <2>2. Len(<<>>) = 0
    BY EmptySeq
  <2>3. QED
    BY <1>6, <2>1, <2>2
<1>8. QED
  BY <1>4, <1>5, <1>6, <1>7 DEF Frames, RestOf

\* A whole frame is a rest of itself.
LEMMA WholeFrame ==
  ASSUME NEW f \in Frames
  PROVE  Len(f) \in Nat \ {0} /\ RestOf(f, f)
<1>1. f \in Seq(Byte) /\ Len(f) \in Nat \ {0}
  BY EmptySeq DEF Frames
<1>2. SubSeq(f, 1, Len(f)) = f
  BY <1>1, SubSeqFull
<1>3. QED
  BY <1>1, <1>2 DEF RestOf

-----------------------------------------------------------------------------
\* Everything keeps its type: a task is what some handler posts, and what
\* reaches a read are bytes of frames.
LEMMA TypesStep ==
  ASSUME IInv, [Next]_vars
  PROVE  Types'
<1> USE SessionAssumption
<1>0. Types /\ WritesInv
  BY DEF IInv
<1>1. ASSUME NEW e \in Ends, Start(e) PROVE Types'
  BY <1>0, <1>1 DEF Types, Start, sendVars, netVars, threadVars, history
<1>2. ASSUME NEW t \in Senders, Send(t) PROVE Types'
  <2>1. next[t] \in Nat /\ next[t] < Len(Script[t])
    BY <1>0, <1>2 DEF Types, Send
  <2>2. building'[t] => building[t] \/ Script[t][next[t] + 1] # <<>>
    BY <1>0, <1>2 DEF Types, Send, Refused, Batch
  <2>3. next' \in [Senders -> Nat] /\ building' \in [Senders -> BOOLEAN]
    <3>1. CASE Refused(t)
      <4>1. next' = [next EXCEPT ![t] = next[t] + 1] /\ building' = building
        BY <1>2, <3>1 DEF Send
      <4>2. QED
        BY <1>0, <2>1, <4>1 DEF Types
    <3>2. CASE ~Refused(t)
      <4>1. next' = next /\ building' = [building EXCEPT ![t] = TRUE]
        BY <1>2, <3>2 DEF Send
      <4>2. QED
        BY <1>0, <4>1 DEF Types
    <3>3. QED
      BY <3>1, <3>2
  <2>4. ASSUME NEW u \in Senders, building'[u]
        PROVE  next'[u] < Len(Script[u]) /\ Script[u][next'[u] + 1] # <<>>
    <3>1. CASE u = t
      BY <1>0, <1>2, <2>1, <2>2, <2>4, <3>1 DEF Types, Send
    <3>2. CASE u # t
      BY <1>0, <1>2, <2>4, <3>2 DEF Types, Send
    <3>3. QED
      BY <3>1, <3>2
  <2>5. QED
    BY <1>0, <1>2, <2>3, <2>4 DEF Types, Send, sendVars, readVars, netVars, history
<1>3. ASSUME NEW t \in Senders, PostFrame(t) PROVE Types'
  <2> DEFINE task == Task("enqueue", Bytes(Batch(t)))
  <2>1. next[t] \in Nat /\ next[t] < Len(Script[t]) /\ Script[t][next[t] + 1] # <<>>
    BY <1>0, <1>3 DEF Types, PostFrame
  <2>2. next[t] + 1 \in 1 .. Len(Script[t])
    BY <1>0, <2>1, ScriptAssumption, LenProperties
  <2>3. Bytes(Batch(t)) \in Frames
    BY <1>0, <2>1, <2>2, ScriptAssumption DEF Batch, Frames
  <2>4. task \in Tasks
    BY <1>0, <2>3 DEF Task, Tasks
  <2>5. EndOf[t] \in Ends /\ strand[EndOf[t]] \in Seq(Tasks)
    BY <1>0 DEF Types
  <2>6. Append(strand[EndOf[t]], task) \in Seq(Tasks)
    BY <1>0, <2>4, <2>5, PostTask
  <2>7. strand' = [strand EXCEPT ![EndOf[t]] = Append(strand[EndOf[t]], task)]
    BY <1>0, <1>3 DEF PostFrame, Post
  <2>8. strand' \in [Ends -> Seq(Tasks)]
    BY <1>0, <2>5, <2>6, <2>7 DEF Types
  <2>9. /\ next' \in [Senders -> Nat] /\ building' \in [Senders -> BOOLEAN]
        /\ \A u \in Senders : building'[u] => next'[u] < Len(Script[u]) /\ Script[u][next'[u] + 1] # <<>>
    <3>1. /\ next' = [next EXCEPT ![t] = next[t] + 1] /\ building' = [building EXCEPT ![t] = FALSE]
      BY <1>0, <1>3 DEF PostFrame
    <3>2. next' \in [Senders -> Nat]
      BY <1>0, <2>1, <3>1 DEF Types
    <3>3. building' \in [Senders -> BOOLEAN]
      BY <1>0, <3>1 DEF Types
    <3>4. \A u \in Senders : building'[u] => u # t /\ building[u] /\ next'[u] = next[u]
      BY <1>0, <3>1 DEF Types
    <3>5. QED
      BY <1>0, <3>2, <3>3, <3>4 DEF Types
  <2>10. QED
    BY <1>0, <1>3, <2>8, <2>9 DEF Types, PostFrame, sendVars, readVars, netVars
<1>4. ASSUME NEW e \in Ends, Close(e) PROVE Types'
  <2>1. strand' \in [Ends -> Seq(Tasks)]
    <3>1. Task("shutdown", <<>>) \in Tasks
      BY DEF Task, Tasks
    <3>2. Append(strand[e], Task("shutdown", <<>>)) \in Seq(Tasks)
      BY <1>0, <3>1, PostTask DEF Types
    <3>3. QED
      BY <1>0, <1>4, <3>2 DEF Types, Close, Post
  <2>2. QED
    BY <1>0, <1>4, <2>1 DEF Types, Close, sendVars, readVars, netVars, threadVars
<1> DEFINE Took(e) == Head(strand[e]) \in Tasks /\ strand' \in [Ends -> Seq(Tasks)]
<1>5. ASSUME NEW e \in Ends, NEW do, Run(e, do)
      PROVE  Took(e) /\ Head(strand[e]).do = do
  <2>1. strand[e] \in Seq(Tasks) /\ strand[e] # <<>>
    BY <1>0, <1>5 DEF Types, Run
  <2>2. Head(strand[e]) \in Tasks /\ Tail(strand[e]) \in Seq(Tasks)
    BY <1>0, <2>1, TakeTask
  <2>3. QED
    BY <1>0, <1>5, <2>2 DEF Types, Run
<1>6. ASSUME NEW e \in Ends, RunEnqueue(e) PROVE Types'
  <2>1. Took(e) /\ Head(strand[e]).do = "enqueue"
    BY <1>0, <1>5, <1>6 DEF RunEnqueue
  <2>2. Head(strand[e]).bytes \in Frames
    BY <1>0, <2>1 DEF Tasks
  <2>3. Append(sendQueue[e], Head(strand[e]).bytes) \in Seq(Frames) /\ Append(sendQueue[e], Head(strand[e]).bytes) # <<>>
    <3>1. sendQueue[e] \in Seq(Frames)
      BY <1>0 DEF Types
    <3>2. QED
      BY <2>2, <3>1, AppendProperties
  <2>4. sendQueue' = [sendQueue EXCEPT ![e] = Append(sendQueue[e], Head(strand[e]).bytes)]
    BY <1>0, <1>6 DEF RunEnqueue
  <2>5. sendQueue' \in [Ends -> Seq(Frames)] /\ Head(sendQueue'[e]) \in Frames
    BY <1>0, <2>3, <2>4, HeadTailProperties DEF Types
  <2>6. writing' \in [Ends -> BOOLEAN] /\ writes' \in [Ends -> Seq(Frames)]
    <3>1. Append(writes[e], Head(sendQueue'[e])) \in Seq(Frames)
      BY <1>0, <2>5, AppendProperties DEF Types
    <3>2. QED
      BY <1>0, <1>6, <3>1 DEF Types, RunEnqueue, DoWrite
  <2>7. pending' \in [Ends -> Int]
    BY <1>0, <1>6 DEF Types, RunEnqueue
  <2>8. QED
    BY <1>0, <1>6, <2>1, <2>5, <2>6, <2>7 DEF Types, RunEnqueue, readVars, netVars, threadVars, history
<1>7. ASSUME NEW e \in Ends, RunWritten(e) PROVE Types'
  <2>1. Took(e) /\ Head(strand[e]).do = "written"
    BY <1>0, <1>5, <1>7 DEF RunWritten
  <2>0. sendQueue[e] # <<>>
    <3>1. strand[e] \in Seq(Tasks) /\ strand[e] # <<>>
      BY <1>0, <1>7 DEF Types, RunWritten, Run
    <3>2. Has(strand[e], "written")
      BY <1>0, <2>1, <3>1, TakeTask
    <3>3. QED
      BY <1>0, <3>2 DEF WritesInv, WriteOK
  <2>2. Tail(sendQueue[e]) \in Seq(Frames)
    BY <1>0, <2>0, HeadTailProperties DEF Types
  <2>3. sendQueue' = [sendQueue EXCEPT ![e] = Tail(sendQueue[e])]
    BY <1>0, <1>7 DEF RunWritten
  <2>4. sendQueue' \in [Ends -> Seq(Frames)] /\ sendQueue'[e] = Tail(sendQueue[e])
    BY <1>0, <2>2, <2>3 DEF Types
  <2>5. writing' \in [Ends -> BOOLEAN] /\ writes' \in [Ends -> Seq(Frames)]
    <3>1. CASE sendQueue'[e] # <<>>
      <4>1. Head(sendQueue'[e]) \in Frames
        BY <1>0, <2>2, <2>4, <3>1, HeadTailProperties
      <4>2. Append(writes[e], Head(sendQueue'[e])) \in Seq(Frames)
        BY <1>0, <4>1, AppendProperties DEF Types
      <4>3. QED
        BY <1>0, <1>7, <3>1, <4>2 DEF Types, RunWritten, DoWrite
    <3>2. CASE sendQueue'[e] = <<>>
      BY <1>0, <1>7, <3>2 DEF Types, RunWritten
    <3>3. QED
      BY <3>1, <3>2
  <2>6. pending' \in [Ends -> Int]
    BY <1>0, <1>7 DEF Types, RunWritten
  <2>7. QED
    BY <1>0, <1>7, <2>1, <2>4, <2>5, <2>6 DEF Types, RunWritten, readVars, netVars, threadVars, history
<1>8. ASSUME NEW e \in Ends, CloseSocket(e) PROVE wire' \in [Ends -> Seq(Byte)]
  <2>1. <<>> \in Seq(Byte)
    BY EmptySeq
  <2>2. QED
    BY <1>0, <1>8, <2>1 DEF Types, CloseSocket
<1>9. ASSUME NEW e \in Ends, HandleClose(e)
      PROVE  /\ closed' \in [Ends -> BOOLEAN] /\ reports' \in [Ends -> Nat]
             /\ wire' \in [Ends -> Seq(Byte)]
  BY <1>0, <1>8, <1>9 DEF Types, HandleClose
<1>10. ASSUME NEW e \in Ends, RunFailed(e) PROVE Types'
  <2>1. Took(e)
    BY <1>0, <1>5, <1>10 DEF RunFailed
  <2>2. QED
    BY <1>0, <1>9, <1>10, <2>1 DEF Types, RunFailed, sendVars, readVars, threadVars
<1>11. ASSUME NEW e \in Ends, RunShutdown(e) PROVE Types'
  <2>1. Took(e)
    BY <1>0, <1>5, <1>11 DEF RunShutdown
  <2>2. QED
    BY <1>0, <1>8, <1>11, <2>1 DEF Types, RunShutdown, sendVars, readVars, threadVars, history
<1>12. ASSUME NEW e \in Ends, FramingError(e) PROVE Types'
  BY <1>0, <1>9, <1>12 DEF Types, FramingError, sendVars, threadVars
<1>13. ASSUME NEW e \in Ends, ReadMore(e) PROVE Types'
  BY <1>0, <1>13 DEF Types, ReadMore, sendVars, netVars, threadVars, history
<1>14. ASSUME NEW e \in Ends, NEW do \in {"written", "writeFailed", "readFailed"}, Post(e, Task(do, <<>>))
       PROVE strand' \in [Ends -> Seq(Tasks)]
  <2>1. Task(do, <<>>) \in Tasks
    BY DEF Task, Tasks
  <2>2. Append(strand[e], Task(do, <<>>)) \in Seq(Tasks)
    BY <1>0, <2>1, PostTask DEF Types
  <2>3. QED
    BY <1>0, <1>14, <2>2 DEF Types, Post
<1>15. ASSUME NEW e \in Ends, NEW i \in 1 .. Len(writes[e])
       PROVE  /\ writes[e] \in Seq(Frames) /\ writes[e][i] \in Frames
              /\ Without(writes[e], i) \in Seq(Frames)
  <2>1. writes[e] \in Seq(Frames)
    BY <1>0 DEF Types
  <2>2. QED
    BY <1>15, <2>1, WithoutOne, ElementOfSeq
<1>16. ASSUME NEW e \in Ends, NEW i \in 1 .. Len(writes[e]), WriteFails(e, i) PROVE Types'
  <2>1. strand' \in [Ends -> Seq(Tasks)]
    BY <1>14, <1>16 DEF WriteFails
  <2>2. writes' \in [Ends -> Seq(Frames)]
    BY <1>0, <1>15, <1>16 DEF Types, WriteFails
  <2>3. QED
    BY <1>0, <1>16, <2>1, <2>2 DEF Types, WriteFails, readVars, netVars, threadVars, history
<1>17. ASSUME NEW e \in Ends, NEW i \in 1 .. Len(writes[e]), Transfer(e, i) PROVE Types'
  <2> DEFINE b == writes[e][i]
             n == IF Len(b) > WriteSize THEN WriteSize ELSE Len(b)
  <2>1. b \in Frames /\ b \in Seq(Byte) /\ Len(b) \in Nat \ {0}
    BY <1>15, WholeFrame DEF Frames
  <2>2. n \in 1 .. Len(b)
    BY <2>1
  <2>3. wire' \in [Ends -> Seq(Byte)]
    <3>1. \A k \in 1 .. n : b[k] \in Byte
      BY <2>1, <2>2, ElementOfSeq
    <3>2. SubSeq(b, 1, n) \in Seq(Byte)
      BY <2>2, <3>1, SubSeqProperties
    <3>3. wire[e] \o SubSeq(b, 1, n) \in Seq(Byte)
      BY <1>0, <3>2, ConcatProperties DEF Types
    <3>4. wire' = wire \/ wire' = [wire EXCEPT ![e] = wire[e] \o SubSeq(b, 1, n)]
      BY <1>17 DEF Transfer
    <3>5. QED
      BY <1>0, <3>3, <3>4 DEF Types
  <2>4. CASE n = Len(b)
    <3>1. writes' = [writes EXCEPT ![e] = Without(writes[e], i)] /\ Post(e, Task("written", <<>>))
      BY <1>17, <2>4 DEF Transfer
    <3>2. strand' \in [Ends -> Seq(Tasks)]
      BY <1>14, <3>1
    <3>3. writes' \in [Ends -> Seq(Frames)]
      BY <1>0, <1>15, <3>1 DEF Types
    <3>4. QED
      BY <1>0, <1>17, <2>3, <3>2, <3>3 DEF Types, Transfer, readVars, threadVars, history
  <2>5. CASE n # Len(b)
    <3> DEFINE rest == SubSeq(b, n + 1, Len(b))
    <3>1. rest \in Frames
      BY <2>1, <2>2, <2>5, WholeFrame, RestOfRest
    <3>2. writes' = [writes EXCEPT ![e] = [writes[e] EXCEPT ![i] = rest]] /\ strand' = strand
      BY <1>17, <2>5 DEF Transfer
    <3> HIDE DEF rest
    <3>3. [writes[e] EXCEPT ![i] = rest] \in Seq(Frames)
      BY <1>15, <3>1, ExceptSeq
    <3>4. writes' \in [Ends -> Seq(Frames)]
      BY <1>0, <3>2, <3>3 DEF Types
    <3>5. QED
      BY <1>0, <1>17, <2>3, <3>2, <3>4 DEF Types, Transfer, readVars, threadVars, history
  <2>6. QED
    BY <2>4, <2>5
<1>18. ASSUME NEW e \in Ends, ReadSome(e) PROVE Types'
  <2> DEFINE w == wire[PeerOf[e]]
  <2>1. PICK n \in 1 .. ReadSize :
           /\ n <= Len(w)
           /\ wire' = [wire EXCEPT ![PeerOf[e]] = SubSeq(w, n + 1, Len(w))]
           /\ Post(e, Task("read", SubSeq(w, 1, n)))
    BY <1>18 DEF ReadSome
  <2>2. w \in Seq(Byte) /\ Len(w) \in Nat /\ PeerOf[e] \in Ends
    BY <1>0, LenProperties DEF Types
  <2>3. SubSeq(w, 1, n) \in Seq(Byte) /\ Len(SubSeq(w, 1, n)) = n
    <3>1. 1 \in Int /\ n \in Int /\ 1 <= 1 /\ 1 <= n /\ n <= Len(w) /\ n - 1 + 1 = n
      BY <2>1
    <3> HIDE DEF w
    <3>2. QED
      BY <2>2, <3>1, PartOfBytes
  <2>4. SubSeq(w, n + 1, Len(w)) \in Seq(Byte)
    <3>1. \A k \in n + 1 .. Len(w) : w[k] \in Byte
      BY <2>1, <2>2, ElementOfSeq
    <3>2. QED
      BY <2>2, <3>1, SubSeqProperties
  <2>5. Task("read", SubSeq(w, 1, n)) \in Tasks
    BY <2>3 DEF Task, Tasks, Chunks
  <2>6. strand' \in [Ends -> Seq(Tasks)]
    <3>1. Append(strand[e], Task("read", SubSeq(w, 1, n))) \in Seq(Tasks)
      BY <1>0, <2>5, PostTask DEF Types
    <3>2. QED
      BY <1>0, <2>1, <3>1 DEF Types, Post
  <2>7. wire' \in [Ends -> Seq(Byte)]
    BY <1>0, <2>1, <2>2, <2>4 DEF Types
  <2>8. QED
    BY <1>0, <1>18, <2>6, <2>7 DEF Types, ReadSome, sendVars, threadVars, history
<1>19. ASSUME NEW e \in Ends, ReadFails(e) PROVE Types'
  <2>1. strand' \in [Ends -> Seq(Tasks)]
    BY <1>14, <1>19 DEF ReadFails
  <2>2. QED
    BY <1>0, <1>19, <2>1 DEF Types, ReadFails, sendVars, netVars, threadVars, history
<1>20. ASSUME NEW e \in Ends, RunRead(e) PROVE Types'
  <2>1. Took(e)
    BY <1>5, <1>20 DEF RunRead
  <2>2. QED
    BY <1>0, <1>20, <2>1 DEF Types, RunRead, sendVars, netVars, threadVars, history
<1>21. ASSUME NEW e \in Ends, ExtractPacket(e) PROVE Types'
  BY <1>0, <1>21 DEF Types, ExtractPacket, sendVars, netVars, threadVars
<1>22. ASSUME NEW e \in Ends, Destroy(e) PROVE Types'
  <2>1. <<>> \in Seq(Frames) /\ Len(sendQueue[e]) \in Nat
    BY <1>0, EmptySeq, LenProperties DEF Types
  <2>2. sendQueue' \in [Ends -> Seq(Frames)]
    BY <1>0, <1>22, <2>1 DEF Types, Destroy
  <2>3. pending' \in [Ends -> Int]
    <3>1. pending' = [pending EXCEPT ![e] = pending[e] - Len(sendQueue[e])]
      BY <1>22 DEF Destroy
    <3>2. QED
      BY <1>0, <2>1, <3>1 DEF Types
  <2>4. buffer' = [f \in Ends |-> buffer'[f]]
    BY <1>0, <1>22 DEF Types, Destroy
  <2>5. QED
    BY <1>0, <1>22, <2>2, <2>3, <2>4 DEF Types, Destroy, netVars, threadVars, history
<1>23. CASE Break
  BY <1>0, <1>23 DEF Types, Break, sendVars, readVars, threadVars, history
<1>24. CASE UNCHANGED vars
  BY <1>0, <1>24 DEF Types, vars, sendVars, readVars, netVars, threadVars, history
<1>25. QED
  BY <1>1, <1>2, <1>3, <1>4, <1>6, <1>7, <1>10, <1>11, <1>12, <1>13, <1>16, <1>17, <1>18, <1>19,
     <1>20, <1>21, <1>22, <1>23, <1>24 DEF Next, StrandStep, WriteStep, ReadStep

-----------------------------------------------------------------------------
\* Only who sets closed_ first reports, and Close only before anyone has.
LEMMA ReportsStep ==
  ASSUME IInv, [Next]_vars
  PROVE  ReportsInv'
<1>0. Types /\ ReportsInv
  BY DEF IInv
<1>1. ASSUME NEW e \in Ends, Close(e) PROVE ReportsInv'
  <2>1. /\ closed' = [closed EXCEPT ![e] = TRUE] /\ ours' = [ours EXCEPT ![e] = TRUE] /\ reports' = reports
        /\ reports[e] = 0
    BY <1>0, <1>1 DEF ReportsInv, Close
  <2>2. ASSUME NEW f \in Ends, f # e
        PROVE  closed'[f] = closed[f] /\ ours'[f] = ours[f] /\ reports'[f] = reports[f]
    BY <1>0, <2>1, <2>2 DEF Types
  <2>3. closed'[e] /\ ours'[e] /\ reports'[e] = 0
    BY <1>0, <2>1 DEF Types
  <2>4. QED
    BY <1>0, <2>2, <2>3 DEF ReportsInv
<1>2. ASSUME NEW e \in Ends, HandleClose(e), UNCHANGED ours PROVE ReportsInv'
  <2>1. closed' = [closed EXCEPT ![e] = TRUE]
    BY <1>2 DEF HandleClose
  <2>2. CASE closed[e]
    <3>1. reports' = reports
      BY <1>0, <1>2, <2>2 DEF Types, HandleClose
    <3>2. QED
      BY <1>0, <1>2, <2>1, <3>1 DEF Types, ReportsInv
  <2>3. CASE ~closed[e]
    <3>1. reports' = [reports EXCEPT ![e] = reports[e] + 1]
      BY <1>2, <2>3 DEF HandleClose
    <3>2. ASSUME NEW f \in Ends, f # e
          PROVE  closed'[f] = closed[f] /\ ours'[f] = ours[f] /\ reports'[f] = reports[f]
      BY <1>0, <1>2, <2>1, <3>1, <3>2 DEF Types
    <3>3. closed'[e] /\ ~ours'[e] /\ reports'[e] = 1
      BY <1>0, <1>2, <2>1, <2>3, <3>1 DEF Types, ReportsInv
    <3>4. QED
      BY <1>0, <3>2, <3>3 DEF ReportsInv
  <2>4. QED
    BY <2>2, <2>3
<1>3. CASE UNCHANGED <<closed, reports, ours>>
  BY <1>0, <1>3 DEF ReportsInv
<1>4. ASSUME NEW e \in Ends, RunFailed(e) \/ FramingError(e) PROVE ReportsInv'
  BY <1>2, <1>4 DEF RunFailed, FramingError
<1>5. ASSUME NEW e \in Ends,
             Start(e) \/ Destroy(e) \/ RunEnqueue(e) \/ RunWritten(e) \/ RunShutdown(e) \/ RunRead(e)
             \/ ExtractPacket(e) \/ ReadMore(e) \/ ReadStep(e) \/ WriteStep(e)
      PROVE  UNCHANGED <<closed, reports, ours>>
  BY <1>5 DEF Start, Destroy, RunEnqueue, RunWritten, RunShutdown, RunRead, ExtractPacket, ReadMore,
     ReadStep, ReadSome, ReadFails, WriteStep, Transfer, WriteFails, history
<1>6. ASSUME NEW t \in Senders, Send(t) \/ PostFrame(t)
      PROVE  UNCHANGED <<closed, reports, ours>>
  BY <1>6 DEF Send, PostFrame, history
<1>7. CASE Break \/ UNCHANGED vars
  BY <1>3, <1>7 DEF Break, vars, history
<1>8. QED
  BY <1>1, <1>3, <1>4, <1>5, <1>6, <1>7 DEF Next, StrandStep

-----------------------------------------------------------------------------
\* A write is started when none is under way, and always that of the first
\* frame; its completion takes that frame off.
LEMMA WritesStep ==
  ASSUME IInv, [Next]_vars
  PROVE  WritesInv'
<1> USE SessionAssumption
<1>0. Types /\ WritesInv
  BY DEF IInv
<1> DEFINE Others(e) == \A f \in Ends \ {e} :
               /\ strand'[f] = strand[f] /\ sendQueue'[f] = sendQueue[f] /\ writing'[f] = writing[f]
               /\ writes'[f] = writes[f] /\ pending'[f] = pending[f]
           Holds(e) ==
               /\ WriteOK(strand'[e], sendQueue'[e], writing'[e], writes'[e])
               /\ pending'[e] = Len(sendQueue'[e])
<1>1. ASSUME NEW e \in Ends, Others(e), Holds(e) PROVE WritesInv'
  BY <1>0, <1>1 DEF WritesInv
<1>2. ASSUME NEW e \in Ends
      PROVE  /\ strand[e] \in Seq(Tasks) /\ sendQueue[e] \in Seq(Frames) /\ writes[e] \in Seq(Frames)
             /\ WriteOK(strand[e], sendQueue[e], writing[e], writes[e]) /\ pending[e] = Len(sendQueue[e])
             /\ Len(sendQueue[e]) \in Nat
  BY <1>0, <1>2, LenProperties DEF Types, WritesInv
<1>3. ASSUME UNCHANGED sendVars, UNCHANGED strand PROVE WritesInv'
  BY <1>0, <1>3 DEF WritesInv, sendVars
\* Posts and tasks that are not about writing.
<1>4. ASSUME NEW e \in Ends, NEW task, task.do # "written", Post(e, task), UNCHANGED sendVars PROVE WritesInv'
  <2>1. strand' = [strand EXCEPT ![e] = Append(strand[e], task)]
    BY <1>4 DEF Post
  <2>2. /\ Has(Append(strand[e], task), "written") <=> Has(strand[e], "written")
        /\ Once(strand[e], "written") => Once(Append(strand[e], task), "written")
    BY <1>2, <1>4, PostTask
  <2>3. Others(e)
    BY <1>4, <2>1 DEF sendVars
  <2>4. strand'[e] = Append(strand[e], task)
    BY <1>0, <2>1 DEF Types
  <2>5. Holds(e)
    BY <1>2, <1>4, <2>2, <2>4 DEF WriteOK, sendVars
  <2>6. QED
    BY <1>1, <2>3, <2>5
<1>5. ASSUME NEW e \in Ends, NEW do, Run(e, do)
      PROVE  /\ strand' = [strand EXCEPT ![e] = Tail(strand[e])] /\ strand'[e] = Tail(strand[e])
             /\ Head(strand[e]).do = do
             /\ Has(strand'[e], "written") => Has(strand[e], "written")
             /\ Once(strand'[e], "written")
             /\ do = "written" => Has(strand[e], "written") /\ ~Has(strand'[e], "written")
  <2>1. strand[e] # <<>> /\ Head(strand[e]).do = do /\ strand' = [strand EXCEPT ![e] = Tail(strand[e])]
    BY <1>5 DEF Run
  <2>2. strand'[e] = Tail(strand[e])
    BY <1>0, <2>1 DEF Types
  <2>3. Once(strand[e], "written")
    BY <1>2 DEF WriteOK
  <2>4. QED
    BY <1>2, <2>1, <2>2, <2>3, TakeTask
<1>6. ASSUME NEW e \in Ends, NEW do, Run(e, do), UNCHANGED sendVars PROVE WritesInv'
  <2>1. Others(e)
    BY <1>0, <1>5, <1>6 DEF sendVars, Types
  <2>2. Holds(e)
    BY <1>2, <1>5, <1>6 DEF WriteOK, sendVars
  <2>3. QED
    BY <1>1, <2>1, <2>2
<1>7. ASSUME NEW e \in Ends, RunEnqueue(e) PROVE WritesInv'
  <2> DEFINE frame == Head(strand[e]).bytes
             queue == Append(sendQueue[e], frame)
  <2>1. Run(e, "enqueue")
    BY <1>7 DEF RunEnqueue
  <2>2. frame \in Frames
    <3>1. Head(strand[e]) \in Tasks
      BY <1>2, <2>1, TakeTask DEF Run
    <3>2. QED
      BY <1>5, <2>1, <3>1 DEF Tasks
  <2>3. /\ queue \in Seq(Frames) /\ queue # <<>> /\ Len(queue) = Len(sendQueue[e]) + 1
        /\ Head(queue) \in Frames
    <3>1. queue \in Seq(Frames) /\ queue # <<>> /\ Len(queue) = Len(sendQueue[e]) + 1
      BY <1>2, <2>2, AppendProperties
    <3> HIDE DEF queue
    <3>2. QED
      BY <3>1, HeadTailProperties
  <2>4. sendQueue[e] # <<>> => Head(queue) = Head(sendQueue[e])
    BY <1>2, <2>2, HeadTailAppend
  <2>5. sendQueue' = [sendQueue EXCEPT ![e] = queue] /\ pending' = [pending EXCEPT ![e] = pending[e] + 1]
    BY <1>7 DEF RunEnqueue
  <2>6. sendQueue'[e] = queue /\ pending'[e] = pending[e] + 1
    BY <1>0, <2>5 DEF Types
  <2> HIDE DEF queue
  <2>7. CASE writing[e]
    <3>1. UNCHANGED <<writing, writes>>
      BY <1>7, <2>7 DEF RunEnqueue
    <3>2. Others(e)
      BY <1>0, <1>5, <2>1, <2>5, <3>1 DEF Types
    <3>3. WriteOK(strand'[e], queue, writing[e], writes[e])
      BY <1>2, <1>5, <2>1, <2>3, <2>4, <2>7 DEF WriteOK
    <3>4. Holds(e)
      BY <1>2, <2>3, <2>6, <3>1, <3>3
    <3>5. QED
      BY <1>1, <3>2, <3>4
  <2>8. CASE ~writing[e]
    <3>1. writing' = [writing EXCEPT ![e] = TRUE] /\ writes' = [writes EXCEPT ![e] = Append(writes[e], Head(queue))]
      BY <1>7, <2>6, <2>8 DEF RunEnqueue, DoWrite
    <3>2. Others(e)
      BY <1>0, <1>5, <2>1, <2>5, <3>1 DEF Types
    <3>3. writes[e] = <<>> /\ ~Has(strand[e], "written")
      BY <1>2, <2>8 DEF WriteOK
    <3>4. writes'[e] = <<Head(queue)>> /\ writing'[e] = TRUE
      BY <1>0, <3>1, <3>3 DEF Types
    <3>5. RestOf(Head(queue), Head(queue))
      BY <2>3, WholeFrame
    <3>6. WriteOK(strand'[e], queue, TRUE, <<Head(queue)>>)
      BY <1>5, <2>1, <2>3, <3>3, <3>5 DEF WriteOK
    <3>7. Holds(e)
      BY <1>2, <2>3, <2>6, <3>4, <3>6
    <3>8. QED
      BY <1>1, <3>2, <3>7
  <2>9. QED
    BY <2>7, <2>8
<1>8. ASSUME NEW e \in Ends, RunWritten(e) PROVE WritesInv'
  <2> DEFINE queue == Tail(sendQueue[e])
  <2>1. Run(e, "written")
    BY <1>8 DEF RunWritten
  <2>2. writes[e] = <<>> /\ sendQueue[e] # <<>> /\ ~Has(strand'[e], "written") /\ Once(strand'[e], "written")
    BY <1>2, <1>5, <2>1 DEF WriteOK
  <2>3. queue \in Seq(Frames) /\ Len(queue) = Len(sendQueue[e]) - 1
    BY <1>2, <2>2, HeadTailProperties
  <2>4. sendQueue' = [sendQueue EXCEPT ![e] = queue] /\ pending' = [pending EXCEPT ![e] = pending[e] - 1]
    BY <1>8 DEF RunWritten
  <2>5. sendQueue'[e] = queue /\ pending'[e] = pending[e] - 1
    BY <1>0, <2>4 DEF Types
  <2>6. pending'[e] = Len(queue)
    BY <1>2, <2>3, <2>5
  <2> HIDE DEF queue
  <2>7. CASE queue # <<>>
    <3>1. writing' = [writing EXCEPT ![e] = TRUE] /\ writes' = [writes EXCEPT ![e] = Append(writes[e], Head(queue))]
      BY <1>8, <2>5, <2>7 DEF RunWritten, DoWrite
    <3>2. Others(e)
      BY <1>0, <1>5, <2>1, <2>4, <3>1 DEF Types
    <3>3. writes'[e] = <<Head(queue)>> /\ writing'[e] = TRUE
      BY <1>0, <2>2, <3>1 DEF Types
    <3>4. RestOf(Head(queue), Head(queue))
      BY <2>3, <2>7, HeadTailProperties, WholeFrame
    <3>5. WriteOK(strand'[e], queue, TRUE, <<Head(queue)>>)
      BY <2>2, <2>7, <3>4 DEF WriteOK
    <3>6. QED
      BY <1>1, <2>5, <2>6, <3>2, <3>3, <3>5
  <2>8. CASE queue = <<>>
    <3>1. writing' = [writing EXCEPT ![e] = FALSE] /\ writes' = writes
      BY <1>8, <2>5, <2>8 DEF RunWritten
    <3>2. Others(e)
      BY <1>0, <1>5, <2>1, <2>4, <3>1 DEF Types
    <3>3. WriteOK(strand'[e], queue, writing'[e], writes'[e])
      BY <2>2, <3>1 DEF WriteOK
    <3>4. QED
      BY <1>1, <2>5, <2>6, <3>2, <3>3
  <2>9. QED
    BY <2>7, <2>8
<1>9. ASSUME NEW e \in Ends, NEW i \in 1 .. Len(writes[e])
      PROVE  /\ i = 1 /\ Len(writes[e]) = 1 /\ writes[e][1] \in Frames /\ Without(writes[e], i) = <<>>
             /\ sendQueue[e] # <<>> /\ writing[e] /\ RestOf(writes[e][1], Head(sendQueue[e]))
             /\ Head(sendQueue[e]) \in Frames
             /\ Once(strand[e], "written") /\ ~Has(strand[e], "written")
  <2>1. writes[e] # <<>>
    BY <1>2, EmptySeq
  <2>2. /\ Len(writes[e]) = 1 /\ sendQueue[e] # <<>> /\ writing[e]
        /\ RestOf(writes[e][1], Head(sendQueue[e])) /\ Once(strand[e], "written") /\ ~Has(strand[e], "written")
    BY <1>2, <2>1 DEF WriteOK
  <2>3. i = 1
    BY <2>2
  <2>4. Without(writes[e], i) = <<>>
    BY <1>2, <2>2, WithoutOne
  <2>5. writes[e][1] \in Frames /\ Head(sendQueue[e]) \in Frames
    BY <1>2, <2>2, <2>3, ElementOfSeq, HeadTailProperties
  <2>6. QED
    BY <2>2, <2>3, <2>4, <2>5
<1>10. ASSUME NEW e \in Ends, NEW i \in 1 .. Len(writes[e]), NEW task, Post(e, task),
              writes' = [writes EXCEPT ![e] = Without(writes[e], i)],
              UNCHANGED <<sendQueue, writing, pending>>
       PROVE  WritesInv'
  <2>1. strand' = [strand EXCEPT ![e] = Append(strand[e], task)] /\ strand'[e] = Append(strand[e], task)
    BY <1>0, <1>10 DEF Post, Types
  <2>2. Once(strand'[e], "written")
    <3>1. Once(strand[e], "written") /\ ~Has(strand[e], "written")
      BY <1>9
    <3>2. QED
      BY <1>2, <2>1, <3>1, PostTask
  <2>3. writes'[e] = <<>>
    BY <1>0, <1>9, <1>10 DEF Types
  <2>4. Others(e)
    BY <1>10, <2>1
  <2>5. Holds(e)
    BY <1>2, <1>9, <1>10, <2>2, <2>3 DEF WriteOK
  <2>6. QED
    BY <1>1, <2>4, <2>5
<1>11. ASSUME NEW e \in Ends, NEW i \in 1 .. Len(writes[e]), WriteFails(e, i) PROVE WritesInv'
  BY <1>10, <1>11 DEF WriteFails
<1>12. ASSUME NEW e \in Ends, NEW i \in 1 .. Len(writes[e]), Transfer(e, i) PROVE WritesInv'
  <2> DEFINE b == writes[e][1]
             n == IF Len(b) > WriteSize THEN WriteSize ELSE Len(b)
             rest == SubSeq(b, n + 1, Len(b))
  <2>1. i = 1 /\ b \in Frames
    BY <1>9
  <2>2. CASE n = Len(b)
    BY <1>10, <1>12, <2>1, <2>2 DEF Transfer
  <2>3. CASE n # Len(b)
    <3>1. writes' = [writes EXCEPT ![e] = [writes[e] EXCEPT ![1] = rest]] /\ strand' = strand
          /\ UNCHANGED <<sendQueue, writing, pending>>
      BY <1>12, <2>1, <2>3 DEF Transfer
    <3>2. Len(b) \in Nat \ {0}
      BY <2>1, WholeFrame
    <3>3. n \in 1 .. Len(b)
      BY <3>2
    <3>4. rest \in Frames /\ RestOf(rest, Head(sendQueue[e]))
      BY <1>9, <2>1, <2>3, <3>3, RestOfRest
    <3> HIDE DEF rest, n, b
    <3>5. writes'[e] = [writes[e] EXCEPT ![1] = rest]
      BY <1>0, <3>1 DEF Types
    <3>6. Len(writes'[e]) = 1 /\ writes'[e][1] = rest
      BY <1>2, <1>9, <3>4, <3>5, ExceptSeq
    <3>7. Others(e)
      BY <3>1
    <3>8. Holds(e)
      BY <1>2, <1>9, <3>1, <3>4, <3>6 DEF WriteOK
    <3>9. QED
      BY <1>1, <3>7, <3>8
  <2>4. QED
    BY <2>2, <2>3
<1>13. ASSUME NEW e \in Ends, Destroy(e) PROVE WritesInv'
  <2>1. sendQueue' = [sendQueue EXCEPT ![e] = <<>>] /\ pending' = [pending EXCEPT ![e] = pending[e] - Len(sendQueue[e])]
        /\ UNCHANGED <<strand, writing, writes>> /\ strand[e] = <<>> /\ writes[e] = <<>>
    BY <1>13 DEF Destroy
  <2>2. sendQueue'[e] = <<>> /\ pending'[e] = 0 /\ Len(<<>>) = 0
    BY <1>0, <1>2, <2>1, EmptySeq DEF Types
  <2>3. Others(e)
    BY <2>1
  <2>4. Once(<<>>, "written") /\ ~Has(<<>>, "written")
    BY DEF Once, Has
  <2>5. Holds(e)
    BY <2>1, <2>2, <2>4 DEF WriteOK
  <2>6. QED
    BY <1>1, <2>3, <2>5
<1>14. ASSUME NEW e \in Ends, RunFailed(e) \/ RunShutdown(e) \/ RunRead(e) PROVE WritesInv'
  BY <1>6, <1>14 DEF RunFailed, RunShutdown, RunRead
<1>15. ASSUME NEW e \in Ends, Start(e) \/ ExtractPacket(e) \/ ReadMore(e) \/ FramingError(e) PROVE WritesInv'
  BY <1>3, <1>15 DEF Start, ExtractPacket, ReadMore, FramingError
<1>16. ASSUME NEW e \in Ends, Close(e) PROVE WritesInv'
  BY <1>4, <1>16 DEF Close, Task
<1>17. ASSUME NEW e \in Ends, ReadStep(e) PROVE WritesInv'
  BY <1>4, <1>17 DEF ReadStep, ReadSome, ReadFails, Task
<1>18. ASSUME NEW t \in Senders, Send(t) \/ PostFrame(t) PROVE WritesInv'
  BY <1>3, <1>4, <1>18 DEF Send, PostFrame, Task
<1>19. CASE Break \/ UNCHANGED vars
  BY <1>3, <1>19 DEF Break, vars
<1>20. QED
  BY <1>7, <1>8, <1>11, <1>12, <1>13, <1>14, <1>15, <1>16, <1>17, <1>18, <1>19 DEF Next, StrandStep, WriteStep

-----------------------------------------------------------------------------
\* The next read is asked for only when nothing is left to extract.
LEMMA ReadsStep ==
  ASSUME IInv, [Next]_vars
  PROVE  ReadsInv'
<1> USE SessionAssumption
<1>0. Types /\ ReadsInv
  BY DEF IInv
<1> DEFINE Others(e) == \A f \in Ends \ {e} :
               /\ strand'[f] = strand[f] /\ reading'[f] = reading[f] /\ draining'[f] = draining[f]
               /\ started'[f] = started[f] /\ buffer'[f] = buffer[f]
           Holds(e) == ReadOK(strand'[e], reading'[e], draining'[e], started'[e], buffer'[e])
<1>1. ASSUME NEW e \in Ends, Others(e), Holds(e) PROVE ReadsInv'
  BY <1>0, <1>1 DEF ReadsInv
<1>2. ASSUME NEW e \in Ends
      PROVE  /\ strand[e] \in Seq(Tasks)
             /\ ReadOK(strand[e], reading[e], draining[e], started[e], buffer[e])
  BY <1>0, <1>2 DEF Types, ReadsInv
<1>3. ASSUME UNCHANGED <<readVars, started, strand>> PROVE ReadsInv'
  BY <1>0, <1>3 DEF ReadsInv, readVars
<1>4. ASSUME NEW e \in Ends, NEW task, task.do # "read", Post(e, task), UNCHANGED <<readVars, started>>
      PROVE  ReadsInv'
  <2>1. strand' = [strand EXCEPT ![e] = Append(strand[e], task)] /\ strand'[e] = Append(strand[e], task)
    BY <1>0, <1>4 DEF Post, Types
  <2>2. /\ Has(strand'[e], "read") <=> Has(strand[e], "read")
        /\ Once(strand[e], "read") => Once(strand'[e], "read")
    BY <1>2, <1>4, <2>1, PostTask
  <2>3. Others(e)
    BY <1>0, <1>4, <2>1 DEF readVars, Types
  <2>4. Holds(e)
    BY <1>2, <1>4, <2>2 DEF ReadOK, readVars
  <2>5. QED
    BY <1>1, <2>3, <2>4
<1>5. ASSUME NEW e \in Ends, NEW do, Run(e, do)
      PROVE  /\ strand' = [strand EXCEPT ![e] = Tail(strand[e])]
             /\ Head(strand[e]).do = do /\ Head(strand[e]) \in Tasks
             /\ Has(strand'[e], "read") => Has(strand[e], "read")
             /\ Once(strand'[e], "read")
             /\ do = "read" => Has(strand[e], "read") /\ ~Has(strand'[e], "read")
  <2>1. strand[e] # <<>> /\ Head(strand[e]).do = do /\ strand' = [strand EXCEPT ![e] = Tail(strand[e])]
    BY <1>5 DEF Run
  <2>2. strand'[e] = Tail(strand[e])
    BY <1>0, <2>1 DEF Types
  <2>3. Once(strand[e], "read")
    BY <1>2 DEF ReadOK
  <2>4. QED
    BY <1>2, <2>1, <2>2, <2>3, TakeTask
<1>6. ASSUME NEW e \in Ends, NEW do, Run(e, do), UNCHANGED <<readVars, started>> PROVE ReadsInv'
  <2>1. Others(e)
    BY <1>0, <1>5, <1>6 DEF readVars, Types
  <2>2. Holds(e)
    BY <1>2, <1>5, <1>6 DEF ReadOK, readVars
  <2>3. QED
    BY <1>1, <2>1, <2>2
<1>7. ASSUME NEW e \in Ends, Start(e) PROVE ReadsInv'
  <2>1. /\ ~started[e] /\ started' = [started EXCEPT ![e] = TRUE] /\ reading' = [reading EXCEPT ![e] = TRUE]
        /\ UNCHANGED <<strand, draining, buffer>>
    BY <1>7 DEF Start
  <2>2. started'[e] /\ reading'[e]
    BY <1>0, <2>1 DEF Types
  <2>3. Others(e)
    BY <1>0, <2>1 DEF Types
  <2>4. Holds(e)
    BY <1>2, <2>1, <2>2 DEF ReadOK
  <2>5. QED
    BY <1>1, <2>3, <2>4
<1>8. ASSUME NEW e \in Ends, RunRead(e) PROVE ReadsInv'
  <2> DEFINE data == Head(strand[e]).bytes
  <2>1. Run(e, "read")
    BY <1>8 DEF RunRead
  <2>2. /\ Head(strand[e]) \in Tasks /\ Head(strand[e]).do = "read"
        /\ Has(strand[e], "read") /\ ~Has(strand'[e], "read") /\ Once(strand'[e], "read")
    BY <1>5, <2>1
  <2>3. data \in Seq(Byte) /\ Len(data) \in 1 .. ReadSize
    BY <2>2 DEF Tasks, Chunks
  <2>4. BufferOK(buffer[e]) /\ Available(buffer[e]) < FrameBound /\ started[e] /\ ~reading[e]
    BY <1>2, <2>2 DEF ReadOK
  <2>5. /\ buffer' = [buffer EXCEPT ![e] = AppendBytes(buffer[e], data)]
        /\ draining' = [draining EXCEPT ![e] = TRUE] /\ UNCHANGED <<started, reading>>
    BY <1>8 DEF RunRead
  <2>6. buffer'[e] = AppendBytes(buffer[e], data) /\ draining'[e]
    BY <1>0, <2>5 DEF Types
  <2>7. BufferOK(buffer'[e])
    BY <2>3, <2>4, <2>6, AppendKeepsBuffer
  <2>8. strand' = [strand EXCEPT ![e] = Tail(strand[e])]
    BY <1>5, <2>1
  <2>9. Others(e)
    BY <1>0, <2>5, <2>8 DEF Types
  <2>10. Holds(e)
    BY <2>2, <2>4, <2>5, <2>6, <2>7 DEF ReadOK
  <2>11. QED
    BY <1>1, <2>9, <2>10
<1>9. ASSUME NEW e \in Ends, draining[e]
      PROVE  /\ BufferOK(buffer[e]) /\ started[e] /\ ~reading[e]
             /\ Once(strand[e], "read") /\ ~Has(strand[e], "read")
  BY <1>2, <1>9 DEF ReadOK
<1>10. ASSUME NEW e \in Ends, ExtractPacket(e) PROVE ReadsInv'
  <2>1. /\ draining[e] /\ Found(buffer[e]) = "packet" /\ buffer' = [buffer EXCEPT ![e] = AfterExtract(buffer[e])]
        /\ UNCHANGED <<strand, started, reading, draining>>
    BY <1>10 DEF ExtractPacket
  <2>2. buffer'[e] = AfterExtract(buffer[e])
    BY <1>0, <2>1 DEF Types
  <2>3. BufferOK(buffer'[e])
    BY <1>9, <2>1, <2>2, ExtractKeepsBuffer
  <2>4. Others(e)
    BY <1>0, <2>1 DEF Types
  <2>5. Holds(e)
    BY <1>9, <2>1, <2>3 DEF ReadOK
  <2>6. QED
    BY <1>1, <2>4, <2>5
<1>11. ASSUME NEW e \in Ends, ReadMore(e) PROVE ReadsInv'
  <2>1. /\ draining[e] /\ Found(buffer[e]) = "nothing"
        /\ draining' = [draining EXCEPT ![e] = FALSE] /\ reading' = [reading EXCEPT ![e] = TRUE]
        /\ UNCHANGED <<strand, started, buffer>>
    BY <1>11 DEF ReadMore
  <2>2. ~draining'[e] /\ reading'[e]
    BY <1>0, <2>1 DEF Types
  <2>3. Available(buffer[e]) < FrameBound
    BY <1>9, <2>1, NothingIsShort
  <2>4. Others(e)
    BY <1>0, <2>1 DEF Types
  <2>5. Holds(e)
    BY <1>9, <2>1, <2>2, <2>3 DEF ReadOK
  <2>6. QED
    BY <1>1, <2>4, <2>5
<1>12. ASSUME NEW e \in Ends, FramingError(e) PROVE ReadsInv'
  <2>1. draining[e] /\ draining' = [draining EXCEPT ![e] = FALSE] /\ UNCHANGED <<strand, started, reading, buffer>>
    BY <1>12 DEF FramingError
  <2>2. ~draining'[e]
    BY <1>0, <2>1 DEF Types
  <2>3. Others(e)
    BY <1>0, <2>1 DEF Types
  <2>4. Holds(e)
    BY <1>9, <2>1, <2>2 DEF ReadOK
  <2>5. QED
    BY <1>1, <2>3, <2>4
<1>13. ASSUME NEW e \in Ends, NEW task, reading[e], Post(e, task), reading' = [reading EXCEPT ![e] = FALSE],
              UNCHANGED <<started, draining, buffer>>
       PROVE  ReadsInv'
  <2>1. strand' = [strand EXCEPT ![e] = Append(strand[e], task)] /\ strand'[e] = Append(strand[e], task)
    BY <1>0, <1>13 DEF Post, Types
  <2>2. /\ BufferOK(buffer[e]) /\ ~draining[e] /\ started[e] /\ Available(buffer[e]) < FrameBound
        /\ Once(strand[e], "read") /\ ~Has(strand[e], "read")
    BY <1>2, <1>13 DEF ReadOK
  <2>3. Once(strand'[e], "read")
    BY <1>2, <2>1, <2>2, PostTask
  <2>4. ~reading'[e]
    BY <1>0, <1>13 DEF Types
  <2>5. Others(e)
    BY <1>0, <1>13, <2>1 DEF Types
  <2>6. Holds(e)
    BY <1>13, <2>2, <2>3, <2>4 DEF ReadOK
  <2>7. QED
    BY <1>1, <2>5, <2>6
<1>14. ASSUME NEW e \in Ends, ReadStep(e) PROVE ReadsInv'
  BY <1>13, <1>14 DEF ReadStep, ReadSome, ReadFails
<1>15. ASSUME NEW e \in Ends, Destroy(e) PROVE ReadsInv'
  <2>1. /\ buffer' = [buffer EXCEPT ![e] = EmptyBuffer] /\ strand[e] = <<>> /\ started[e] /\ ~draining[e] /\ ~reading[e]
        /\ UNCHANGED <<strand, started, reading, draining>>
    BY <1>15 DEF Destroy
  <2>2. buffer'[e] = EmptyBuffer
    BY <1>0, <2>1 DEF Types
  <2>3. BufferOK(EmptyBuffer)
    BY EmptyIsOK
  <2>4. Once(<<>>, "read") /\ ~Has(<<>>, "read")
    BY DEF Once, Has
  <2>5. Others(e)
    BY <1>0, <2>1 DEF Types
  <2>6. Holds(e)
    BY <2>1, <2>2, <2>3, <2>4 DEF ReadOK
  <2>7. QED
    BY <1>1, <2>5, <2>6
<1>16. ASSUME NEW e \in Ends, RunFailed(e) \/ RunShutdown(e) \/ RunEnqueue(e) \/ RunWritten(e) PROVE ReadsInv'
  BY <1>6, <1>16 DEF RunFailed, RunShutdown, RunEnqueue, RunWritten
<1>17. ASSUME NEW e \in Ends, Close(e) PROVE ReadsInv'
  BY <1>4, <1>17 DEF Close, Task
<1>18. ASSUME NEW t \in Senders, Send(t) \/ PostFrame(t) PROVE ReadsInv'
  BY <1>3, <1>4, <1>18 DEF Send, PostFrame, Task
<1>19. ASSUME NEW e \in Ends, NEW i, Transfer(e, i) \/ WriteFails(e, i) PROVE ReadsInv'
  BY <1>3, <1>4, <1>19 DEF Transfer, WriteFails, Task
<1>20. CASE Break \/ UNCHANGED vars
  BY <1>3, <1>20 DEF Break, vars
<1>21. QED
  BY <1>7, <1>8, <1>10, <1>11, <1>12, <1>14, <1>15, <1>16, <1>17, <1>18, <1>19, <1>20
     DEF Next, StrandStep, WriteStep

-----------------------------------------------------------------------------
LEMMA IInvInit == Init => IInv
<1> SUFFICES ASSUME Init PROVE IInv
  OBVIOUS
<1>1. <<>> \in Seq(Tasks) /\ <<>> \in Seq(Frames) /\ <<>> \in Seq(Byte) /\ Len(<<>>) = 0
  BY EmptySeq
<1>2. \A do : Once(<<>>, do) /\ ~Has(<<>>, do)
  BY DEF Once, Has
<1>3. Types
  BY <1>1 DEF Init, Types
<1>4. WritesInv
  BY <1>1, <1>2 DEF Init, WritesInv, WriteOK
<1>5. ReadsInv
  BY <1>2, EmptyIsOK DEF Init, ReadsInv, ReadOK
<1>6. ReportsInv
  BY DEF Init, ReportsInv
<1>7. QED
  BY <1>3, <1>4, <1>5, <1>6 DEF IInv

\* The shapes of a strand, its queue and its buffer hold throughout.
THEOREM InductiveInvariant == Spec => []IInv
<1>1. IInv /\ [Next]_vars => IInv'
  BY TypesStep, WritesStep, ReadsStep, ReportsStep DEF IInv
<1>2. QED
  BY IInvInit, <1>1, PTL DEF Spec

\* The owner of a session hears of its end at most once, and not at all if it
\* closed it: HandleClose and Close decide by one exchange of closed_.
THEOREM OwnerHearsOnce == Spec => []ReportedOnce
<1>1. IInv => ReportedOnce
  BY DEF IInv, ReportsInv, ReportedOnce
<1>2. QED
  BY InductiveInvariant, <1>1, PTL

\* One outstanding write per session, of what is first in its queue
\* (DoWrite is called from posts and from completions of the strand only).
THEOREM OneWriteAtATime == Spec => []OneWrite
<1>1. IInv => OneWrite
  <2> SUFFICES ASSUME IInv, NEW e \in Ends
               PROVE  /\ Len(writes[e]) + Cardinality({i \in 1 .. Len(strand[e]) : strand[e][i].do = "written"}) <= 1
                      /\ writes[e] # <<>> => RestOf(writes[e][1], Head(sendQueue[e]))
    BY DEF OneWrite, RestOf
  <2> DEFINE done == {i \in 1 .. Len(strand[e]) : strand[e][i].do = "written"}
  <2>1. WriteOK(strand[e], sendQueue[e], writing[e], writes[e]) /\ writes[e] \in Seq(Frames)
    BY DEF IInv, WritesInv, Types
  <2>2. CASE Has(strand[e], "written")
    <3>1. writes[e] = <<>> /\ Len(<<>>) = 0
      BY <2>1, <2>2, EmptySeq DEF WriteOK
    <3>2. PICK i \in 1 .. Len(strand[e]) : strand[e][i].do = "written"
      BY <2>2 DEF Has
    <3>3. done = {i}
      <4>1. Once(strand[e], "written")
        BY <2>1 DEF WriteOK
      <4>2. QED
        BY <3>2, <4>1 DEF Once
    <3>4. Cardinality(done) = 1
      BY <3>3, FS_Singleton
    <3> HIDE DEF done
    <3>5. QED
      BY <3>1, <3>4 DEF done
  <2>3. CASE ~Has(strand[e], "written")
    <3>1. done = {}
      BY <2>3 DEF Has
    <3>2. Cardinality(done) = 0
      BY <3>1, FS_EmptySet
    <3>3. writes[e] = <<>> \/ (Len(writes[e]) = 1 /\ RestOf(writes[e][1], Head(sendQueue[e])))
      BY <2>1 DEF WriteOK
    <3>4. Len(<<>>) = 0
      BY EmptySeq
    <3>5. Len(writes[e]) + 0 <= 1 /\ (writes[e] # <<>> => RestOf(writes[e][1], Head(sendQueue[e])))
      <4>1. CASE writes[e] = <<>>
        <5>1. Len(writes[e]) = 0
          BY <3>4, <4>1
        <5>2. QED
          BY <4>1, <5>1
      <4>2. CASE writes[e] # <<>>
        <5>1. Len(writes[e]) = 1 /\ RestOf(writes[e][1], Head(sendQueue[e]))
          BY <3>3, <4>2, Zenon
        <5>2. 1 + 0 <= 1
          OBVIOUS
        <5>3. QED
          BY <5>1, <5>2, Zenon
      <4>3. QED
        BY <4>1, <4>2
    <3>6. Len(writes[e]) + Cardinality(done) <= 1
      BY <3>2, <3>5, Zenon
    <3>7. QED
      BY <3>5, <3>6
  <2>4. QED
    BY <2>2, <2>3
<1>2. QED
  BY InductiveInvariant, <1>1, PTL

\* The count of queued frames is theirs, also of a session that is destroyed
\* with frames unsent.
THEOREM CountedIsQueued == Spec => []PendingIsQueued
<1>1. IInv => PendingIsQueued
  BY DEF IInv, WritesInv, PendingIsQueued
<1>2. QED
  BY InductiveInvariant, <1>1, PTL

\* The buffer of a session stops growing, wherever the stream is cut: reads
\* meet less than a frame, and Append enlarges less than twice that.
THEOREM BufferStaysBounded == Spec => []BufferBounded
<1>1. IInv => BufferBounded
  BY DEF IInv, ReadsInv, ReadOK, BufferOK, FrameBound, BufferBounded
<1>2. QED
  BY InductiveInvariant, <1>1, PTL
=============================================================================
