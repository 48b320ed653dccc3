------------------------------- MODULE Session -------------------------------
(***************************************************************************)
(* A TCP connection and the Session object at each of its ends             *)
(* (Network/Session.cpp).  Any thread may send or close; what touches the  *)
(* queue, the socket and the buffer runs on the strand of the session, one *)
(* task at a time in the order it was posted, completions included.  The   *)
(* system takes the bytes of a write and hands them out to reads cut       *)
(* anywhere; it may lose the connection at any time.                       *)
(***************************************************************************)
EXTENDS PacketBuffer, FiniteSets

CONSTANTS
    Ends,           \* the two ends
    PeerOf,
    Senders,        \* threads that send on the session of their end
    EndOf,
    Script,         \* what a thread sends: batches of packets, each in one call
    Unchecked,      \* threads of a peer that does not use BuildFrame
    Closers,        \* ends whose application may call Close
    MayBreak,       \* bound: whether the connection may be lost
    ReadSize,       \* kReceiveBufferSize
    WriteSize       \* bound: bytes the system takes at a time

ASSUME SessionAssumption ==
    /\ PeerOf \in [Ends -> Ends]
    /\ EndOf \in [Senders -> Ends]
    /\ Unchecked \subseteq Senders /\ Closers \subseteq Ends
    /\ MayBreak \in BOOLEAN
    /\ ReadSize \in Nat \ {0} /\ WriteSize \in Nat \ {0}

VARIABLES
    started,    \* per end: Start has been called
    closed,     \* closed_
    socket,     \* per end: socket_ is open
    strand,     \* per end: tasks posted and not run
    sendQueue,  \* sendQueue_
    writing,    \* writing_
    writes,     \* per end: bytes left of the outstanding async_write calls
    reading,    \* per end: an async_read_some is outstanding
    draining,   \* per end: the read handler is in its TryExtract loop
    buffer,     \* packetBuffer_
    wire,       \* per end: bytes on their way to the peer
    broken,     \* the connection is lost
    alive,      \* per end: the Session has not been destroyed
    pending,    \* per end: SendStats::pendingFrames_
    next,       \* per thread: batches sent so far
    building,   \* per thread: it has found the session open and will post
    posted,     \* history: per end, packets in the order they were posted
    received,   \* history: per end, packets given to OnPacket
    reports,    \* history: per end, calls of OnClosed
    ours        \* history: per end, Close came first

netVars == <<wire, broken>>
sendVars == <<sendQueue, writing, writes, pending>>
readVars == <<reading, draining, buffer>>
threadVars == <<next, building>>
history == <<posted, received, reports, ours>>
vars == <<started, closed, socket, strand, sendVars, readVars, netVars, alive, threadVars, history>>

Task(do, bytes) == [do |-> do, bytes |-> bytes]

Init ==
    /\ started = [e \in Ends |-> FALSE]
    /\ closed = [e \in Ends |-> FALSE]
    /\ socket = [e \in Ends |-> TRUE]
    /\ strand = [e \in Ends |-> <<>>]
    /\ sendQueue = [e \in Ends |-> <<>>]
    /\ writing = [e \in Ends |-> FALSE]
    /\ writes = [e \in Ends |-> <<>>]
    /\ reading = [e \in Ends |-> FALSE]
    /\ draining = [e \in Ends |-> FALSE]
    /\ buffer = [e \in Ends |-> EmptyBuffer]
    /\ wire = [e \in Ends |-> <<>>]
    /\ broken = FALSE
    /\ alive = [e \in Ends |-> TRUE]
    /\ pending = [e \in Ends |-> 0]
    /\ next = [t \in Senders |-> 0]
    /\ building = [t \in Senders |-> FALSE]
    /\ posted = [e \in Ends |-> <<>>]
    /\ received = [e \in Ends |-> <<>>]
    /\ reports = [e \in Ends |-> 0]
    /\ ours = [e \in Ends |-> FALSE]

Post(e, task) == strand' = [strand EXCEPT ![e] = Append(@, task)]

(***************************************************************************)
(* The application: Start after OnSessionOpened, and any thread.           *)
(***************************************************************************)

Start(e) ==
    /\ ~started[e]
    /\ started' = [started EXCEPT ![e] = TRUE]
    /\ reading' = [reading EXCEPT ![e] = TRUE]
    /\ UNCHANGED <<closed, socket, strand, sendVars, draining, buffer, netVars, alive, threadVars, history>>

Batch(t) == Script[t][next[t] + 1]

Refused(t) ==
    \/ closed[EndOf[t]] \/ Batch(t) = <<>>
    \/ t \notin Unchecked /\ \E i \in 1 .. Len(Batch(t)) : TooLarge(Batch(t)[i])

\* SendPacket and SendFrames up to the post: the flag and the size.
Send(t) ==
    /\ alive[EndOf[t]]
    /\ ~building[t]
    /\ next[t] < Len(Script[t])
    /\ IF Refused(t)
       THEN next' = [next EXCEPT ![t] = @ + 1] /\ building' = building
       ELSE building' = [building EXCEPT ![t] = TRUE] /\ next' = next
    /\ UNCHANGED <<started, closed, socket, strand, sendVars, readVars, netVars, alive, history>>

\* Frames one behind the other, as SendPacket builds one and the outbox many.
Bytes(batch) ==
    LET upTo[i \in 0 .. Len(batch)] == IF i = 0 THEN <<>> ELSE upTo[i - 1] \o BuildFrame(batch[i])
    IN  upTo[Len(batch)]

\* What threads send are bytes.
ASSUME ScriptAssumption ==
    \A t \in Senders :
        /\ Script[t] \in Seq(Seq([id : Byte, payload : Seq(Byte)]))
        /\ \A i \in 1 .. Len(Script[t]) : Script[t][i] # <<>> => Bytes(Script[t][i]) \in Seq(Byte) \ {<<>>}

PostFrame(t) ==
    /\ building[t]
    /\ building' = [building EXCEPT ![t] = FALSE]
    /\ next' = [next EXCEPT ![t] = @ + 1]
    /\ Post(EndOf[t], Task("enqueue", Bytes(Batch(t))))
    /\ posted' = [posted EXCEPT ![EndOf[t]] = @ \o Batch(t)]
    /\ UNCHANGED <<started, closed, socket, sendVars, readVars, netVars, alive, received, reports, ours>>

Close(e) ==
    /\ e \in Closers
    /\ alive[e]
    /\ ~closed[e]
    /\ closed' = [closed EXCEPT ![e] = TRUE]
    /\ ours' = [ours EXCEPT ![e] = TRUE]
    /\ Post(e, Task("shutdown", <<>>))
    /\ UNCHANGED <<started, socket, sendVars, readVars, netVars, alive, threadVars, posted, received, reports>>

(***************************************************************************)
(* The strand.                                                             *)
(***************************************************************************)

\* The next task runs; the read handler is one task with all it extracts.
Run(e, do) ==
    /\ strand[e] # <<>>
    /\ Head(strand[e]).do = do
    /\ ~draining[e]
    /\ strand' = [strand EXCEPT ![e] = Tail(@)]

\* DoWrite, for the queue as it is after the step.
DoWrite(e, frame) ==
    /\ writing' = [writing EXCEPT ![e] = TRUE]
    /\ writes' = [writes EXCEPT ![e] = Append(@, frame)]

\* Mutant: a write is started for every frame.
RunEnqueueAlways(e) ==
    LET frame == Head(strand[e]).bytes
    IN  /\ Run(e, "enqueue")
        /\ sendQueue' = [sendQueue EXCEPT ![e] = Append(@, frame)]
        /\ pending' = [pending EXCEPT ![e] = @ + 1]
        /\ DoWrite(e, frame)
        /\ UNCHANGED <<started, closed, socket, readVars, netVars, alive, threadVars, history>>

RunEnqueue(e) ==
    LET frame == Head(strand[e]).bytes
    IN  /\ Run(e, "enqueue")
        /\ sendQueue' = [sendQueue EXCEPT ![e] = Append(@, frame)]
        /\ pending' = [pending EXCEPT ![e] = @ + 1]
        /\ IF writing[e] THEN UNCHANGED <<writing, writes>> ELSE DoWrite(e, Head(sendQueue'[e]))
        /\ UNCHANGED <<started, closed, socket, readVars, netVars, alive, threadVars, history>>

RunWritten(e) ==
    /\ Run(e, "written")
    /\ pending' = [pending EXCEPT ![e] = @ - 1]
    /\ sendQueue' = [sendQueue EXCEPT ![e] = Tail(@)]
    /\ IF sendQueue'[e] # <<>>
       THEN DoWrite(e, Head(sendQueue'[e]))
       ELSE writing' = [writing EXCEPT ![e] = FALSE] /\ writes' = writes
    /\ UNCHANGED <<started, closed, socket, readVars, netVars, alive, threadVars, history>>

\* What was on its way to a closed socket goes nowhere.
CloseSocket(e) ==
    /\ socket' = [socket EXCEPT ![e] = FALSE]
    /\ wire' = [wire EXCEPT ![PeerOf[e]] = <<>>]

\* Mutant: every error is reported.
ReportAlways(e) ==
    /\ closed' = [closed EXCEPT ![e] = TRUE]
    /\ CloseSocket(e)
    /\ reports' = [reports EXCEPT ![e] = @ + 1]

\* Only who closes first reports.
HandleClose(e) ==
    /\ closed' = [closed EXCEPT ![e] = TRUE]
    /\ CloseSocket(e)
    /\ reports' = [reports EXCEPT ![e] = IF closed[e] THEN @ ELSE @ + 1]

RunFailed(e) ==
    /\ Run(e, "writeFailed") \/ Run(e, "readFailed")
    /\ HandleClose(e)
    /\ UNCHANGED <<started, sendVars, readVars, broken, alive, threadVars, posted, received, ours>>

RunShutdown(e) ==
    /\ Run(e, "shutdown")
    /\ CloseSocket(e)
    /\ UNCHANGED <<started, closed, sendVars, readVars, broken, alive, threadVars, history>>

RunRead(e) ==
    /\ Run(e, "read")
    /\ buffer' = [buffer EXCEPT ![e] = AppendBytes(@, Head(strand[e]).bytes)]
    /\ draining' = [draining EXCEPT ![e] = TRUE]
    /\ UNCHANGED <<started, closed, socket, sendVars, reading, netVars, alive, threadVars, history>>

\* One turn of the loop, other threads running in between.
ExtractPacket(e) ==
    /\ draining[e]
    /\ Found(buffer[e]) = "packet"
    /\ received' = [received EXCEPT ![e] = Append(@, Extracted(buffer[e]))]
    /\ buffer' = [buffer EXCEPT ![e] = AfterExtract(@)]
    /\ UNCHANGED <<started, closed, socket, strand, sendVars, reading, draining, netVars, alive,
                   threadVars, posted, reports, ours>>

\* Mutant: the handler does not ask for more.
StopReading(e) ==
    /\ draining[e]
    /\ Found(buffer[e]) = "nothing"
    /\ draining' = [draining EXCEPT ![e] = FALSE]
    /\ UNCHANGED <<started, closed, socket, strand, sendVars, reading, buffer, netVars, alive,
                   threadVars, history>>

\* DoRead again.
ReadMore(e) ==
    /\ draining[e]
    /\ Found(buffer[e]) = "nothing"
    /\ draining' = [draining EXCEPT ![e] = FALSE]
    /\ reading' = [reading EXCEPT ![e] = TRUE]
    /\ UNCHANGED <<started, closed, socket, strand, sendVars, buffer, netVars, alive, threadVars, history>>

FramingError(e) ==
    /\ draining[e]
    /\ Found(buffer[e]) = "PacketTooLarge"
    /\ draining' = [draining EXCEPT ![e] = FALSE]
    /\ HandleClose(e)
    /\ UNCHANGED <<started, strand, sendVars, reading, buffer, broken, alive, threadVars,
                   posted, received, ours>>

\* Mutant: what was never sent stays counted.
DestroyUncounted(e) ==
    /\ alive[e] /\ started[e]
    /\ strand[e] = <<>> /\ ~draining[e] /\ ~reading[e] /\ writes[e] = <<>>
    /\ \A t \in Senders : EndOf[t] = e => ~building[t]
    /\ alive' = [alive EXCEPT ![e] = FALSE]
    /\ sendQueue' = [sendQueue EXCEPT ![e] = <<>>]
    /\ buffer' = [buffer EXCEPT ![e] = EmptyBuffer]
    /\ UNCHANGED <<started, closed, socket, strand, writing, writes, pending, reading, draining, netVars,
                   threadVars, history>>

\* ~Session: no operation, no posted task and no caller holds it any more.
Destroy(e) ==
    /\ alive[e] /\ started[e]
    /\ strand[e] = <<>> /\ ~draining[e] /\ ~reading[e] /\ writes[e] = <<>>
    /\ \A t \in Senders : EndOf[t] = e => ~building[t]
    /\ alive' = [alive EXCEPT ![e] = FALSE]
    /\ pending' = [pending EXCEPT ![e] = @ - Len(sendQueue[e])]
    /\ sendQueue' = [sendQueue EXCEPT ![e] = <<>>]
    /\ buffer' = [buffer EXCEPT ![e] = EmptyBuffer]
    /\ UNCHANGED <<started, closed, socket, strand, writing, writes, reading, draining, netVars,
                   threadVars, history>>

(***************************************************************************)
(* The system below: asio and TCP.                                         *)
(***************************************************************************)

Ended(e) == ~socket[e] \/ ~socket[PeerOf[e]] \/ broken

Without(seq, i) == SubSeq(seq, 1, i - 1) \o SubSeq(seq, i + 1, Len(seq))

\* The system takes some bytes of a write, and the write is done with the
\* last of them.
Transfer(e, i) ==
    /\ socket[e]
    /\ LET n == IF Len(writes[e][i]) > WriteSize THEN WriteSize ELSE Len(writes[e][i]) IN
        /\ wire' = IF socket[PeerOf[e]]
                   THEN [wire EXCEPT ![e] = @ \o SubSeq(writes[e][i], 1, n)]
                   ELSE wire
        /\ IF n = Len(writes[e][i])
           THEN /\ writes' = [writes EXCEPT ![e] = Without(@, i)]
                /\ Post(e, Task("written", <<>>))
           ELSE /\ writes' = [writes EXCEPT ![e][i] = SubSeq(@, n + 1, Len(@))]
                /\ strand' = strand
    /\ UNCHANGED <<started, closed, socket, sendQueue, writing, pending, readVars, broken, alive,
                   threadVars, history>>

WriteFails(e, i) ==
    /\ Ended(e)
    /\ writes' = [writes EXCEPT ![e] = Without(@, i)]
    /\ Post(e, Task("writeFailed", <<>>))
    /\ UNCHANGED <<started, closed, socket, sendQueue, writing, pending, readVars, netVars, alive,
                   threadVars, history>>

ReadSome(e) ==
    /\ reading[e] /\ socket[e]
    /\ \E n \in 1 .. ReadSize :
        /\ n <= Len(wire[PeerOf[e]])
        /\ wire' = [wire EXCEPT ![PeerOf[e]] = SubSeq(@, n + 1, Len(@))]
        /\ Post(e, Task("read", SubSeq(wire[PeerOf[e]], 1, n)))
    /\ reading' = [reading EXCEPT ![e] = FALSE]
    /\ UNCHANGED <<started, closed, socket, sendVars, draining, buffer, broken, alive, threadVars, history>>

\* End of stream, reset or abort; a reset may lose what was on its way.
ReadFails(e) ==
    /\ reading[e]
    /\ Ended(e)
    /\ reading' = [reading EXCEPT ![e] = FALSE]
    /\ Post(e, Task("readFailed", <<>>))
    /\ UNCHANGED <<started, closed, socket, sendVars, draining, buffer, netVars, alive, threadVars, history>>

Break ==
    /\ MayBreak
    /\ ~broken
    /\ broken' = TRUE
    /\ UNCHANGED <<started, closed, socket, strand, sendVars, readVars, wire, alive, threadVars, history>>

StrandStep(e) ==
    \/ RunEnqueue(e) \/ RunWritten(e) \/ RunFailed(e) \/ RunShutdown(e) \/ RunRead(e)
    \/ ExtractPacket(e) \/ ReadMore(e) \/ FramingError(e)

WriteStep(e) == \E i \in 1 .. Len(writes[e]) : Transfer(e, i) \/ WriteFails(e, i)

ReadStep(e) == ReadSome(e) \/ ReadFails(e)

Next ==
    \/ \E e \in Ends : Start(e) \/ Close(e) \/ Destroy(e) \/ StrandStep(e) \/ WriteStep(e) \/ ReadStep(e)
    \/ \E t \in Senders : Send(t) \/ PostFrame(t)
    \/ Break

Spec == Init /\ [][Next]_vars

\* Sessions are started, posted tasks are run and asio completes what it is
\* asked for.  Nobody has to send, to close or to lose the connection.
FairSpec ==
    /\ Spec
    /\ \A e \in Ends :
        /\ WF_vars(Start(e)) /\ WF_vars(StrandStep(e))
        /\ WF_vars(WriteStep(e)) /\ WF_vars(ReadStep(e))
    /\ \A t \in Senders : WF_vars(PostFrame(t))

-----------------------------------------------------------------------------
\* Session.h: one strand, one outstanding write.  Frames would mix if a
\* second write started before the first was done; the write that is under
\* way is always that of the first frame in the queue.
OneWrite ==
    \A e \in Ends :
        /\ Len(writes[e]) + Cardinality({i \in 1 .. Len(strand[e]) : strand[e][i].do = "written"}) <= 1
        /\ writes[e] # <<>> =>
               \E n \in 1 .. Len(Head(sendQueue[e])) :
                   writes[e][1] = SubSeq(Head(sendQueue[e]), n, Len(Head(sendQueue[e])))

\* HandleClose and Close decide by one exchange who reports: the owner hears
\* of the end at most once, and not at all if it asked for it.
ReportedOnce == \A e \in Ends : reports[e] + (IF ours[e] THEN 1 ELSE 0) <= 1

\* SendStats counts what waits in the queues: a session that dies with
\* frames unsent takes them off (Session.cpp:20-27).
PendingIsQueued == \A e \in Ends : pending[e] = Len(sendQueue[e])

\* However long the stream and wherever it is cut, the buffer stops growing.
BufferBounded ==
    \A e \in Ends : Capacity(buffer[e]) <= 4 * (HeaderSize + MaxBodySize + ReadSize) + ReadSize

\* A connection that is lost, or that the peer closed, is reported, unless
\* this side closed it (the read that is always outstanding sees to it).
LossIsReported ==
    \A e \in Ends : Ended(e) ~> reports[e] > 0 \/ ours[e]
=============================================================================
