---------------------------- MODULE StrandLaneSet ----------------------------
(***************************************************************************)
(* Lanes as asio strands (StrandLaneSet): as many threads as lanes, none   *)
(* tied to a lane.  The threads of a producer leave io_context::run when   *)
(* the work guard is gone and no lane of theirs has any work left; then    *)
(* the strands are destroyed.  asio (strand, run) is external.             *)
(***************************************************************************)
EXTENDS LaneFlows

VARIABLES
    queue,      \* per lane: handlers waiting in the strand
    current,    \* per lane: the message in its handler
    pushed,     \* per lane: how many pushes the handler has done
    stopped,    \* producers whose work guard is gone
    ended,      \* producers whose threads have been joined
    cleared,    \* producers whose strands have been destroyed
    stray,      \* history: messages posted to a producer that had ended
    done,       \* history: messages handled
    ahead,      \* history: per message, those of its owner posted before it
    crashed     \* posting to a destroyed strand brought the process down

vars == <<queue, current, pushed, stopped, ended, cleared, stray, done, ahead, crashed>>

Running == {current[k] : k \in Lanes} \ {NoMsg}
Waiting == UNION {{queue[k][i] : i \in 1 .. Len(queue[k])} : k \in Lanes}
Posted == Waiting \cup Running \cup done

Init ==
    /\ queue = [k \in Lanes |-> <<>>]
    /\ current = [k \in Lanes |-> NoMsg]
    /\ pushed = [k \in Lanes |-> 0]
    /\ stopped = {} /\ ended = {} /\ cleared = {} /\ stray = {} /\ done = {}
    /\ ahead = [m \in Msgs |-> {}]
    /\ crashed = FALSE

\* asio::post on a strand, which may have ended or be gone.  A destroyed
\* strand is undefined behaviour: the process dies or the message is lost.
Post(m) ==
    LET p == ProducerOf[LaneFor(m)]
        lose == p \in cleared
    IN  /\ crashed' \in (IF lose THEN {TRUE, FALSE} ELSE {FALSE})
        /\ stray' = IF p \in ended THEN stray \cup {m} ELSE stray
        /\ queue' = IF lose THEN queue ELSE [queue EXCEPT ![LaneFor(m)] = Append(@, m)]
        /\ ahead' = IF lose THEN ahead
                    ELSE [ahead EXCEPT ![m] = {n \in Posted : OwnerOf[n] = OwnerOf[m]}]

PostExternal(m) ==
    /\ m \in External \ Posted
    /\ stopped = {}
    /\ Post(m)
    /\ UNCHANGED <<current, pushed, stopped, ended, cleared, done>>

PostFromHandler(k) ==
    /\ current[k] # NoMsg /\ pushed[k] < Len(Pushes[current[k]])
    /\ Post(Pushes[current[k]][pushed[k] + 1])
    /\ pushed' = [pushed EXCEPT ![k] = @ + 1]
    /\ UNCHANGED <<current, stopped, ended, cleared, done>>

\* A thread of the producer takes the next handler of a strand that is not
\* running.  There are as many threads as lanes: one is always free.
StrandIsFree(k) == current[k] = NoMsg

Take(k) ==
    /\ queue[k] # <<>> /\ StrandIsFree(k)
    /\ ProducerOf[k] \notin ended
    /\ current' = [current EXCEPT ![k] = Head(queue[k])]
    /\ queue' = [queue EXCEPT ![k] = Tail(@)]
    /\ UNCHANGED <<pushed, stopped, ended, cleared, stray, done, ahead, crashed>>

Return(k) ==
    /\ current[k] # NoMsg /\ pushed[k] = Len(Pushes[current[k]])
    /\ done' = done \cup {current[k]}
    /\ current' = [current EXCEPT ![k] = NoMsg]
    /\ pushed' = [pushed EXCEPT ![k] = 0]
    /\ UNCHANGED <<queue, stopped, ended, cleared, stray, ahead, crashed>>

\* workGuard_.reset() of the next producer.
StopProducer(p) ==
    /\ p \in Producers \ stopped
    /\ \A q \in Producers : q < p => q \in cleared
    /\ stopped' = stopped \cup {p}
    /\ UNCHANGED <<queue, current, pushed, ended, cleared, stray, done, ahead, crashed>>

\* Mutant: ioContext_.stop(), which drops what is waiting.
NothingRuns(p) == \A k \in Lanes : ProducerOf[k] = p => current[k] = NoMsg
OutOfWork(p) ==
    \A k \in Lanes : ProducerOf[k] = p => current[k] = NoMsg /\ queue[k] = <<>>

\* run() returns in every thread; all are joined.
End(p) ==
    /\ p \in stopped \ ended
    /\ OutOfWork(p)
    /\ ended' = ended \cup {p}
    /\ UNCHANGED <<queue, current, pushed, stopped, cleared, stray, done, ahead, crashed>>

\* lanes_.clear()
Clear(p) ==
    /\ p \in ended \ cleared
    /\ cleared' = cleared \cup {p}
    /\ UNCHANGED <<queue, current, pushed, stopped, ended, stray, done, ahead, crashed>>

LaneStep(k) == ~crashed /\ (PostFromHandler(k) \/ Take(k) \/ Return(k))
StopStep == ~crashed /\ \E p \in Producers : StopProducer(p) \/ End(p) \/ Clear(p)

Next ==
    \/ ~crashed /\ \E m \in Msgs : PostExternal(m)
    \/ \E k \in Lanes : LaneStep(k)
    \/ StopStep

Spec == Init /\ [][Next]_vars

(***************************************************************************)
(* Properties.                                                             *)
(***************************************************************************)

\* ILaneSet.h:9-10: work is stolen between threads, and yet the messages of an
\* owner are handled in the order they were posted, one at a time.
Abstract == INSTANCE OwnerOrder WITH waiting <- Waiting, running <- Running
OwnersInOrder == Abstract!Spec

\* A stop drains what the producer itself pushes, across its lanes: a message
\* is lost only if its sender runs on a producer that is stopped later.
OnlyBackwardLost ==
    \A p \in ended : \A m \in Msgs :
        m \in Waiting \cup stray /\ ProducerOf[LaneFor(m)] = p =>
            m \notin External /\ ProducerOf[LaneFor(SenderOf(m))] > p
=============================================================================
