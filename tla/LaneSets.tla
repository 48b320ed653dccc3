------------------------------- MODULE LaneSets -------------------------------
(***************************************************************************)
(* MessageProducer::MakeLaneSet: the configuration decides which lane set  *)
(* the producers of a process use.  What callers are promised is the same. *)
(***************************************************************************)
EXTENDS LaneFlows

VARIABLES
    backend,                                            \* lane_backend
    queue, current, pushed, stopped, done, ahead,         \* both
    consumer, unnotified, stopping, unwoken,            \* QueueLaneSet
    ended, cleared, stray, crashed                      \* StrandLaneSet

shared == <<queue, current, pushed, stopped, done, ahead>>
queueOnly == <<consumer, unnotified, stopping, unwoken>>
strandOnly == <<ended, cleared, stray, crashed>>
vars == <<backend, shared, queueOnly, strandOnly>>

Queue == INSTANCE QueueLaneSet
Strand == INSTANCE StrandLaneSet

Init ==
    /\ backend \in {"queue", "strand"}
    /\ Queue!Init /\ Strand!Init

OnQueue(A) == backend = "queue" /\ A /\ UNCHANGED <<backend, strandOnly>>
OnStrand(A) == backend = "strand" /\ A /\ UNCHANGED <<backend, queueOnly>>

LaneStep(k) == OnQueue(Queue!ConsumerStep(k)) \/ OnStrand(Strand!LaneStep(k))
NotifyOne == OnQueue(\E m \in Msgs : Queue!NotifyOne(m))
StopStep == OnQueue(Queue!StopStep) \/ OnStrand(Strand!StopStep)

Next == OnQueue(Queue!Next) \/ OnStrand(Strand!Next)

Spec == Init /\ [][Next]_vars

\* Threads run and handlers return; a stop that has begun goes on.
FairSpec ==
    /\ Spec
    /\ \A k \in Lanes : WF_vars(LaneStep(k))
    /\ WF_vars(NotifyOne)
    /\ WF_vars(stopped # {} /\ StopStep)

(***************************************************************************)
(* Properties.                                                             *)
(***************************************************************************)

\* MessageProcessor.h:16-17: the messages of one owner are handled in the
\* order they were posted, one at a time, on either backend.
OwnersInOrder == Queue!OwnersInOrder

\* A stop loses nothing that is sent forward.
OnlyBackwardLost == Queue!OnlyBackwardLost /\ Strand!OnlyBackwardLost

HasStopped(p) ==
    p \in stopped /\ (backend = "queue" => Queue!Joined(p)) /\ (backend = "strand" => p \in ended)

\* No thread sleeps through a push: a message that waits is handled, unless
\* the threads of its lane had gone when another lane sent it.
WaitingIsHandled ==
    \A m \in Msgs :
        m \in Queue!Waiting ~>
            \/ m \in done
            \/ HasStopped(ProducerOf[LaneFor(m)]) /\ m \notin External
            \/ crashed

\* A stop comes to its end.
StopEnds == stopped # {} ~> crashed \/ \A p \in Producers : HasStopped(p)
=============================================================================
