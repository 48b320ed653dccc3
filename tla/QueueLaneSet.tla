----------------------------- MODULE QueueLaneSet -----------------------------
(***************************************************************************)
(* Lanes with one thread, one queue, a mutex and a condition variable each *)
(* (QueueLaneSet), the producers they belong to and the order in which     *)
(* ProducerHolder stops these.  A handler pushes further messages; that is *)
(* all that is modelled of it.  Whatever is posted from outside comes      *)
(* before the stop: the app joins its network and timers first.            *)
(***************************************************************************)
EXTENDS LaneFlows

VARIABLES
    queue,      \* per lane: its queue
    consumer,   \* per lane: "awake", "asleep", "handling" or "gone"
    current,    \* per lane: the message in its handler
    pushed,     \* per lane: how many pushes the handler has done
    unnotified, \* messages pushed whose notify_one is still to come
    stopping,   \* lanes whose flag is set
    unwoken,    \* lanes whose flag is set and whose notify_all is still to come
    stopped,    \* the producers Stop has been called on
    done,       \* history: messages handled
    ahead       \* history: per message, those of its owner posted before it

vars == <<queue, consumer, current, pushed, unnotified, stopping, unwoken, stopped, done, ahead>>

Running == {current[k] : k \in Lanes} \ {NoMsg}
Waiting == UNION {{queue[k][i] : i \in 1 .. Len(queue[k])} : k \in Lanes}
Posted == Waiting \cup Running \cup done

Init ==
    /\ queue = [k \in Lanes |-> <<>>]
    /\ consumer = [k \in Lanes |-> "awake"]
    /\ current = [k \in Lanes |-> NoMsg]
    /\ pushed = [k \in Lanes |-> 0]
    /\ unnotified = {} /\ stopping = {} /\ unwoken = {} /\ stopped = {}
    /\ done = {}
    /\ ahead = [m \in Msgs |-> {}]

\* Mutant: push_front.
AppendedInFront(q, m) == <<m>> \o q
Appended(q, m) == Append(q, m)

\* Post's critical section; the notify comes after it.
Enqueue(m) ==
    /\ queue' = [queue EXCEPT ![LaneFor(m)] = Appended(@, m)]
    /\ unnotified' = unnotified \cup {m}
    /\ ahead' = [ahead EXCEPT ![m] = {n \in Posted : OwnerOf[n] = OwnerOf[m]}]

\* A network thread, before the app stops.
PostExternal(m) ==
    /\ m \in External \ Posted
    /\ stopped = {}
    /\ Enqueue(m)
    /\ UNCHANGED <<consumer, current, pushed, stopping, unwoken, stopped, done>>

\* The handler on lane k has sent the notify of its last push.
HandlerGoesOn(k) ==
    /\ consumer[k] = "handling"
    /\ \A i \in 1 .. Len(Pushes[current[k]]) : Pushes[current[k]][i] \notin unnotified

PostFromHandler(k) ==
    /\ HandlerGoesOn(k) /\ pushed[k] < Len(Pushes[current[k]])
    /\ Enqueue(Pushes[current[k]][pushed[k] + 1])
    /\ pushed' = [pushed EXCEPT ![k] = @ + 1]
    /\ UNCHANGED <<consumer, current, stopping, unwoken, stopped, done>>

Wake(k) == consumer' = [consumer EXCEPT ![k] = IF @ = "asleep" THEN "awake" ELSE @]

NotifyOne(m) ==
    /\ m \in unnotified
    /\ unnotified' = unnotified \ {m}
    /\ Wake(LaneFor(m))
    /\ UNCHANGED <<queue, current, pushed, stopping, unwoken, stopped, done, ahead>>

\* Run: the predicate of the wait and what follows, with the mutex held.
\* Mutants: the wait ignores the flag; the flag is looked at before the queue.
MayWakeForQueue(k) == queue[k] # <<>>
MayWake(k) == queue[k] # <<>> \/ k \in stopping

ExitsAtOnce(k) == k \in stopping
Exits(k) == queue[k] = <<>>

Sleep(k) ==
    /\ consumer[k] = "awake" /\ ~MayWake(k)
    /\ consumer' = [consumer EXCEPT ![k] = "asleep"]
    /\ UNCHANGED <<queue, current, pushed, unnotified, stopping, unwoken, stopped, done, ahead>>

Leave(k) ==
    /\ consumer[k] = "awake" /\ MayWake(k) /\ Exits(k)
    /\ consumer' = [consumer EXCEPT ![k] = "gone"]
    /\ UNCHANGED <<queue, current, pushed, unnotified, stopping, unwoken, stopped, done, ahead>>

Take(k) ==
    /\ consumer[k] = "awake" /\ MayWake(k) /\ ~Exits(k)
    /\ consumer' = [consumer EXCEPT ![k] = "handling"]
    /\ current' = [current EXCEPT ![k] = Head(queue[k])]
    /\ queue' = [queue EXCEPT ![k] = Tail(@)]
    /\ UNCHANGED <<pushed, unnotified, stopping, unwoken, stopped, done, ahead>>

\* OnMessage returns.
Return(k) ==
    /\ HandlerGoesOn(k) /\ pushed[k] = Len(Pushes[current[k]])
    /\ consumer' = [consumer EXCEPT ![k] = "awake"]
    /\ current' = [current EXCEPT ![k] = NoMsg]
    /\ done' = done \cup {current[k]}
    /\ pushed' = [pushed EXCEPT ![k] = 0]
    /\ UNCHANGED <<queue, unnotified, stopping, unwoken, stopped, ahead>>

\* ProducerHolder::Stop, after the network has been joined: the producers in
\* their order, each joined before the next is stopped.
Joined(p) == \A k \in Lanes : ProducerOf[k] = p => consumer[k] = "gone"

StopProducer(p) ==
    /\ p \in Producers \ stopped
    /\ unnotified \cap External = {}
    /\ \A q \in Producers : q < p => q \in stopped /\ Joined(q)
    /\ stopped' = stopped \cup {p}
    /\ UNCHANGED <<queue, consumer, current, pushed, unnotified, stopping, unwoken, done, ahead>>

\* QueueLaneSet::Stop: sets the flags and notifies, lane by lane.
FlagLane(k) ==
    /\ k \notin stopping /\ ProducerOf[k] \in stopped
    /\ unwoken = {}
    /\ \A j \in Lanes : ProducerOf[j] = ProducerOf[k] /\ j < k => j \in stopping
    /\ stopping' = stopping \cup {k}
    /\ unwoken' = {k}
    /\ UNCHANGED <<queue, consumer, current, pushed, unnotified, stopped, done, ahead>>

NotifyAll(k) ==
    /\ k \in unwoken
    /\ unwoken' = {}
    /\ Wake(k)
    /\ UNCHANGED <<queue, current, pushed, unnotified, stopping, stopped, done, ahead>>

ConsumerStep(k) ==
    PostFromHandler(k) \/ Sleep(k) \/ Leave(k) \/ Take(k) \/ Return(k)

StopStep ==
    \/ \E k \in Lanes : FlagLane(k) \/ NotifyAll(k)
    \/ \E p \in Producers : StopProducer(p)

Next ==
    \/ \E m \in Msgs : PostExternal(m) \/ NotifyOne(m)
    \/ \E k \in Lanes : ConsumerStep(k)
    \/ StopStep

Spec == Init /\ [][Next]_vars

(***************************************************************************)
(* Properties.                                                             *)
(***************************************************************************)

\* Every variable has its type; a thread has a message in hand exactly while
\* it is in a handler.
TypeOK ==
    /\ queue \in [Lanes -> Seq(Msgs)]
    /\ consumer \in [Lanes -> {"awake", "asleep", "handling", "gone"}]
    /\ current \in [Lanes -> Msgs \cup {NoMsg}]
    /\ \A k \in Lanes : consumer[k] = "handling" <=> current[k] # NoMsg
    /\ pushed \in [Lanes -> Nat]
    /\ unnotified \in SUBSET Msgs
    /\ stopping \in SUBSET Lanes /\ unwoken \in SUBSET Lanes
    /\ stopped \in SUBSET Producers
    /\ done \in SUBSET Msgs
    /\ ahead \in [Msgs -> SUBSET Msgs]

\* MessageProcessor.h:16-17: messages of one owner are handled in the order
\* they were posted, one at a time.
Abstract == INSTANCE OwnerOrder WITH waiting <- Waiting, running <- Running
OwnersInOrder == Abstract!Spec

\* A stop drains: a message stays behind only if its sender runs on the same
\* producer or on one that is stopped later.
OnlyBackwardLost ==
    \A k \in Lanes : consumer[k] = "gone" =>
        \A i \in 1 .. Len(queue[k]) :
            /\ queue[k][i] \notin External
            /\ ProducerOf[LaneFor(SenderOf(queue[k][i]))] >= ProducerOf[k]
=============================================================================
