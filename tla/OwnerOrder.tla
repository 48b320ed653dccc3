------------------------------ MODULE OwnerOrder ------------------------------
(***************************************************************************)
(* What the lanes promise (MessageProcessor::OnMessage): the messages of   *)
(* one owner are handled in the order they were posted and never at the    *)
(* same time.  Nothing is said about messages of different owners, nor     *)
(* that a message is handled at all.                                       *)
(***************************************************************************)
CONSTANTS
    Msgs,
    Owners,
    OwnerOf     \* the owner of a message

VARIABLES
    waiting,    \* posted, not begun
    running,    \* in its handler
    done,       \* handled
    ahead       \* per message: the messages of its owner posted before it

vars == <<waiting, running, done, ahead>>

Init ==
    /\ waiting = {} /\ running = {} /\ done = {}
    /\ ahead = [m \in Msgs |-> {}]

Post(m) ==
    /\ m \notin waiting \cup running \cup done
    /\ waiting' = waiting \cup {m}
    /\ ahead' = [ahead EXCEPT ![m] =
                    {n \in waiting \cup running \cup done : OwnerOf[n] = OwnerOf[m]}]
    /\ UNCHANGED <<running, done>>

Begin(m) ==
    /\ m \in waiting /\ ahead[m] \subseteq done
    /\ waiting' = waiting \ {m}
    /\ running' = running \cup {m}
    /\ UNCHANGED <<done, ahead>>

End(m) ==
    /\ m \in running
    /\ running' = running \ {m}
    /\ done' = done \cup {m}
    /\ UNCHANGED <<waiting, ahead>>

Next == \E m \in Msgs : Post(m) \/ Begin(m) \/ End(m)

Spec == Init /\ [][Next]_vars
=============================================================================
