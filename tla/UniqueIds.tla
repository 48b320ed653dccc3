------------------------------ MODULE UniqueIds ------------------------------
(***************************************************************************)
(* The ids of the system (RUID.h, RUID.cpp): milliseconds, node and        *)
(* sequence in one number, issued without a lock by the threads of every   *)
(* process.  The clock belongs to the machine: it may stand still, leap    *)
(* ahead or go back, and what a process knows of the ids it issued         *)
(* (lastStamp_) dies with it.                                              *)
(***************************************************************************)
EXTENDS Integers, Sequences

CONSTANTS
    World,          \* the World server, the other processes are zone servers
    Processes,
    ServedBy,       \* the zones a zone server serves
    Threads,
    ProcessOf,      \* the process of a thread
    WorldBegin,     \* kNodeIdWorldBegin
    ZoneBegin,      \* kNodeIdZoneBegin
    NodeMask,       \* kNodeMask
    SequenceMask,   \* kSequenceMask
    TimestampMask,  \* kTimestampMask
    MaxClock,       \* bound: highest clock reading, past TimestampMask if a run needs it
    MaxIds,         \* bound: ids each process issues
    MaxLives        \* bound: times each process is started

NodeIdReserved == 0

\* The least zone of a zone server tells its number (ZoneServer main.cpp).
Least(zones) == CHOOSE z \in zones : \A y \in zones : z <= y

\* Mutant: Zone servers are numbered by their zone alone.
NodeOfZoneOnly(p) == IF p = World THEN WorldBegin ELSE Least(ServedBy[p])

NodeOf(p) == IF p = World THEN WorldBegin ELSE ZoneBegin + Least(ServedBy[p])

\* No zone is served twice, zone ids start at 1 and the World numbers end
\* where the zone numbers begin.
ASSUME UniqueIdsAssumption ==
    /\ World \in Processes
    /\ ProcessOf \in [Threads -> Processes]
    /\ \A p \in Processes \ {World} :
        /\ ServedBy[p] \subseteq Nat \ {0}
        /\ Least(ServedBy[p]) \in ServedBy[p]
    /\ \A p, q \in Processes \ {World} : p # q => ServedBy[p] \cap ServedBy[q] = {}
    /\ WorldBegin \in Nat \ {0} /\ ZoneBegin \in Nat /\ WorldBegin <= ZoneBegin
    /\ NodeMask \in Nat /\ SequenceMask \in Nat /\ TimestampMask \in Nat
    /\ MaxClock \in Nat /\ MaxIds \in [Processes -> Nat] /\ MaxLives \in [Processes -> Nat]

VARIABLES
    clock,      \* per process: ElapsedMsSinceEpoch
    node,       \* nodeId_; NodeIdReserved while the process is down
    last,       \* lastStamp_: both halves of the word
    pc,         \* per thread: where it is in Next
    observed,   \* per thread: the stamp it loaded
    desired,    \* per thread: the stamp it wants to store; None when unused, as observed
    ids,        \* history: per process, the stamps of the ids it issued, in order
    lives,      \* history: per process, times it was started
    floor,      \* history: per process, the last time stamped by an earlier life
    behind      \* history: the process read a clock that was not past its floor

vars == <<clock, node, last, pc, observed, desired, ids, lives, floor, behind>>

Stamp(ms, sequence) == [ms |-> ms, sequence |-> sequence]

None == Stamp(0, 0)

Stamps == [ms : 0 .. TimestampMask, sequence : 0 .. SequenceMask]

\* The number itself: (ms << 22) | (node << 12) | sequence.
Assemble(stamp, n) ==
    (stamp.ms * (NodeMask + 1) + n) * (SequenceMask + 1) + stamp.sequence

Id(p, i) == Assemble(ids[p][i], NodeOf(p))

Init ==
    /\ clock \in [Processes -> 0 .. MaxClock]
    /\ node = [p \in Processes |-> NodeIdReserved]
    /\ last = [p \in Processes |-> None]
    /\ pc = [t \in Threads |-> "out"]
    /\ observed = [t \in Threads |-> None]
    /\ desired = [t \in Threads |-> None]
    /\ ids = [p \in Processes |-> <<>>]
    /\ lives = [p \in Processes |-> 0]
    /\ floor = [p \in Processes |-> -1]
    /\ behind = [p \in Processes |-> FALSE]

Up(p) == node[p] # NodeIdReserved

\* Ruid::Init, once at the start; a number that does not fit aborts.
InitRuid(p) ==
    /\ ~Up(p)
    /\ lives[p] < MaxLives[p]
    /\ NodeOf(p) # NodeIdReserved
    /\ NodeOf(p) <= NodeMask
    /\ node' = [node EXCEPT ![p] = NodeOf(p)]
    /\ last' = [last EXCEPT ![p] = None]
    /\ lives' = [lives EXCEPT ![p] = @ + 1]
    /\ floor' = [floor EXCEPT ![p] = IF ids[p] = <<>> THEN -1 ELSE ids[p][Len(ids[p])].ms]
    /\ UNCHANGED <<clock, pc, observed, desired, ids, behind>>

\* The process ends: killed, crashed, or by abort() in Next.
Down(p) ==
    /\ node' = [node EXCEPT ![p] = NodeIdReserved]
    /\ last' = [last EXCEPT ![p] = None]
    /\ pc' = [t \in Threads |-> IF ProcessOf[t] = p THEN "out" ELSE pc[t]]
    /\ observed' = [t \in Threads |-> IF ProcessOf[t] = p THEN None ELSE observed[t]]
    /\ desired' = [t \in Threads |-> IF ProcessOf[t] = p THEN None ELSE desired[t]]
    /\ UNCHANGED <<clock, ids, lives, floor, behind>>

Crash(p) == Up(p) /\ Down(p)

\* Ruid::Create.
Create(t) ==
    /\ pc[t] = "out"
    /\ Up(ProcessOf[t])
    /\ Len(ids[ProcessOf[t]]) < MaxIds[ProcessOf[t]]
    /\ pc' = [pc EXCEPT ![t] = "load"]
    /\ UNCHANGED <<clock, node, last, observed, desired, ids, lives, floor, behind>>

\* The top of the loop of Next.
Load(t) ==
    /\ pc[t] = "load"
    /\ observed' = [observed EXCEPT ![t] = last[ProcessOf[t]]]
    /\ pc' = [pc EXCEPT ![t] = "read"]
    /\ UNCHANGED <<clock, node, last, desired, ids, lives, floor, behind>>

\* Mutant: The last stamp is no floor: a clock that went back is taken as it is.
NextStampBack(seen, elapsed) ==
    IF elapsed = seen.ms THEN Stamp(seen.ms, seen.sequence + 1) ELSE Stamp(elapsed, 0)

\* What Next wants to store, given what it loaded and the clock it read: a
\* clock that is not past the last stamp only raises the sequence.
NextStamp(seen, elapsed) ==
    IF elapsed <= seen.ms THEN Stamp(seen.ms, seen.sequence + 1) ELSE Stamp(elapsed, 0)

InRange(elapsed) == elapsed >= 0 /\ elapsed <= TimestampMask

\* The clock cannot be represented: abort().
Abort(t) ==
    /\ pc[t] = "read"
    /\ ~InRange(clock[ProcessOf[t]])
    /\ Down(ProcessOf[t])

\* Mutant: The last sequence number is never found exhausted.
ReadClockUnbounded(t) ==
    LET p == ProcessOf[t]
    IN  /\ pc[t] = "read"
        /\ InRange(clock[p])
        /\ pc' = [pc EXCEPT ![t] = "swap"]
        /\ desired' = [desired EXCEPT ![t] = NextStamp(observed[t], clock[p])]
        /\ behind' = [behind EXCEPT ![p] = @ \/ clock[p] <= floor[p]]
        /\ UNCHANGED <<clock, node, last, observed, ids, lives, floor>>
ReadClock(t) ==
    LET p == ProcessOf[t]
        stamp == NextStamp(observed[t], clock[p])
    IN  /\ pc[t] = "read"
        /\ InRange(clock[p])
        /\ IF stamp.sequence > SequenceMask
           THEN pc' = [pc EXCEPT ![t] = "load"] /\ desired' = desired
           ELSE pc' = [pc EXCEPT ![t] = "swap"] /\ desired' = [desired EXCEPT ![t] = stamp]
        /\ behind' = [behind EXCEPT ![p] = @ \/ clock[p] <= floor[p]]
        /\ UNCHANGED <<clock, node, last, observed, ids, lives, floor>>

\* Mutant: the stamp is stored whatever another thread stored meanwhile.
SwapUnchecked(t) ==
    LET p == ProcessOf[t]
    IN  /\ pc[t] = "swap"
        /\ last' = [last EXCEPT ![p] = desired[t]]
        /\ ids' = [ids EXCEPT ![p] = Append(@, desired[t])]
        /\ pc' = [pc EXCEPT ![t] = "out"]
        /\ observed' = [observed EXCEPT ![t] = None]
        /\ desired' = [desired EXCEPT ![t] = None]
        /\ UNCHANGED <<clock, node, lives, floor, behind>>

\* compare_exchange_weak stores, and the id is what was stored.
Swap(t) ==
    LET p == ProcessOf[t]
    IN  /\ pc[t] = "swap"
        /\ last[p] = observed[t]
        /\ last' = [last EXCEPT ![p] = desired[t]]
        /\ ids' = [ids EXCEPT ![p] = Append(@, desired[t])]
        /\ pc' = [pc EXCEPT ![t] = "out"]
        /\ observed' = [observed EXCEPT ![t] = None]
        /\ desired' = [desired EXCEPT ![t] = None]
        /\ UNCHANGED <<clock, node, lives, floor, behind>>

\* It fails if another thread stored first, and it may fail for no reason.
SwapFails(t) ==
    /\ pc[t] = "swap"
    /\ pc' = [pc EXCEPT ![t] = "load"]
    /\ observed' = [observed EXCEPT ![t] = None]
    /\ desired' = [desired EXCEPT ![t] = None]
    /\ UNCHANGED <<clock, node, last, ids, lives, floor, behind>>

\* Time passes, or the clock is set: forwards, back, before the epoch.
SetClock(p) ==
    /\ \E now \in -1 .. MaxClock : clock' = [clock EXCEPT ![p] = now]
    /\ UNCHANGED <<node, last, pc, observed, desired, ids, lives, floor, behind>>

Next ==
    \/ \E p \in Processes : InitRuid(p) \/ Crash(p) \/ SetClock(p)
    \/ \E t \in Threads : Create(t) \/ Load(t) \/ Abort(t) \/ ReadClock(t) \/ Swap(t) \/ SwapFails(t)

Spec == Init /\ [][Next]_vars

-----------------------------------------------------------------------------
\* Every stamp that is stored or handed out fits the bits it is given, so
\* that no half of the word spills into the other.
TypeOK ==
    /\ clock \in [Processes -> -1 .. MaxClock]
    /\ node \in [Processes -> 0 .. NodeMask]
    /\ \A p \in Processes : Up(p) => node[p] = NodeOf(p)
    /\ last \in [Processes -> Stamps]
    /\ pc \in [Threads -> {"out", "load", "read", "swap"}]
    /\ \A t \in Threads : pc[t] # "out" => Up(ProcessOf[t])
    /\ observed \in [Threads -> Stamps]
    /\ desired \in [Threads -> Stamps]
    /\ ids \in [Processes -> Seq(Stamps)]
    /\ lives \in [Processes -> Nat]
    /\ floor \in [Processes -> -1 .. TimestampMask]
    /\ behind \in [Processes -> BOOLEAN]

\* RUID.h promises ids that no other process issues and that order by time.
\* The ids of a process grow in the order they are stored, whatever its
\* threads and its clock do and however often it is restarted, unless a new
\* life read a clock that was not past what an earlier life had stamped:
\* Next holds the clock back only as far as lastStamp_ remembers.
IdsIncrease ==
    \A p \in Processes : ~behind[p] =>
        \A i, j \in 1 .. Len(ids[p]) : i < j => Id(p, i) < Id(p, j)

\* Two processes never issue the same id, even at the same millisecond and
\* with the clocks going back (the number ranges of RUID.h).
NodesNeverMeet ==
    \A p, q \in Processes : p # q =>
        \A i \in 1 .. Len(ids[p]), j \in 1 .. Len(ids[q]) : Id(p, i) # Id(q, j)

=============================================================================
