------------------------------ MODULE ZoneUnits ------------------------------
(***************************************************************************)
(* What the units of one zone are kept in (the members of UnitContainer    *)
(* and the locals of those who call it), and what it promises of them: the *)
(* raw pointers of the tick are backed and the two maps agree.             *)
(***************************************************************************)
CONSTANTS
    Ids,        \* unit ids
    Objs,       \* the unit objects that are ever constructed
    UnitIdOf,   \* Unit::GetUnitId, const for the lifetime of an object
    Null        \* nullptr

ASSUME UnitContainerAssumption ==
    /\ UnitIdOf \in [Objs -> Ids]
    /\ Null \notin Objs

VARIABLES
    units,      \* units_: id -> shared_ptr
    players,    \* players_: id -> shared_ptr
    readying,   \* readyingUnits_: objects waiting to be enlisted
    removing,   \* removingUnits_: objects waiting to be retired
    readied,    \* readiedUnits_: RAW pointers, touched by TICK only
    used,       \* objects constructed so far
    pc,         \* per id: how far its BASIC lane is in the current handler
    hold,       \* per id: the shared_ptr local of that handler
    tpc,        \* where the TICK lane is
    toVisit,    \* objects the parallel for_each has not ticked yet
    retired,    \* OnEndTick's local `removing`
    enlisted,   \* OnEndTick's local `readying`
    pin,        \* the shared_ptr FindPlayer returned to the TICK lane
    doubled     \* history: retired while still waiting to be enlisted

\* Some shared_ptr still holds o.
Alive(o) ==
    \/ \E id \in Ids : o \in {units[id], players[id], hold[id]}
    \/ o \in readying \cup removing \cup retired \cup enlisted
    \/ o = pin

\* What deferred destruction does guarantee: a raw pointer in the snapshot,
\* or still to be dereferenced by the running tick, names a live object,
\* whatever enters and leaves meanwhile, except for an object whose removal
\* was confirmed before its enlisting was (OnEndTick takes removingUnits_
\* first).
SnapshotOwned == \A o \in readied \cup toVisit : Alive(o) \/ o \in doubled

\* players_ and units_ point to the same object for every id, except inside
\* the window in which that id's own lane is between the two locks; so no
\* other lane finds a player that nobody owns any more (UnitContainer.h:69).
IndexAgrees ==
    \A id \in Ids :
        /\ pc[id] \in {"idle", "add_readying", "remove_queue", "return"} => players[id] = units[id]
        /\ players[id] # Null => players[id] \in {units[id], hold[id]}
=============================================================================
