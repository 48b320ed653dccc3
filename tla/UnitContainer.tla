---------------------------- MODULE UnitContainer ----------------------------
(***************************************************************************)
(* The units of one zone (ZoneServer/Src/Unit/UnitContainer).              *)
(*                                                                         *)
(* Two kinds of lane work on it at the same time:                          *)
(*   BASIC  one lane per unit id: HandleEnterZone -> AddUnit and           *)
(*          HandleLeaveZone -> RemoveUnit, each a chain of short critical  *)
(*          sections on different mutexes;                                 *)
(*   TICK   one lane per zone: Tick walks a snapshot of raw pointers,      *)
(*          OnEndTick retires and enlists units, and the crossings that    *)
(*          the tick collected are then looked up with FindPlayer.         *)
(*                                                                         *)
(* An element of Objs is one C++ object (one make_shared<Player>); the     *)
(* shared_ptr's that keep it alive are the containers and locals that hold *)
(* it.  readiedUnits_ holds raw pointers, so it keeps nothing alive.  Two  *)
(* unit ids may share a BASIC lane in the program; here each id has its    *)
(* own, which only adds interleavings.  Player is the only subclass of     *)
(* Unit, so the IsPlayer() branches are always taken.                      *)
(*                                                                         *)
(* The members, the locals of the callers and what the container promises  *)
(* about them are in ZoneUnits; here are the operations.                   *)
(***************************************************************************)
EXTENDS Naturals, FiniteSets, ZoneUnits

basicVars == <<units, players, used, pc, hold>>
tickVars  == <<readied, tpc, toVisit, retired, enlisted, pin, doubled>>
vars == <<units, players, readying, removing, used, pc, hold, tickVars>>

Maybe == Objs \cup {Null}
BasicSteps == {"idle", "add_players", "add_readying",
               "remove_players", "remove_queue", "return"}
TickSteps == {"idle", "visit", "retire", "enlist", "release", "crossings"}

Init ==
    /\ units = [id \in Ids |-> Null]
    /\ players = [id \in Ids |-> Null]
    /\ readying = {}
    /\ removing = {}
    /\ readied = {}
    /\ used = {}
    /\ pc = [id \in Ids |-> "idle"]
    /\ hold = [id \in Ids |-> Null]
    /\ tpc = "idle"
    /\ toVisit = {}
    /\ retired = {}
    /\ enlisted = {}
    /\ pin = Null
    /\ doubled = {}

(***************************************************************************)
(* BASIC: entering.                                                        *)
(***************************************************************************)

FindPlayer(id) == players[id]

\* HandleEnterZone for an id the zone does not know: construct the player,
\* then AddUnit's first critical section.
AddToUnits(id, o) ==
    /\ pc[id] = "idle"
    /\ FindPlayer(id) = Null
    /\ o \notin used
    /\ UnitIdOf[o] = id
    /\ used' = used \cup {o}
    /\ hold' = [hold EXCEPT ![id] = o]
    /\ units' = [units EXCEPT ![id] = o]
    /\ pc' = [pc EXCEPT ![id] = "add_players"]
    /\ UNCHANGED <<players, readying, removing, tickVars>>

AddToPlayers(id) ==
    /\ pc[id] = "add_players"
    /\ players' = [players EXCEPT ![id] = hold[id]]
    /\ pc' = [pc EXCEPT ![id] = "add_readying"]
    /\ UNCHANGED <<units, readying, removing, used, hold, tickVars>>

AddToReadying(id) ==
    /\ pc[id] = "add_readying"
    /\ readying' = readying \cup {hold[id]}
    /\ pc' = [pc EXCEPT ![id] = "return"]
    /\ UNCHANGED <<units, players, removing, used, hold, tickVars>>

(***************************************************************************)
(* BASIC: leaving.                                                         *)
(***************************************************************************)

\* HandleLeaveZone looks the player up and returns when there is none;
\* RemoveUnit's first critical section erases the id from units_.
RemoveFromUnits(id) ==
    /\ pc[id] = "idle"
    /\ FindPlayer(id) # Null
    /\ units[id] # Null
    /\ hold' = [hold EXCEPT ![id] = units[id]]
    /\ units' = [units EXCEPT ![id] = Null]
    /\ pc' = [pc EXCEPT ![id] = "remove_players"]
    /\ UNCHANGED <<players, readying, removing, used, tickVars>>

\* Mutant: a departed player can still be found.
StillIndexed(id) == players
Unindexed(id) == [players EXCEPT ![id] = Null]

RemoveFromPlayers(id) ==
    /\ pc[id] = "remove_players"
    /\ players' = Unindexed(id)
    /\ pc' = [pc EXCEPT ![id] = "remove_queue"]
    /\ UNCHANGED <<units, readying, removing, used, hold, tickVars>>

\* Mutant: the unit is not kept for the tick.
DestroyedAtOnce(id) == removing
Queued(id) == removing \cup {hold[id]}

QueueForRemoval(id) ==
    /\ pc[id] = "remove_queue"
    /\ removing' = Queued(id)
    /\ pc' = [pc EXCEPT ![id] = "return"]
    /\ UNCHANGED <<units, players, readying, used, hold, tickVars>>

\* The handler returns and its shared_ptr local goes out of scope.
ReturnFromHandler(id) ==
    /\ pc[id] = "return"
    /\ hold' = [hold EXCEPT ![id] = Null]
    /\ pc' = [pc EXCEPT ![id] = "idle"]
    /\ UNCHANGED <<units, players, readying, removing, used, tickVars>>

(***************************************************************************)
(* TICK.                                                                   *)
(***************************************************************************)

\* Zone::Tick enters UnitContainer::Tick.
BeginTick ==
    /\ tpc = "idle"
    /\ toVisit' = readied
    /\ tpc' = "visit"
    /\ UNCHANGED <<basicVars, readying, removing, readied, retired, enlisted, pin, doubled>>

\* The parallel for_each dereferences one raw pointer.
VisitUnit(o) ==
    /\ tpc = "visit"
    /\ o \in toVisit
    /\ toVisit' = toVisit \ {o}
    /\ UNCHANGED <<basicVars, readying, removing, readied, tpc, retired, enlisted, pin, doubled>>

EndVisits ==
    /\ tpc = "visit"
    /\ toVisit = {}
    /\ tpc' = "retire"
    /\ UNCHANGED <<basicVars, readying, removing, readied, toVisit, retired, enlisted, pin, doubled>>

SnapshotWithoutRetired == readied \ removing

\* Mutant: the queue is copied and not swapped.
CopiedRemoving == removing
SwappedRemoving == {}

\* OnEndTick, first half: take removingUnits_ and erase those pointers from
\* the snapshot.
RetireUnits ==
    /\ tpc = "retire"
    /\ retired' = removing
    /\ removing' = SwappedRemoving
    /\ readied' = SnapshotWithoutRetired
    /\ doubled' = doubled \cup (removing \cap readying)
    /\ tpc' = "enlist"
    /\ UNCHANGED <<basicVars, readying, toVisit, enlisted, pin>>

\* Mutant: the queue is emptied before it is appended.
SnapshotWithoutNew == readied
SnapshotWithNew == readied \cup readying

\* OnEndTick, second half: take readyingUnits_ and append the raw pointers.
EnlistUnits ==
    /\ tpc = "enlist"
    /\ enlisted' = readying
    /\ readying' = {}
    /\ readied' = SnapshotWithNew
    /\ tpc' = "release"
    /\ UNCHANGED <<basicVars, removing, toVisit, retired, pin, doubled>>

\* OnEndTick returns: both locals drop their shared_ptr's.
ReleaseRetired ==
    /\ tpc = "release"
    /\ retired' = {}
    /\ enlisted' = {}
    /\ tpc' = "crossings"
    /\ UNCHANGED <<basicVars, readying, removing, readied, toVisit, pin, doubled>>

\* RequestZoneTransfer holds the player it looked up while it sends.
PinCrossing(id) ==
    /\ tpc = "crossings"
    /\ pin' = FindPlayer(id)
    /\ UNCHANGED <<basicVars, readying, removing, readied, tpc, toVisit, retired, enlisted, doubled>>

EndTick ==
    /\ tpc = "crossings"
    /\ pin' = Null
    /\ tpc' = "idle"
    /\ UNCHANGED <<basicVars, readying, removing, readied, toVisit, retired, enlisted, doubled>>

BasicStep(id) ==
    \/ \E o \in Objs : AddToUnits(id, o)
    \/ AddToPlayers(id)
    \/ AddToReadying(id)
    \/ RemoveFromUnits(id)
    \/ RemoveFromPlayers(id)
    \/ QueueForRemoval(id)
    \/ ReturnFromHandler(id)

TickStep ==
    \/ BeginTick
    \/ \E o \in Objs : VisitUnit(o)
    \/ EndVisits
    \/ RetireUnits
    \/ EnlistUnits
    \/ ReleaseRetired
    \/ \E id \in Ids : PinCrossing(id)
    \/ EndTick

Next == TickStep \/ \E id \in Ids : BasicStep(id)

\* A handler that has begun runs to its end; whether another enter or leave
\* arrives is up to World.
FinishHandler(id) ==
    \/ AddToPlayers(id)
    \/ AddToReadying(id)
    \/ RemoveFromPlayers(id)
    \/ QueueForRemoval(id)
    \/ ReturnFromHandler(id)

\* The tick timer keeps posting ZoneTick, and a posted tick runs to its end.
\* A tick has finitely many crossings, so it does not pin for ever.
AdvanceTick ==
    \/ BeginTick
    \/ \E o \in Objs : VisitUnit(o)
    \/ EndVisits
    \/ RetireUnits
    \/ EnlistUnits
    \/ ReleaseRetired
    \/ EndTick

Spec == Init /\ [][Next]_vars

FairSpec ==
    /\ Spec
    /\ WF_vars(AdvanceTick)
    /\ \A id \in Ids : WF_vars(FinishHandler(id))

(***************************************************************************)
(* Properties.                                                             *)
(***************************************************************************)

\* Every variable has its type (the members of UnitContainer and the locals
\* of its callers).
TypeOK ==
    /\ units \in [Ids -> Maybe]
    /\ players \in [Ids -> Maybe]
    /\ readying \in SUBSET Objs
    /\ removing \in SUBSET Objs
    /\ readied \in SUBSET Objs
    /\ used \in SUBSET Objs
    /\ pc \in [Ids -> BasicSteps]
    /\ hold \in [Ids -> Maybe]
    /\ tpc \in TickSteps
    /\ toVisit \in SUBSET Objs
    /\ retired \in SUBSET Objs
    /\ enlisted \in SUBSET Objs
    /\ pin \in Maybe
    /\ doubled \in SUBSET Objs

\* The claim of the class comment (UnitContainer.h:18-19): the raw pointers
\* the tick dereferences never dangle, because removingUnits_ keeps their
\* objects alive.
TickTouchesLiveUnits == \A o \in toVisit : Alive(o)

(***************************************************************************)
(* The inductive strengthening of the two invariants above.  A handler is  *)
(* always at a definite distance between the two maps (LaneInv), and every *)
(* pointer in or on its way to the snapshot is backed by units_, by the    *)
(* local of a RemoveUnit that has not queued it yet, or by removingUnits_  *)
(* (Owned); only RetireUnits can take that backing away.                   *)
(***************************************************************************)
LaneInv(id) ==
    /\ units[id] # Null => UnitIdOf[units[id]] = id
    /\ pc[id] \in {"idle", "return"} => players[id] = units[id]
    /\ pc[id] = "add_players" => hold[id] # Null /\ units[id] = hold[id] /\ players[id] = Null
    /\ pc[id] = "add_readying" => hold[id] # Null /\ units[id] = hold[id] /\ players[id] = hold[id]
    /\ pc[id] = "remove_players" => hold[id] # Null /\ units[id] = Null /\ players[id] = hold[id]
    /\ pc[id] = "remove_queue" => hold[id] # Null /\ units[id] = Null /\ players[id] = Null

Owned(o) ==
    \/ units[UnitIdOf[o]] = o
    \/ pc[UnitIdOf[o]] \in {"remove_players", "remove_queue"} /\ hold[UnitIdOf[o]] = o
    \/ o \in removing

IInv ==
    /\ TypeOK
    /\ \A id \in Ids : LaneInv(id)
    /\ \A o \in readied \cup readying : Owned(o) \/ o \in doubled
    /\ toVisit \subseteq readied
    /\ toVisit # {} => tpc = "visit"

\* A unit that stays in the zone is ticked sooner or later: AddUnit's
\* reservation is never lost between the two critical sections of OnEndTick.
Enlisted ==
    \A id \in Ids : \A o \in Objs :
        (units[id] = o) ~> (o \in readied \/ units[id] # o)

\* A removed unit is really destroyed: no queue or local keeps its
\* shared_ptr for ever.
RemovedIsDestroyed ==
    \A o \in Objs : (o \in removing) ~> ~Alive(o)
=============================================================================
