\* Safety and liveness of a zone that ticks while units enter and leave.
CONSTANTS
    a = a
    b = b
    a1 = a1
    a2 = a2
    b1 = b1
    Ids <- MCIds
    Objs <- MCObjs
    UnitIdOf <- MCUnitIdOf
    Null = Null
SPECIFICATION FairSpec
INVARIANTS SnapshotOwned IndexAgrees
PROPERTIES Enlisted RemovedIsDestroyed
