\* Every owner on a lane of its own: all orders between the lanes.
CONSTANTS
    a1 = a1
    a2 = a2
    a3 = a3
    b1 = b1
    A = A
    B = B
    Links <- MCLinks
    Zones <- MCZones
    ZoneOf <- MCZoneOf
    Lanes <- OwnLanes
    LaneOf <- OwnLane
    NoLink = NoLink
SPECIFICATION FairSpec
INVARIANTS RegistryFollowsLinks
PROPERTIES OnlyClosedRemoved OpenIsRegistered
\* All links have come and gone.
CHECK_DEADLOCK FALSE
