\* A client that moves over three zones and buys, and may go away at any time.
CONSTANTS
    s1 = s1
    player = player
    Sessions <- OneSession
    Players <- OnePlayer
    AccountOf <- AccountOfOne
    Zones = {A, B, C}
    EntryZone = A
    Outside = Outside
    NoPlayer = NoPlayer
    NoZone = NoZone
    NoSession = NoSession
    InitialGold = 1
    MaxMoves = 2
    MaxBuys = 1
    Disconnects = {s1}
SPECIFICATION FairSpec
INVARIANTS RoutedZoneHoldsPlayer ContentKept GoneLeavesNobody
PROPERTIES CrossingEnds LoginEntersZone
\* The client stops sending at its bounds.
CHECK_DEADLOCK FALSE
