\* The claim of BasicProcessor.cpp:425-429, refuted.
CONSTANTS
    s1 = s1
    player = player
    Sessions <- OneSession
    Players <- OnePlayer
    AccountOf <- AccountOfOne
    Zones = {A, B}
    EntryZone = A
    Outside = Outside
    NoPlayer = NoPlayer
    NoZone = NoZone
    NoSession = NoSession
    InitialGold = 1
    MaxMoves = 2
    MaxBuys = 1
    Disconnects = {}
SPECIFICATION Spec
INVARIANT HandoffCarriesLatest
\* The client stops sending at its bounds.
CHECK_DEADLOCK FALSE
