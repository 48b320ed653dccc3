\* Requests, expiries, refused transactions and a disconnect in every order.
CONSTANTS
    MaxMailId = 4
    InitialEnds <- TwoMails
    Durations = {1}
    Prices = {1}
    InitialGold = 1
    MaxMailCount = 2
    EnterBudget = 1
    MaxTime = 1
    MaxRequests = 2
    MaxFailures = 1
    NoExpire = 100
    Session = s
    Player = p
    NoPlayer = NoPlayer
    NoZone = NoZone
SPECIFICATION FairSpec
INVARIANTS
    NextIsEarliest
    RefusedLeavesNothing
    GoldPaysForMails
    CacheFollowsZone
    ClientFollowsZone
    DbFollowsCache
PROPERTIES
    ExpiryReachesDb
\* The client stops sending and the clock stops at their bounds.
CHECK_DEADLOCK FALSE
