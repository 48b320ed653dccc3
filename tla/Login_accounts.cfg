\* Logins that race for one account, that overlap, that fail and that are left.
CONSTANTS
    s1 = s1
    s2 = s2
    ann = ann
    bob = bob
    Sessions = {s1, s2}
    Names <- MCNames
    Script <- MCScript
    Existing = {bob}
    InitialGold = 2
    Disconnects = {s1, s2}
    EntryZone = EntryZone
    NoPlayer = NoPlayer
    NoZone = NoZone
    MaxId = 3
    MaxFails = 1
    MaxLinkChanges = 1
    MaxReports = 1
SPECIFICATION FairSpec
INVARIANTS PlaysAsAccount CacheWasOwned IndexNamesItsSession
PROPERTIES EveryLoginAnswered
\* Clients that have sent all they wanted leave nothing to do.
CHECK_DEADLOCK FALSE
