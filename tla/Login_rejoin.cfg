\* One account, left and entered again at once.
CONSTANTS
    s1 = s1
    s2 = s2
    ann = ann
    bob = bob
    Sessions = {s1, s2}
    Names <- MCNames
    Script <- MCRejoin
    Existing = {bob}
    InitialGold = 1
    Disconnects = {s1}
    EntryZone = EntryZone
    NoPlayer = NoPlayer
    NoZone = NoZone
    MaxId = 3
    MaxFails = 0
    MaxLinkChanges = 1
    MaxReports = 1
SPECIFICATION Spec
INVARIANT LoadSeesWrites
\* Clients that have sent all they wanted leave nothing to do.
CHECK_DEADLOCK FALSE
