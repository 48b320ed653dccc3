------------------------------ MODULE MCLaneSets ------------------------------
\* World: two BASIC lanes and a DB lane.  Two packets of a session are passed
\* on to the lane of its player.  A login of another session goes through the
\* DB and comes back.
EXTENDS LaneSets

CONSTANTS p1, p2, f1, f2, login, query, success

MCMsgs == {p1, p2, f1, f2, login, query, success}
MCOwners == {"session", "player", "other", "otherDb"}
MCOwnerOf == [m \in Msgs |->
    CASE m \in {p1, p2} -> "session" [] m \in {f1, f2} -> "player"
      [] m \in {login, success} -> "other" [] m = query -> "otherDb"]
MCLanes == {0, 1, 2}
MCLaneOf == [o \in MCOwners |->
    CASE o = "session" -> 0 [] o \in {"player", "other"} -> 1 [] OTHER -> 2]
Basic == 1
Db == 4
MCProducers == {Basic, Db}
MCProducerOf == [k \in MCLanes |-> IF k = 2 THEN Db ELSE Basic]
MCPushes == [m \in Msgs |->
    CASE m = p1 -> <<f1>> [] m = p2 -> <<f2>>
      [] m = login -> <<query>> [] m = query -> <<success>> [] OTHER -> <<>>]
=============================================================================
