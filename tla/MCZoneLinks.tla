------------------------------ MODULE MCZoneLinks ------------------------------
\* A zone server that comes back twice, next to one that connects once.
EXTENDS ZoneLinks

CONSTANTS a1, a2, a3, b1, A, B

MCLinks == {a1, a2, a3, b1}
MCZones == {A, B}
MCZoneOf == [l \in MCLinks |-> IF l = b1 THEN B ELSE A]

\* Every owner on a lane of its own: the most interleaving there is.
OwnLane == [o \in MCLinks \cup MCZones |-> o]
OwnLanes == MCLinks \cup MCZones
=============================================================================
