--------------------------- MODULE MCUnitContainer ---------------------------
\* Two unit ids; a enters the zone twice, so that a unit leaves and returns
\* around every step of a tick while another one is there.
EXTENDS UnitContainer

CONSTANTS a, b, a1, a2, b1

MCIds == {a, b}
MCObjs == {a1, a2, b1}
MCUnitIdOf == [o \in MCObjs |-> IF o \in {a1, a2} THEN a ELSE b]
=============================================================================
