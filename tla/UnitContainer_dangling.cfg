\* The claim of the class comment, refuted.
CONSTANTS
    a = a
    b = b
    a1 = a1
    a2 = a2
    b1 = b1
    Ids <- MCIds
    Objs <- MCObjs
    UnitIdOf <- MCUnitIdOf
    Null = Null
SPECIFICATION Spec
INVARIANT TickTouchesLiveUnits
