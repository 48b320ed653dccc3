\* Clocks that jump, a sequence that runs out, threads that race, restarts.
CONSTANTS
    w = w
    z = z
    w1 = w1
    w2 = w2
    z1 = z1
    World = w
    Processes <- MCProcesses
    ServedBy <- MCServedBy
    Threads <- MCThreads
    ProcessOf <- MCProcessOf
    WorldBegin = 1
    ZoneBegin = 100
    NodeMask = 1023
    SequenceMask = 1
    TimestampMask = 2
    MaxClock = 3
    MaxIds <- MCMaxIds
    MaxLives <- MCMaxLives
SPECIFICATION Spec
INVARIANTS
    TypeOK
    IdsIncrease
    NodesNeverMeet
SYMMETRY MCSymmetry
\* The processes stop at their bounds.
CHECK_DEADLOCK FALSE
