\* Threads that send and close, a stream cut anywhere, a connection that breaks.
CONSTANTS
    a = a
    b = b
    t1 = t1
    t2 = t2
    Ends <- MCEnds
    PeerOf <- MCPeerOf
    Senders <- MCSenders
    EndOf <- MCEndOf
    Script <- MCScript
    Unchecked = {t2}
    Closers = {a}
    MayBreak = TRUE
    MaxBodySize = 1
    ReadSize = 2
    WriteSize = 3
SPECIFICATION FairSpec
INVARIANTS OneWrite ReportedOnce PendingIsQueued BufferBounded
PROPERTIES Delivers LossIsReported
\* The threads have sent everything, or the sessions are gone.
CHECK_DEADLOCK FALSE
