\* Both backends, with a stop at any moment.
CONSTANTS
    p1 = p1
    p2 = p2
    f1 = f1
    f2 = f2
    login = login
    query = query
    success = success
    Msgs <- MCMsgs
    NoMsg = NoMsg
    Owners <- MCOwners
    OwnerOf <- MCOwnerOf
    Lanes <- MCLanes
    LaneOf <- MCLaneOf
    Producers <- MCProducers
    ProducerOf <- MCProducerOf
    Pushes <- MCPushes
SPECIFICATION FairSpec
INVARIANTS OnlyBackwardLost
PROPERTIES OwnersInOrder WaitingIsHandled StopEnds
\* Everything has stopped, or the process has crashed.
CHECK_DEADLOCK FALSE
