SPECIFICATION FairSpec
CONSTANTS
    Workers = {g1, g2}
    EventsOf <- EventsOfARequest
    PublisherQueue = 1
    RecorderQueue = 1
    WireCapacity = 1
    MayNotWait = TRUE
INVARIANTS
    NothingLost
    CloseDrains
    ClosedServesNobody
PROPERTIES
    PublishEnds
    ClosesReturn
CHECK_DEADLOCK FALSE
