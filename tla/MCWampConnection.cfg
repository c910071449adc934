CONSTANTS
    MaxLosses = 2
    MaxEvents = 2
SPECIFICATION FairSpec
INVARIANTS TypeOK OneHandlerAtATime
PROPERTIES Subscribed LaterConnectionReleases
CHECK_DEADLOCK FALSE
