CONSTANTS
    MinSoc = 1
    MaxSoc = 3
    FullSoc = 4
    ReconnectionInterval = 0
    MaxFailures = 1
    MaxRequests = 1
    None = none
SPECIFICATION FairDriverSpec
INVARIANTS DriverTypeOK RequestWrittenOrPending
PROPERTIES FollowsSchedule ReturnsIntoBounds
CHECK_DEADLOCK FALSE
