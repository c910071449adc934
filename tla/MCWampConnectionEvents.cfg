\* The event thread may end at once, and nothing starts it again.
CONSTANTS
    MaxLosses = 1
    MaxEvents = 1
SPECIFICATION FairSpec
PROPERTY EventsAreHandled
CHECK_DEADLOCK FALSE
