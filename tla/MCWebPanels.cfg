CONSTANTS
    Batteries = {b1}
    Levels = {0, 1}
    MaxRetries = 2
    MaxLosses = 3
    MaxChanges = 5
SPECIFICATION FairSpec
INVARIANTS TypeOK CapacityCountedOnce SocCurrent
PROPERTY SessionReturns
CHECK_DEADLOCK FALSE
