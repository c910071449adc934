CONSTANTS
    Width = 2
    MaxWrites = 6
    MaxErrors = 2
    MaxRestarts = 1
    MaxCalls = 2
SPECIFICATION FairSpec
INVARIANTS TypeOK EnabledWhenAllClear
PROPERTIES DisabledOnlyWhenAllSet DriverFollowsSignal
CHECK_DEADLOCK FALSE
