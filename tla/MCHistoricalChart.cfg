CONSTANTS
    Consumption = consumption
    Productions = {production}
    meterConfiguration = 1
    Before = 1
    LastMinute = 4
    MaxDraws = 2
    MaxFaults = 2
    MaxQuery = 1
    Failed = failed
    None = none
SPECIFICATION FairHistorySpec
INVARIANTS HistoryTypeOK TakesWhatBelongs
PROPERTIES BoundedStaleness EveryDrawIsDrawn
CHECK_DEADLOCK FALSE
