\* The daily forced optimization is the only recurring caller.
CONSTANTS
    Initials = {i1}
    Updates = {u1, u2}
    Compliance = compliance
    MinUpdate = 2
    MinTarget = 2
    StartTime = 2
    MaxTime = 4
SPECIFICATION DailySpec
INVARIANTS TypeOK SleepsOnlyWhenNothingDue UpdateSlotsSpaced NoUpdateLost
PROPERTY UpdatesStartOnce DueJobsAreTaken
CHECK_DEADLOCK FALSE
