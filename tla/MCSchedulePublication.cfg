\* Crash and restart around a day boundary, an update and initial publications competing
\* for the worker and the retry job, answers of the FMS, a save that fails, and attempts
\* whose day is over when they are made.
CONSTANTS
    DayLength = 2
    PublishAt = 1
    MinUpdate = 1
    StartTime = 10
    Successes = {5}
    MaxTime = 11
    MaxCrashes = 1
    MaxReports = 1
    MaxAnswers = 1
    MaxFailures = 1
    MaxTogether = 3
    None = none
SPECIFICATION FairSpec
INVARIANTS TypeOK OutcomeSaved
PROPERTIES IncompleteIsRetried StaleIsGivenUp
CHECK_DEADLOCK FALSE
