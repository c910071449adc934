CONSTANTS
    DayLength = 2
    Hour = 2
    Percent = 1
    MinEnergy = 1
    MaxEnergy = 2
    FullEnergy = 4
    InitialEnergy = {5}
    Buffer = 0
    Step = 1
    MaxPower = 1
    Limit = 300
    MaxTime = 5
    MaxEvents = 3
    MaxFailures = 1
    None = none
SPECIFICATION Spec
INVARIANTS TypeOK PublishedTasksLast
PROPERTIES NeverDrivenOut
CHECK_DEADLOCK FALSE
