CONSTANTS
    Starts = 1
    MaxWrites = 2
    MaxFailures = 1
    MaxCrashes = 1
    MaxTogether = 2
    MaxPublications = 1
SPECIFICATION Spec
PROPERTIES MarkedOnlyWhenTold
