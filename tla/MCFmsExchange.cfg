CONSTANTS
    Starts = 2
    MaxWrites = 2
    MaxFailures = 1
    MaxCrashes = 1
    MaxTogether = 2
    MaxPublications = 1
SPECIFICATION FairSpec
INVARIANTS TypeOK ReadIsSaved
PROPERTIES FilesAreTaken
