CONSTANTS
    MaxStarts = 3
    Polls = 5
SPECIFICATION FairSpec
PROPERTY ArchivingResumes
CHECK_DEADLOCK FALSE
