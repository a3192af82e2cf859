CONSTANTS
    MaxStarts = 4
    Polls = 5
SPECIFICATION FairSpec
INVARIANT CacheTypeOK
PROPERTIES
    HandsOutLive
    OutlookComesBack
CHECK_DEADLOCK FALSE
