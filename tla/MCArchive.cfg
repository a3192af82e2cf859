CONSTANTS
    old = old
    stuck = stuck
    far = far
    recent = recent
    Mails = {old, stuck, far, recent}
    Old = {old, stuck, far}
    Stuck = {stuck}
    Unwanted = {stuck}
    Folders = 2
    Mailbox <- MCMailbox
    MaxErrors = 2
    Options <- MCOptions
SPECIFICATION FairSpec
INVARIANTS
    TypeOK
    BatchLimit
    Accounted
    EveryMailVisited
    RecentStays
PROPERTY NoMailStarves
CHECK_DEADLOCK FALSE
