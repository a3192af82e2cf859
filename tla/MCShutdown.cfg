CONSTANTS
    tray = tray
    timerLoop = timerLoop
    Clients = {tray}
    TimerLoop = timerLoop
    MaxCalls = 2
    Cap = 1
SPECIFICATION FairSpec
INVARIANTS
    TypeOK
    CancelStopsSoon
    OnlyBackgroundHangs
PROPERTIES
    MainReturns
CHECK_DEADLOCK FALSE
