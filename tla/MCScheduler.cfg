CONSTANTS
    tray = tray
    web = web
    timerLoop = timerLoop
    r1 = r1
    r2 = r2
    Clients = {tray, web}
    Loop = timerLoop
    Reloaders = {r1, r2}
    MaxVersion = 3
SYMMETRY Symmetry
SPECIFICATION Spec
INVARIANTS
    TypeOK
    TaskMutex
    TimerSurvivesTasks
    IntervalInForce
    BoundedConfigDrift
PROPERTIES
    StopIsFinal
CHECK_DEADLOCK FALSE
