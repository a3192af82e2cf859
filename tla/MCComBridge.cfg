CONSTANTS
    b1 = b1
    t1 = t1
    m1 = m1
    n1 = n1
    n2 = n2
    Root = {b1, t1, m1}
    Nested = {n1, n2}
    Context <- MCContext
    Cap = 1
SPECIFICATION FairSpec
INVARIANTS
    TypeOK
    ReturnedMeansQuiet
PROPERTIES
    TakenInIsAnswered
    NestedCallReturns
    WorkerExits
    ImplementsTaskService
CHECK_DEADLOCK FALSE
