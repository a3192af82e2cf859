CONSTANTS
    m1 = m1
    m2 = m2
    m3 = m3
    p1 = p1
    p2 = p2
    Psts = {p1, p2}
    Home = "ost"
    Paths = {"inbox", "sent"}
    RootPath = "/"
    Mails = {m1, m2, m3}
    Subject <- MCSubject
    Time <- MCTime
    Created <- MCCreated
    Hazards = {}
SYMMETRY Alike
SPECIFICATION Spec
INVARIANTS
    TypeOK
    TwinSurvives
PROPERTIES
    OnlyEmptyFilesDeleted
CHECK_DEADLOCK FALSE
