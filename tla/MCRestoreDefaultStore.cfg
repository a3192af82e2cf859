CONSTANTS
    m1 = m1
    m2 = m2
    m3 = m3
    p1 = p1
    p2 = p2
    Psts = {p1, "ost"}
    Home = "ost"
    Paths = {"inbox", "sent"}
    RootPath = "/"
    Mails = {m1, m2, m3}
    Subject <- MCSubject
    Time <- MCTime
    Created <- MCCreated
    Hazards = {}
SPECIFICATION Spec
INVARIANT TwinSurvives
CHECK_DEADLOCK FALSE
