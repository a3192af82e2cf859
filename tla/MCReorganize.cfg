CONSTANTS
    straddle = straddle
    recent = recent
    Mails = {straddle, recent}
    Quarters = {"q1", "q2"}
    Sent <- MCSent
    Received <- MCReceived
    Old = {straddle}
    Home = "mailbox"
    Legacy = {"old.pst", "mailbox"}
    Dir <- MCDir
    Root <- MCRoot
    Names <- MCNames
    Paths <- MCPaths
    Reserved <- MCReserved
    NotMail <- MCNotMail
    SentFolder <- MCSentFolder
    SentNames = {"sent"}
    Configs <- MCConfigs
    Starts <- MCStarts
    MaxPasses = 2
    MaxTroubles = 1
SPECIFICATION Spec
INVARIANTS
    TypeOK
    
    AllFiled
PROPERTIES
    
    MailboxRules
CHECK_DEADLOCK FALSE
