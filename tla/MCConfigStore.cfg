CONSTANTS
    Values = {0, 1, 2}
    Default = 1
    Together = 2
SPECIFICATION Spec
INVARIANTS
    TypeOK
    QuietMeansInForce
PROPERTY KeepsSettings
