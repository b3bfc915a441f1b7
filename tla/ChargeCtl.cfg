CONSTANTS
    FullThreshold = 2
    MaxOrphans = 1
    ChargeMA = 3
SPECIFICATION Spec
INVARIANTS
    TypeOK
    Supervised
    TrickleEnds
    CloseStopsCcCheck
