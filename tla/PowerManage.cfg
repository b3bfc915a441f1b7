CONSTANTS
    DetectCnt = 2
    LowLimit = 2
    WarnFirst = 1
    WarnAgain = 2
    NormalLimit = 1
    Batteries = {"normal", "warn", "low"}
    MaxQueue = 2
SPECIFICATION FairSpec
INVARIANTS
    TypeOK
    Supervised
PROPERTIES
    LowPowersOff
    Warned
    FastStops
