CONSTANTS
    MaxQueue = 2
    MaxDelay = 1
    MaxWait = 1
    TestBox = TRUE
SPECIFICATION Spec
INVARIANTS
    TypeOK
    ChargeFollowsPlug
    PowerModeFollowsCharge
PROPERTIES
    StartsFromClosed
