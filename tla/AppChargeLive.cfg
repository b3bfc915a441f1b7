CONSTANTS
    MaxQueue = 2
    MaxDelay = 2
    MaxWait = 0
    TestBox = FALSE
SPECIFICATION FairSpec
PROPERTIES
    PoweroffCompletes
    UnpluggedLeavesIdle
    PluggedEndsCharging
