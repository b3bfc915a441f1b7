SPECIFICATION Spec
CONSTANTS
    MaxPackets = 2
    MaxStarts = 1
    MaxVerifies = 1
    MaxDrops = 0
    PastEndReads = TRUE
CHECK_DEADLOCK FALSE
PROPERTY BurnAfterVerify
