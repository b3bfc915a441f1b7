SPECIFICATION Spec
CONSTANTS
    MaxPackets = 1
    MaxStarts = 2
    MaxVerifies = 2
    MaxDrops = 0
    PastEndReads = FALSE
CHECK_DEADLOCK FALSE
PROPERTY LateAnswersHarmless
