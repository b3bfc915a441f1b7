SPECIFICATION FairSpec
CONSTANTS
    MaxPackets = 2
    MaxStarts = 2
    MaxVerifies = 1
    MaxDrops = 1
    PastEndReads = FALSE
CHECK_DEADLOCK FALSE
INVARIANT TypeOK
INVARIANT RebootTogetherUpdated
PROPERTY BurnAfterVerify
PROPERTY ImplementsPairUpdate
PROPERTY SlaveLeavesUpdate
PROPERTY RequestAnswered
