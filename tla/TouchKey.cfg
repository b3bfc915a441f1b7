\* The pair's touch keys; the real number of polls, counts scaled down.
SPECIFICATION FairSpec
CONSTANTS
    Buds = {L, R}
    None = None
    PowerOffCnt = 2
    CntMod = 3
    ResetTaps = 2
    MaxTaps = 2
    RebootPolls = 3
    Plans = {{"hold", "lose"}, {"hold", "meet"}, {"reset"}}
    MaxResets = 1
INVARIANT TypeOK
PROPERTIES HeldPowersOff ResetReboots
CHECK_DEADLOCK FALSE
