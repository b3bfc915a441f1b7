CONSTANTS
    Buds = {L, R}
    None = None
    PoweronTime = 1
    ReconnTime = 2
    ExistTime = 1
    PairWindow = 1
    Phones = 1
    PhoneEnds = {"user", "timeout"}
    MaxBacklog = 0
SPECIFICATION FairSpec
INVARIANTS
    TypeOK
    NeverStranded
    OneDriver
    PhoneLeftAlone
PROPERTIES
    Reunion
    PairSwitchesOff
    Discoverable
