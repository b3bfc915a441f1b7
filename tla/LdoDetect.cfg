CONSTANTS
    OnFilter = 1
    KeepFilter = 2
    OffFilter = 1
    OffMargin = 1
    GlitchFree = TRUE
SPECIFICATION FairSpec
INVARIANTS
    TypeOK
    OnlineMatchesFlag
    Settled
PROPERTIES
    ImplementsPlugReport
