SPECIFICATION FairSpec
CONSTANTS
    GeneralRefreshTicks = 2
    PrimeEmitEvery = 2
    MaxEpoch = 4
    MaxRestarts = 2
INVARIANTS
    TypeOK
    NeverOnAirBlind
    PaNeedsKey
    PrimedIsLive
    KeyupOrder
PROPERTIES
    ImplementsPort
    CadenceStarts
    SilenceUnkeys
CHECK_DEADLOCK FALSE
