SPECIFICATION FairSpec
CONSTANTS
    Sources <- MCSources
    Manual = "Manual"
    Bands = {b1, b2}
    None = None
    Full = 4
    Levels <- MCLevels
    TuneLevels <- MCTuneLevels
    FoldMinDrivePct = 25
    Blank = 1
    Configured <- MCConfigured
    Dwell = 2
INVARIANTS
    TypeOK
    UnfoldedIsSetting
PROPERTY
    SustainedFaultIsCut
