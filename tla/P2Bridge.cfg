SPECIFICATION FairBridgeSpec
CONSTANTS
    MaxDue = 1
    MaxCommands = 2
    MaxSignals = 2
INVARIANTS
    RadioFollowsHost
    CopiesConverge
PROPERTY FaultReleasesHost
CHECK_DEADLOCK FALSE
