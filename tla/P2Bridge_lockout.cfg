SPECIFICATION FairBridgeSpec
CONSTANTS
    MaxDue = 1
    MaxCommands = 1
    MaxSignals = 1
PROPERTY IdleFaultRecovers
CHECK_DEADLOCK FALSE
