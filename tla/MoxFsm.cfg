SPECIFICATION FairSpec
CONSTANTS
    Sources <- MCSources
    Manual = "Manual"
    MaxAtt = 1
INVARIANTS
    OneChain
    IdleMatchesIntent
    FrontEndProtected
    GeneratorMatchesButton
    SafetyTimerIsOfThisOver
PROPERTIES
    ImplementsFunnel
    RelaySwitchesCold
    ReleaseReachesReceive
    PressReachesWire
