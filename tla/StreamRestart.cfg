SPECIFICATION RestartFairSpec
CONSTANTS
    Sources <- MCSources
    Manual = "Manual"
    MaxAtt = 0
    MaxStale = 1
INVARIANT
    KeyedOnlyByThisSession
PROPERTY
    RestartReachesReceive
