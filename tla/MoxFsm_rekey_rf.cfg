SPECIFICATION Spec
CONSTANTS
    Sources <- MCOneSource
    Manual = "Manual"
    MaxAtt = 1
INVARIANT
    IdleKeyedIsOnAir
