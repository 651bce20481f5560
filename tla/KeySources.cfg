SPECIFICATION Spec
CONSTANTS
    Sources <- MCSources
    Manual = "Manual"
    DebounceSamples = 2
    ShortClips = FALSE
INVARIANTS
    TypeOK
    SerialKeyIsHeld
    KeyerKeyIsHeld
PROPERTIES
    VoxReleasesOwn
    ImplementsHost
