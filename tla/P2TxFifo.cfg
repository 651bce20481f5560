SPECIFICATION Spec
CONSTANTS
    Capacity = 4
    BlockSize = 2
    PacketSize = 3
    PrimeSize = 4
    MaxInFlight = 2
    MaxIndex = 10
    Serials = 7
PROPERTIES
    IsQueue
    NoGapOnAir
CHECK_DEADLOCK FALSE
