SPECIFICATION FairTciSpec
CONSTANTS
    Sources <- MCSources
    Manual = "Manual"
    Clients = {c1, c2}
    Nobody = Nobody
    MaxOutstanding = 1
    Target = 2
    Cap = 2
INVARIANT
    HeardTransmitIsOnAir
PROPERTY
    StarvedOwnerIsAsked
