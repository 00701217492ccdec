SPECIFICATION FairSpec
CONSTANTS
    Keys = {e1}
    Monitors = {r1}
    Entrances = {h1}
    Live = {r1}
    Nobody = Nobody
    NoKey = NoKey
    Chunks <- TwoChunks
    Batch = 1
    MaxTries = 3
    Lease = 2
    Lifetime = 5
    FirstDelays = {1}
    LaterDelays = {2}
    RetryAfters = {0, 3}
    SwitchUsed = TRUE
    TlsCuts = FALSE
INVARIANTS
    ConfirmedWasAccepted
    FailedIsCertain
    NoRequestWhileOff
    OneRequestAtATime
PROPERTIES
    Settles
