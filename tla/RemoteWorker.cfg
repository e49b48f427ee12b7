\* Two requests, one retry, streams of up to two chunks through a full channel.
CONSTANTS
    Requests = {r1, r2}
    NoRequest = none
    MaxRetries = 1
    Idempotent = TRUE
    ChannelCapacity = 1
    StreamLength = 2
    ProviderErrors = {"ServerError", "BadRequest"}
SPECIFICATION FairSpec
INVARIANTS
    AttemptsBounded
    OutputIsHonest
PROPERTIES
    GatedAttempts
    ImplementsContract
    EveryDispatchEnds
