\* Every engine core, with one request or session more than it has slots.
CONSTANTS
    Kinds = {"text", "speech", "audio"}
    Requests = {r1, r2, r3}
    NoRequest = none
    MaxConcurrent = 2
    ChannelCapacity = 1
    StreamLength = 1
    MaxPanics = 1
    RelayCapacity = 1
    CallerCapacity = 1
SPECIFICATION EngineSpec
INVARIANTS
    SlotsExact
PROPERTIES
    ImplementsAdmission
    EverythingEnds
