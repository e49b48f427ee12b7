\* EngineCoreActor: max_concurrent.
CONSTANTS
    Kinds = {"text"}
    Requests = {r1, r2}
    NoRequest = none
    MaxConcurrent = 1
    ChannelCapacity = 1
    StreamLength = 2
    MaxPanics = 0
SPECIFICATION Spec
INVARIANT CapacityHonoured
