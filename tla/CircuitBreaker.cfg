\* Two callers race on the atomics while the operator forces the breaker open.
CONSTANTS
    Callers = {c1, c2}
    Threshold = 2
    OpenDuration = 2
    ForceDurations = {1}
    ProviderErrors = {"ServerError", "RateLimited"}
SPECIFICATION FairSpec
INVARIANTS
    OpensAndRefusesJustly
PROPERTY Recovers
