\* The worker and the breaker's failure count.
CONSTANTS
    Requests = {r1}
    NoRequest = none
    MaxRetries = 1
    Idempotent = TRUE
    ChannelCapacity = 1
    StreamLength = 1
    ProviderErrors = {"ServerError"}
SPECIFICATION Spec
PROPERTY CountsTowardBreaker
