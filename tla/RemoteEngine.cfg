\* Two workers, of which one may panic, and a queue of two: five requests
\* overflow the queue and let a signal free the wrong entry.
CONSTANTS
    Requests = {r1, r2, r3, r4, r5}
    NoRequest = NoRequest
    Priorities = {1, 2}
    WorkerCount = 2
    QueueCapacity = 2
    MaxPanics = 1
SPECIFICATION FairSpec
INVARIANTS
    TypeOK
    CapacityAccounting
    WorkConserving
    MetricsAgree
    OnePlace
PROPERTIES
    NoOvertaking
    AdmittedFinishes
\* A panic may leave the engine with no usable slot: it then waits forever.
CHECK_DEADLOCK FALSE
