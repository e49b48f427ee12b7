\* Two engines that register repeatedly, under a RequestActor with every
\* message and a client that may leave, or under the gateway with one call to
\* any route; two declarations or removals of one name or of the provisioned
\* one while the server boots and two removals while it serves.  The Python
\* handle: two deploys of a name and three coroutines.
CONSTANTS
    Engines = {e1, e2}
    Loads = {0, 1}
    Requests = {r1}
    NoRoute = none
    MaxTargets = 2
    MailboxBound = 2
    MaxChunks = 1
    Calls = {c1}
    Apis = {"chat", "transcriptions", "transcriptions_stream", "speech", "speech_stream", "realtime", "audio2face"}
    MaxDeclared = 2
    MaxFrames = 1
    PyCalls = {p1, p2, p3}
    MaxScript = 2
    MaxDeploys = 2
SPECIFICATION FrontSpec
INVARIANTS
    RouteWasLive
    ReplyWellFormed
    RecordsAreRight
    PyResultsWhole
PROPERTY EveryCallEnds
\* The process ends.
CHECK_DEADLOCK FALSE
