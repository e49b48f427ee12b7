\* Every provider API against one session rebuild and answers of up to two
\* pieces; every in-process speech runner against one replaced model file;
\* and a link with the tightest idle timeout its assumption allows, so that a
\* pong and the deadline can meet in one instant.
SPECIFICATION RunnersSpec
CONSTANTS
    MaxRebuilds = 1
    MaxEvents = 2
    Apis = {"openai", "litellm", "anthropic", "aistudio", "vertex", "openai_stt", "openai_tts", "elevenlabs", "clone_voice"}
    MaxVersions = 2
    MaxCalls = 1
    PingInterval = 3
    IdleTimeout = 7
    TickEvery = 2
    RoundTrip = 2
    InitialBackoff = 1
    MaxBackoff = 3
    Limits = {0, 2}
    Jitters = {"None", "Equal", "Full"}
    MaxDials = 4
INVARIANTS
    NothingStale
    RetryIsSound
    ContentKept
    FinalComesLast
    KeepaliveIsTight
    GiveUpJustified
    BacklogKept
\* The calls are over, or the link has given up.
CHECK_DEADLOCK FALSE
