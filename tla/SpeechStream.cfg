\* One session of any of the runners, with two messages from the caller and
\* two frames before the provider's end, over an item channel of one place.
CONSTANTS
    Providers = {"deepgram", "assemblyai", "elevenlabs", "gemini_live", "openai_realtime"}
    OutCapacity = 1
    InCapacity = 1
    MaxUnread = 1
    MaxInput = 2
    MaxFrames = 2
SPECIFICATION FairSpec
INVARIANTS
    EndIsExplained
    DeliveredFaithfully
    AudioThenMarker
PROPERTY
    TasksEnd
