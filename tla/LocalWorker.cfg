\* Two batches on each in-process runner, with one rebuild or one poisoned
\* context - with both, or two poisonings, on the cheap runners - and one
\* consumer that leaves; "h" is half a character, "s" a stop.
SPECIFICATION WorkerSpec
\* Every batch has closed and nobody posts another.
CHECK_DEADLOCK FALSE
CONSTANTS
    Batches = {1, 2}
    LocalKinds = {"vllm", "ort", "mistralrs", "tensorrt", "candle", "mock"}
    Models = {"kv", "stateless", "dynamic_heads", "f16"}
    Vocabulary = {"w", "h", "s"}
    MaxNew = 2
    Cap = 1
    MaxDrops = 1
    Rebuilds = {r1}
    MaxControl = 1
    BothKinds = {"mock", "tensorrt", "candle"}
    Causes = {"Manual", "ConfigChanged"}
INVARIANTS
    EndIsExplained
    TextIsExact
    NoStaleEngine
PROPERTY
    EveryBatchCloses
