\* Two batches on one vLLM engine, and nothing that could go wrong.
SPECIFICATION WorkerSpec
CHECK_DEADLOCK FALSE
CONSTANTS
    Batches = {1, 2}
    LocalKinds = {"vllm"}
    Models = {"kv"}
    Vocabulary = {"w"}
    MaxNew = 2
    Cap = 1
    MaxDrops = 0
    Rebuilds = {}
    MaxControl = 0
    BothKinds = {}
    Causes = {"Manual"}
INVARIANT
    FinishIsDemuxed
