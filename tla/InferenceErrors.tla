--------------------------- MODULE InferenceErrors ---------------------------
(***************************************************************************)
(* The error taxonomy of inference-core (error.rs): the variants of        *)
(* InferenceError and the two classifications the remote tier branches on. *)
(***************************************************************************)

Kinds ==
    {"RateLimited", "CircuitOpen", "ContentFiltered", "ContextLengthExceeded",
     "BadRequest", "Unauthorized", "Forbidden", "Backpressure", "BudgetExceeded",
     "NetworkError", "ServerError", "Timeout", "CudaContextPoisoned",
     "Unsupported", "UnsupportedAudioFormat", "RealtimeClosed", "Internal"}

IsRetryable(k) == k \in {"RateLimited", "ServerError", "Timeout", "NetworkError"}

CountsAsCircuitFailure(k) == k \in {"ServerError", "Timeout", "NetworkError"}
=============================================================================
