--------------------------- MODULE ProviderErrors ---------------------------
(***************************************************************************)
(* How an HTTP answer of a provider becomes a typed InferenceError: the    *)
(* generic table of inference-remote-core and the refinements the provider *)
(* crates layer on it.  A body is abstracted to the one thing a classifier *)
(* recognises in it.                                                       *)
(***************************************************************************)
EXTENDS Integers, InferenceErrors

None == "none"

Bodies ==
    {"plain", "context_length", "content_filter", "too_long", "permission",
     "resource_exhausted", "safety"}

Statuses == {302, 400, 401, 403, 404, 429, 500, 503, 529}

(***************************************************************************)
(* A Retry-After header: absent, garbage, a number of seconds, or an HTTP  *)
(* date, here relative to now.  Only a date in the future is a wait.       *)
(***************************************************************************)
RetryAfterHeaders ==
    [kind : {"absent", "garbage"}, secs : {0}]
        \cup [kind : {"delta"}, secs : {0, 2}] \cup [kind : {"date"}, secs : {-1, 0, 3}]

ParseRetryAfter(h) ==
    IF h.kind = "delta" \/ (h.kind = "date" /\ h.secs > 0) THEN h.secs ELSE -1

(* ElevenLabs reads seconds only.                                          *)
ParseSeconds(h) == IF h.kind = "delta" THEN h.secs ELSE -1

Classified(kind, wait) == [kind |-> kind, wait |-> wait]

ClassifyHttpStatus(status, wait) ==
    CASE status = 429 -> Classified("RateLimited", wait)
      [] status = 400 -> Classified("BadRequest", -1)
      [] status = 401 -> Classified("Unauthorized", -1)
      [] status = 403 -> Classified("Forbidden", -1)
      [] status \in 500..599 -> Classified("ServerError", -1)
      [] OTHER -> Classified("Internal", -1)

(* Fault: the upgrade of a refusal looks at the body whatever the status.  *)
ClassifyOpenAiErrorAnyStatus(status, header, body) ==
    IF body = "context_length" THEN Classified("ContextLengthExceeded", -1)
    ELSE IF body = "content_filter" THEN Classified("ContentFiltered", -1)
    ELSE ClassifyHttpStatus(status, ParseRetryAfter(header))

ClassifyOpenAiError(status, header, body) ==
    IF status = 400 /\ body = "context_length" THEN Classified("ContextLengthExceeded", -1)
    ELSE IF status = 400 /\ body = "content_filter" THEN Classified("ContentFiltered", -1)
    ELSE ClassifyHttpStatus(status, ParseRetryAfter(header))

ClassifyAnthropicError(status, header, body) ==
    IF body = "too_long" THEN Classified("ContextLengthExceeded", -1)
    ELSE IF body = "permission" THEN Classified("Forbidden", -1)
    ELSE ClassifyHttpStatus(status, ParseRetryAfter(header))

ClassifyGeminiError(status, header, body) ==
    IF body = "resource_exhausted" THEN Classified("RateLimited", ParseRetryAfter(header))
    ELSE IF body = "safety" THEN Classified("ContentFiltered", -1)
    ELSE ClassifyHttpStatus(status, ParseRetryAfter(header))

ClassifyElevenLabsError(status, header, body) ==
    CASE status = 429 -> Classified("RateLimited", ParseSeconds(header))
      [] status = 401 -> Classified("Unauthorized", -1)
      [] status = 403 -> Classified("Forbidden", -1)
      [] status \in 400..499 \ {401, 403, 429} -> Classified("BadRequest", -1)
      [] status \in 500..599 -> Classified("ServerError", -1)
      [] OTHER -> Classified("Internal", -1)
=============================================================================
