---------------------------- MODULE SpeechOpening ----------------------------
(***************************************************************************)
(* What the streaming speech runners refuse before they dial the provider, *)
(* and with which error.  A request is the part of a batch and of the      *)
(* deployment's configuration that the runner looks at.  A check is a pair *)
(* of whether it fails and of the error it then returns; the first that    *)
(* fails decides.                                                          *)
(***************************************************************************)
EXTENDS SpeechWire

Rejection(checks) ==
    LET failing == {i \in DOMAIN checks : checks[i][1]} IN
    IF failing = {} THEN None
    ELSE checks[CHOOSE i \in failing : \A j \in failing : i <= j][2]

(* The errors of a runner, as the InferenceError they convert to.          *)
RunnerError(variant) ==
    CASE variant = "FeatureDisabled" -> "Internal"
      [] variant = "Unsupported" -> "Unsupported"
      [] variant = "BadRequest" -> "BadRequest"
      [] variant = "UnsupportedFormat" -> "UnsupportedAudioFormat"

DeepgramError(variant) == RunnerError(variant)
AssemblyAiError(variant) == RunnerError(variant)
ElevenLabsError(variant) == RunnerError(variant)

GeminiLiveError(variant) ==
    CASE variant = "ServerError" -> "ServerError"
      [] variant = "SessionClosed" -> "RealtimeClosed"
      [] OTHER -> RunnerError(variant)

-----------------------------------------------------------------------------
(* The transcribers.  A path may be unreadable, and an endpoint that is no *)
(* base cannot be joined with the path of the service.                     *)

SttRequests ==
    [options : {"transcribe", "audio2face"},
     payload : {"stream", "bytes", "path", "unreadable", "url"},
     format : Formats, channels : 1..2, base : BOOLEAN]

DeepgramPayload(r) ==
    << <<r.payload = "unreadable", "BadRequest">>,
       <<r.payload = "url", DeepgramError("Unsupported")>> >>

DeepgramEncodes(format) == format # "Pcm24Le"

DeepgramRejects(r) ==
    Rejection(
      << <<r.options # "transcribe", DeepgramError("BadRequest")>> >>
      \o DeepgramPayload(r)
      \o << <<~DeepgramEncodes(r.format), DeepgramError("UnsupportedFormat")>>,
            <<~r.base, "Internal">> >>)

AssemblyAiPayload(r) ==
    << <<r.payload = "unreadable", "BadRequest">>,
       <<r.payload = "url", AssemblyAiError("Unsupported")>> >>

FormatSupported(format) == format = "Pcm16Le"

AssemblyAiRejects(r) ==
    Rejection(
      << <<r.options # "transcribe", AssemblyAiError("BadRequest")>> >>
      \o AssemblyAiPayload(r)
      \o << <<~FormatSupported(r.format), AssemblyAiError("UnsupportedFormat")>>,
            <<r.channels # 1, AssemblyAiError("UnsupportedFormat")>>,
            <<~r.base, "Internal">> >>)

-----------------------------------------------------------------------------
(* ElevenLabs over the WebSocket: the checks of its plain requests, with   *)
(* the address in between.                                                 *)

SpeechRequests ==
    [voice : {"named", "id", "cloned"}, default_voice : BOOLEAN,
     format : Formats \cup {None}, base : BOOLEAN]

ElevenOpenRejects(r) ==
    Rejection(
      << <<ResolveVoiceId(r) # None, ElevenLabsError("BadRequest")>>,
         <<~r.base, "Internal">>,
         <<ElevenLabsOutputFormat(r.format) = None, ElevenLabsError("UnsupportedFormat")>> >>)

-----------------------------------------------------------------------------
(* The realtime sessions.  An environment variable that is set counts as a *)
(* key even when it is empty; an endpoint of OpenAI is dialled as it is.   *)

RealtimeRequests ==
    [voice : {"named", "id", "cloned"}, base : BOOLEAN,
     key : {"env", "env_unset", "env_empty", "inline", "inline_empty"}]

GeminiRejects(r) ==
    Rejection(<< <<r.voice = "cloned", GeminiLiveError("BadRequest")>>,
                 <<~r.base, "Internal">> >>)

ResolveVoice(voice) == voice # "cloned"
ResolveApiKey(key) == key \notin {"env_unset", "inline_empty"}

OpenAiRejects(r) ==
    Rejection(<< <<~ResolveVoice(r.voice), "BadRequest">>,
                 <<~ResolveApiKey(r.key), "Unauthorized">> >>)
=============================================================================
