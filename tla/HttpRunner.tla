----------------------------- MODULE HttpRunner -----------------------------
(***************************************************************************)
(* One call of a provider runner over HTTP (OpenAI, Azure, LiteLLM,        *)
(* Anthropic, Gemini, OpenAI speech, ElevenLabs) while RemoteSessionActor  *)
(* rebuilds the session under it.  The runner reads the shared snapshot    *)
(* twice: once for the client, once more, in auth_headers, for the         *)
(* credential.  The provider answers with any status and any events.       *)
(***************************************************************************)
EXTENDS TextWire, SpeechWire

CONSTANTS
    MaxRebuilds,   \* how often the session is rebuilt
    MaxEvents,     \* pieces of a streamed answer
    Apis           \* the runners considered

ASSUME BoundsAssumption == MaxRebuilds \in Nat /\ MaxEvents \in Nat /\ Apis \subseteq TextApis \cup SpeechApis

VARIABLES
    secret,     \* version of the credential the source hands out
    snapshot,   \* the published SessionSnapshot: its number, its credential
    rebuild,    \* the session actor: idle, or between its two awaits
    acked,      \* number of the last snapshot whose rebuild was answered Ok
    call        \* the runner's call

sessionVars == <<secret, snapshot, rebuild, acked>>
vars == <<secret, snapshot, rebuild, acked, call>>

NoCall ==
    [phase |-> "new", api |-> None, batch |-> None, since |-> 0, client |-> 0, cred |-> 0,
     key |-> 0, request |-> None, cause |-> [kind |-> None], err |-> None, wait |-> -1,
     given |-> <<>>, out |-> <<>>, events |-> 0]

(* The inputs: conversations of a batch, and speech batches.               *)
Message(role, parts, mark) == [role |-> role, parts |-> parts, mark |-> mark]
Conversations ==
    {<<Message("system", FALSE, 1), Message("user", FALSE, 2)>>,
     <<Message("system", TRUE, 1), Message("user", TRUE, 2), Message("assistant", FALSE, 3),
       Message("tool", FALSE, 4), Message("system", FALSE, 5)>>}

SpeechBatch ==
    [options |-> "transcribe", payload |-> "bytes", timestamps |-> FALSE, interim |-> FALSE,
     voice |-> "id", default_voice |-> FALSE, format |-> None]

TextBatches == [stream : BOOLEAN, messages : Conversations]

VoiceBatches(api) ==
    CASE api = "openai_stt" ->
            {[SpeechBatch EXCEPT !.options = o, !.payload = p, !.timestamps = t] :
                o \in {"transcribe", "audio2face"}, t \in BOOLEAN,
                p \in {"bytes", "path", "missing_path", "url", "stream"}}
      [] api = "clone_voice" ->
            {[SpeechBatch EXCEPT !.payload = p] : p \in {"bytes", "path", "url"}}
      [] OTHER ->
            {[SpeechBatch EXCEPT !.voice = v, !.default_voice = d, !.format = f] :
                v \in {"id", "cloned"}, d \in BOOLEAN, f \in Formats \cup {None}}

Batches(api) == IF api \in TextApis THEN TextBatches ELSE VoiceBatches(api)

Init ==
    /\ secret = 1
    /\ snapshot = [num |-> 1, secret |-> 1]
    /\ rebuild = "idle"
    /\ acked = 1
    /\ call = NoCall

----------------------------------------------------------------------------
(* RemoteSessionActor: handle is rebuild, whose build_snapshot makes a     *)
(* client, awaits the credential, and only then stores the snapshot.       *)

Rotate ==
    /\ secret <= MaxRebuilds
    /\ secret' = secret + 1
    /\ UNCHANGED <<snapshot, rebuild, acked, call>>

RebuildStarts ==
    /\ rebuild = "idle"
    /\ snapshot.num <= MaxRebuilds
    /\ rebuild' = "token"
    /\ UNCHANGED <<secret, snapshot, acked, call>>

(* Fault: the reply is sent before the snapshot is stored.                 *)
RebuildEndsAckFirst ==
    /\ rebuild = "token"
    /\ rebuild' = "idle"
    /\ acked' = snapshot.num + 1
    /\ UNCHANGED <<secret, snapshot, call>>

RebuildEnds ==
    /\ rebuild = "token"
    /\ rebuild' = "idle"
    /\ snapshot' = [num |-> snapshot.num + 1, secret |-> secret]
    /\ acked' = snapshot.num + 1
    /\ UNCHANGED <<secret, call>>

(* No client or no credential: the old snapshot stays published.           *)
RebuildFails ==
    /\ rebuild = "token"
    /\ rebuild' = "idle"
    /\ UNCHANGED <<secret, snapshot, acked, call>>

----------------------------------------------------------------------------
(* The call.                                                               *)

(* The snapshots are dropped with the call.                                *)
Dropped(c) == [c EXCEPT !.phase = "ended", !.since = 0, !.client = 0, !.cred = 0, !.key = 0]

Ended(err, wait) == [Dropped(call) EXCEPT !.err = err, !.wait = wait]

(* Everything a runner checks before it touches the session.               *)
StartText(api, b) ==
    /\ call.phase = "new"
    /\ call' = [call EXCEPT !.phase = "client", !.api = api, !.batch = b, !.since = acked,
                            !.request = FromBatch(api, b.messages)]
    /\ UNCHANGED sessionVars

StartSpeech(api, b) ==
    /\ call.phase = "new"
    /\ LET refused == Rejects(api, b)
       IN  call' = [call EXCEPT !.phase = IF refused = None THEN "client" ELSE "ended",
                                !.api = api, !.batch = b, !.since = acked, !.err = refused]
    /\ UNCHANGED sessionVars

LoadClient ==
    /\ call.phase = "client"
    /\ call' = [call EXCEPT !.phase = "auth", !.client = snapshot.num]
    /\ UNCHANGED sessionVars

(***************************************************************************)
(* auth_headers: a second load.  For AI Studio the key is added to the     *)
(* local url after the request was built from a copy of it, so the request *)
(* carries no key.                                                         *)
(***************************************************************************)
KeyPlaced(api) == IF api = "aistudio" THEN 0 ELSE snapshot.secret

LoadCredential ==
    /\ call.phase = "auth"
    /\ call' = [call EXCEPT !.phase = "sent", !.cred = snapshot.num, !.key = KeyPlaced(call.api)]
    /\ UNCHANGED sessionVars

(* The credential is no header value.                                      *)
CredentialInvalid ==
    /\ call.phase = "auth"
    /\ call.api # "aistudio"
    /\ call' = Ended("Internal", -1)
    /\ UNCHANGED sessionVars

SendFails ==
    /\ call.phase = "sent"
    /\ call' = [Ended("NetworkError", -1) EXCEPT !.cause = [kind |-> "network"]]
    /\ UNCHANGED sessionVars

Classify(api, status, header, body) ==
    CASE api \in OpenAiApis \cup {"openai_stt", "openai_tts"} -> ClassifyOpenAiError(status, header, body)
      [] api = "anthropic" -> ClassifyAnthropicError(status, header, body)
      [] api \in GeminiApis -> ClassifyGeminiError(status, header, body)
      [] api = "elevenlabs" -> ClassifyElevenLabsError(status, header, body)
      [] api = "clone_voice" -> ClassifyElevenLabsError(status, [kind |-> "absent", secs |-> 0], body)

Refused(status, header, body) ==
    /\ call.phase = "sent"
    /\ LET e == Classify(call.api, status, header, body)
       IN  call' = [Ended(e.kind, e.wait) EXCEPT
                        !.cause = [kind |-> "status", status |-> status, header |-> header, body |-> body]]
    /\ UNCHANGED sessionVars

(* A success whose body does not arrive or does not decode.                *)
BodyFails ==
    /\ call.phase = "sent"
    /\ ~(call.api \in TextApis /\ call.batch.stream)
    /\ call' = [Ended(IF call.api \in {"openai_tts", "elevenlabs", "clone_voice"}
                      THEN "NetworkError" ELSE "Internal", -1) EXCEPT !.cause = [kind |-> "body"]]
    /\ UNCHANGED sessionVars

StreamOpens ==
    /\ call.phase = "sent"
    /\ call.api \in TextApis /\ call.batch.stream
    /\ call' = [call EXCEPT !.phase = "streaming"]
    /\ UNCHANGED sessionVars

(* What a provider sends as its n-th piece.                                *)
Choice(text, finish) == [text |-> text, finish |-> finish]
Event(kind, choices, tool, usage) == [kind |-> kind, choices |-> choices, tool |-> tool, usage |-> usage]
Pieces(api, n) ==
    LET Piece(c) == Event("chunk", c, FALSE, c = <<>>)
    IN  {Piece(<<>>), Piece(<<Choice(<<n>>, None)>>)}
            \cup {Piece(<<Choice(<<n>>, f)>>) : f \in ProviderReasons(api)}
            \cup {Piece(<<Choice(<<n>>, f), Choice(<<>>, None)>>) : f \in ProviderReasons(api)}

ProviderEvents(api, n) ==
    IF api = "anthropic"
    THEN {Event(k, <<Choice(<<>>, None)>>, FALSE, FALSE) :
                k \in {"ping", "start", "block", "json", "bad", "error", "done"}}
            \cup {Event("text", <<Choice(<<n>>, None)>>, FALSE, FALSE)}
            \cup {Event("delta", <<Choice(<<>>, f)>>, FALSE, TRUE) : f \in {None} \cup ProviderReasons(api)}
    ELSE Pieces(api, n)
            \cup {Event("bad", <<>>, FALSE, FALSE)}
            \cup {Event(IF api \in OpenAiApis THEN "done" ELSE "empty", <<>>, FALSE, FALSE)}

Documents(api, n) ==
    IF api = "anthropic"
    THEN {Event("chunk", <<Choice(<<n>>, f)>>, FALSE, TRUE) :
                f \in {None} \cup ProviderReasons(api)}
    ELSE Pieces(api, n)

(* One event through filter_map; the worker leaves at the first error.     *)
StreamEvent(e) ==
    /\ call.phase = "streaming"
    /\ call.events < MaxEvents
    /\ LET items == Lift(call.api, e)
           failed == items # <<>> /\ items[1].err # None
           next == [call EXCEPT !.events = @ + 1, !.out = @ \o items, !.given = Append(@, e)]
       IN  call' = IF failed THEN [Dropped(next) EXCEPT !.err = items[1].err] ELSE next
    /\ UNCHANGED sessionVars

StreamBreaks ==
    /\ call.phase = "streaming"
    /\ call' = [Ended("NetworkError", -1) EXCEPT !.cause = [kind |-> "network"], !.out = Append(@, Failed("NetworkError"))]
    /\ UNCHANGED sessionVars

StreamCloses ==
    /\ call.phase = "streaming"
    /\ call' = Dropped(call)
    /\ UNCHANGED sessionVars

Document(e) ==
    /\ call.phase = "sent"
    /\ call.api \in TextApis /\ ~call.batch.stream
    /\ call' = [Dropped(call) EXCEPT !.given = <<e>>, !.out = LiftDocument(call.api, e)]
    /\ UNCHANGED sessionVars

(* Transcripts: words and segments with times on a coarse grid.            *)
Word(a, b) == [start |-> a, stop |-> b]
Answers ==
    [words : {<<>>, <<Word(0, 2), Word(2, 4)>>, <<Word(1, 3), Word(3, 4)>>},
     segments : {<<>>, <<Word(0, 4)>>, <<Word(0, 2), Word(2, 4)>>}]

Transcript(a) ==
    /\ call.phase = "sent"
    /\ call.api = "openai_stt"
    /\ call' = [Dropped(call) EXCEPT !.given = <<a>>, !.out = TranscriptChunks(call.batch, a)]
    /\ UNCHANGED sessionVars

ChunkBytes == 2

Audio(total) ==
    /\ call.phase = "sent"
    /\ call.api \in {"openai_tts", "elevenlabs"}
    /\ call' = [Dropped(call) EXCEPT !.given = <<total>>,
                            !.out = Rechunk(total, ChunkBytes)]
    /\ UNCHANGED sessionVars

VoiceAdded ==
    /\ call.phase = "sent"
    /\ call.api = "clone_voice"
    /\ call' = Dropped(call)
    /\ UNCHANGED sessionVars

Next ==
    \/ Rotate \/ RebuildStarts \/ RebuildEnds \/ RebuildFails
    \/ \E api \in Apis \cap TextApis : \E b \in Batches(api) : StartText(api, b)
    \/ \E api \in Apis \cap SpeechApis : \E b \in Batches(api) : StartSpeech(api, b)
    \/ LoadClient \/ LoadCredential \/ CredentialInvalid
    \/ SendFails \/ BodyFails \/ StreamOpens \/ StreamBreaks \/ StreamCloses
    \/ \E status \in Statuses, header \in RetryAfterHeaders, body \in Bodies :
          Refused(status, header, body)
    \/ call.phase = "streaming" /\ \E e \in ProviderEvents(call.api, call.events + 1) : StreamEvent(e)
    \/ call.phase = "sent" /\ call.api \in TextApis /\ \E e \in Documents(call.api, 1) : Document(e)
    \/ \E a \in Answers : Transcript(a)
    \/ \E total \in 0..5 : Audio(total)
    \/ VoiceAdded

Spec == Init /\ [][Next]_vars

----------------------------------------------------------------------------
Phases == {"new", "client", "auth", "sent", "streaming", "ended"}

TypeOK ==
    /\ secret \in 1..(MaxRebuilds + 1)
    /\ snapshot \in [num : 1..(MaxRebuilds + 1), secret : 1..(MaxRebuilds + 1)]
    /\ rebuild \in {"idle", "token"}
    /\ acked \in 1..(MaxRebuilds + 1)
    /\ call.phase \in Phases
    /\ call.err \in Kinds \cup {None}

(***************************************************************************)
(* A call that starts after a rebuild was answered uses the rebuilt        *)
(* session, and a rebuild that lands between the two loads can only pair   *)
(* the older client with the newer credential, never a credential that has *)
(* been replaced with a client that was not (session.rs, auth_headers).    *)
(***************************************************************************)
FreshSession ==
    /\ call.client > 0 => call.client >= call.since
    /\ call.phase \in {"sent", "streaming"} => call.cred >= call.client

(***************************************************************************)
(* The retry loop may only repeat what can succeed: a retryable error      *)
(* comes from the network, a 429, a 5xx or a quota body; a 429 or 5xx      *)
(* stays retryable unless the provider names a refusal in the body; and a  *)
(* wait is only ever announced with a rate limit and lies in the future.   *)
(***************************************************************************)
RetryIsSound ==
    LET Transient(s) == s = 429 \/ s \in 500..599
        Named(api, body) == \/ api = "anthropic" /\ body \in {"too_long", "permission"}
                            \/ api \in GeminiApis /\ body = "safety"
    IN  /\ call.wait >= 0 => /\ call.err = "RateLimited"
                             /\ call.cause.header.secs = call.wait
        /\ call.phase = "ended" /\ call.cause.kind = "status" =>
             /\ IsRetryable(call.err) =>
                   \/ Transient(call.cause.status)
                   \/ call.api \in GeminiApis /\ call.cause.body = "resource_exhausted"
             /\ Transient(call.cause.status) /\ ~IsRetryable(call.err) => Named(call.api, call.cause.body)

(***************************************************************************)
(* The text a consumer collects is the text the provider sent, in order:   *)
(* keep-alives and terminators add nothing, and nothing before an error or *)
(* a broken connection is lost; an answer taken whole has a finish reason. *)
(***************************************************************************)
TextComplete ==
    call.api \in TextApis =>
        /\ Tokens(call.out).text =
              FlattenSeq([i \in 1..Len(call.given) |->
                  FlattenSeq([j \in 1..Len(call.given[i].choices) |-> call.given[i].choices[j].text])])
        /\ \A i \in 1..(Len(call.out) - 1) : call.out[i].err = None
        /\ call.phase = "ended" /\ ~call.batch.stream /\ call.err = None => Tokens(call.out).finish # None

(***************************************************************************)
(* Audio and transcripts come with exactly one final chunk, the last one;  *)
(* the slices of the audio are the body without gap or overlap, whatever   *)
(* its length; a chunk's words lie within its times.                       *)
(***************************************************************************)
FinalIsLast ==
    call.api \in SpeechApis /\ call.out # <<>> =>
        /\ \A i \in 1..Len(call.out) : call.out[i].final <=> i = Len(call.out)
        /\ IF call.api = "openai_stt"
           THEN \A i \in 1..Len(call.out) : \A j \in 1..Len(call.out[i].words) :
                    /\ call.out[i].words[j].start >= call.out[i].start
                    /\ call.out[i].words[j].stop <= call.out[i].stop
           ELSE /\ call.out[1].from = 0 /\ Last(call.out).to = call.given[1]
                /\ \A i \in 1..(Len(call.out) - 1) :
                     call.out[i].to = call.out[i + 1].from /\ call.out[i].to > call.out[i].from

(***************************************************************************)
(* Everything but a system message made of Parts reaches the provider:     *)
(* the turns of the conversation in order, what the assistant said never   *)
(* presented as the user's, and the plain system messages in order, among  *)
(* the turns (OpenAI, LiteLLM) or in a field of their own (Anthropic,      *)
(* Gemini).  The latter two drop a system message of Parts without a word  *)
(* (wire.rs, from_batch), and nothing else.                                *)
(***************************************************************************)
ConversationKept ==
    call.api \in TextApis =>
        LET messages == call.batch.messages
            Apart(i) == call.api \notin OpenAiApis /\ messages[i].role = "system"
            turns == {i \in 1..Len(messages) : ~Apart(i)}
            texts == {i \in 1..Len(messages) : Apart(i) /\ ~messages[i].parts}
            Place(i, S) == Cardinality({j \in S : j <= i})
            sent == call.request.turns
            system == call.request.system
        IN  /\ Len(sent) = Cardinality(turns)
            /\ \A i \in turns :
                 /\ sent[Place(i, turns)].mark = messages[i].mark
                 /\ (messages[i].role = "assistant") <=>
                    (sent[Place(i, turns)].role \in {"assistant", "model"})
            /\ Len(system) = Cardinality(texts)
            /\ \A i \in texts : system[Place(i, texts)] = messages[i].mark
=============================================================================
