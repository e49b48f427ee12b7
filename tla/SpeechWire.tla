----------------------------- MODULE SpeechWire -----------------------------
(***************************************************************************)
(* The wire side of the speech providers that answer over plain HTTP:      *)
(* OpenAI transcription and synthesis, ElevenLabs synthesis and voice      *)
(* cloning.  Audio is a range of byte positions, time is in milliseconds.  *)
(***************************************************************************)
EXTENDS Integers, Sequences, SequencesExt, FiniteSetsExt, ProviderErrors

SpeechApis == {"openai_stt", "openai_tts", "elevenlabs", "clone_voice"}

Formats == {"Pcm16Le", "Pcm24Le", "PcmF32Le", "OggOpus", "Mp3", "Flac", "Wav"}
Pcm == {"Pcm16Le", "Pcm24Le", "PcmF32Le"}

(* response_format_str and elevenlabs_output_format: what the provider is  *)
(* asked for.                                                              *)
OpenAiResponseFormat(f) ==
    CASE f \in Pcm \cup {None} -> "pcm"
      [] f = "Mp3" -> "mp3"
      [] f = "OggOpus" -> "opus"
      [] f = "Flac" -> "flac"
      [] f = "Wav" -> "wav"

ElevenLabsOutputFormat(f) ==
    CASE f \in {"Pcm16Le", "Pcm24Le"} -> "pcm_24000"
      [] f \in {"Mp3", None} -> "mp3_44100_128"
      [] f = "OggOpus" -> "opus_48000_64"
      [] OTHER -> None

(* output_params: what the emitted chunks are labelled with.               *)
OpenAiOutputParams(f) ==
    [format |-> IF f = None THEN "Pcm16Le" ELSE f, rate |-> 24000]

ElevenLabsOutputParams(f) ==
    LET format == IF f = None THEN "Mp3" ELSE f
    IN  [format |-> format,
         rate |-> CASE format \in {"Pcm16Le", "Pcm24Le"} -> 24000
                    [] format = "OggOpus" -> 48000
                    [] OTHER -> 44100]

OutputParams(api, f) ==
    IF api = "openai_tts" THEN OpenAiOutputParams(f) ELSE ElevenLabsOutputParams(f)

----------------------------------------------------------------------------
(* What a batch must be before anything is sent: None, or the error.       *)

MaterializePayload(payload) ==
    CASE payload = "bytes" -> None
      [] payload = "path" -> None
      [] payload = "missing_path" -> "BadRequest"
      [] payload = "url" -> "Unsupported"

TranscribeRejects(b) ==
    IF b.options # "transcribe" THEN "BadRequest"
    ELSE IF b.payload = "stream" THEN "Unsupported"
    ELSE MaterializePayload(b.payload)

(* resolve_voice_id: a cloned voice needs a default one to stand in.       *)
ResolveVoiceId(b) ==
    IF b.voice = "cloned" /\ ~b.default_voice THEN "BadRequest" ELSE None

ElevenLabsRejects(b) ==
    IF ResolveVoiceId(b) # None THEN ResolveVoiceId(b)
    ELSE IF ElevenLabsOutputFormat(b.format) = None THEN "UnsupportedAudioFormat"
    ELSE None

CloneRejects(b) == IF b.payload = "bytes" THEN None ELSE "BadRequest"

Rejects(api, b) ==
    CASE api = "openai_stt"  -> TranscribeRejects(b)
      [] api = "openai_tts"  -> None
      [] api = "elevenlabs"  -> ElevenLabsRejects(b)
      [] api = "clone_voice" -> CloneRejects(b)

----------------------------------------------------------------------------
(* Answers.                                                                *)

(* Fault: the final flag is set only when the last slice is a full one.    *)
RechunkFullFinal(total, size) ==
    IF total = 0 THEN <<[from |-> 0, to |-> 0, final |-> TRUE]>>
    ELSE [i \in 1..((total + size - 1) \div size) |->
            [from |-> (i - 1) * size,
             to |-> IF i * size < total THEN i * size ELSE total,
             final |-> i * size = total]]

Rechunk(total, size) ==
    IF total = 0 THEN <<[from |-> 0, to |-> 0, final |-> TRUE]>>
    ELSE [i \in 1..((total + size - 1) \div size) |->
            [from |-> (i - 1) * size,
             to |-> IF i * size < total THEN i * size ELSE total,
             final |-> i * size >= total]]

(***************************************************************************)
(* verbose_to_chunks: one chunk per segment, each with the words whose     *)
(* times lie inside it; a response without segments is one chunk that      *)
(* spans its words.                                                        *)
(***************************************************************************)
WordsWithin(words, seg) ==
    LET Inside(w) == w.start >= seg.start /\ w.stop <= seg.stop
    IN  FoldLeft(LAMBDA kept, w : IF Inside(w) THEN Append(kept, w) ELSE kept, <<>>, words)

VerboseToChunks(words, segments) ==
    IF segments = <<>>
    THEN <<[final |-> TRUE,
            start |-> IF words = <<>> THEN 0 ELSE Min({words[i].start : i \in DOMAIN words}),
            stop |-> IF words = <<>> THEN 0 ELSE Max({words[i].stop : i \in DOMAIN words}),
            words |-> words]>>
    ELSE [i \in 1..Len(segments) |->
            [final |-> i = Len(segments), start |-> segments[i].start,
             stop |-> segments[i].stop, words |-> WordsWithin(words, segments[i])]]

PlainToChunks == <<[final |-> TRUE, start |-> 0, stop |-> 0, words |-> <<>>]>>

(* The verbose document is asked for when timings or interim results are.  *)
WantVerbose(b) == b.timestamps \/ b.interim

TranscriptChunks(b, answer) ==
    IF WantVerbose(b) THEN VerboseToChunks(answer.words, answer.segments) ELSE PlainToChunks
=============================================================================
